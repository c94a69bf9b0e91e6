-------------------------- MODULE ServiceAccounts --------------------------
(***************************************************************************)
(* Service accounts of ONE gateway: the lifecycle service of the API       *)
(* server (plugins/serviceAccounts), its background sweep, the orphan      *)
(* cleanup, and the Keycloak clients they drive through the control plane  *)
(* (serviceaccountkeycloak).                                               *)
(*                                                                         *)
(* A worker is one request or the sweep.  Every lifecycle change runs      *)
(* under the gateway's advisory lock; what it read before the lock (the    *)
(* caller's access, the scan's row) may be stale by then.  The orphan      *)
(* cleanup takes no lock.  Every call to Keycloak and every write is a     *)
(* step of its own, so that a crash, a binding change or the orphan        *)
(* cleanup may come between any two.                                       *)
(*                                                                         *)
(* External: the framework's advisory lock and its request transaction: a  *)
(* request's writes show at its commit, the sweep's at once; a panic       *)
(* commits too, a dead process or connection does not.                     *)
(***************************************************************************)
EXTENDS Naturals, FiniteSets

CONSTANTS
    Accounts,        \* ids a Create may draw; each is used once
    Users,           \* gateway members that create and manage accounts
    Requests,        \* concurrent API requests
    Sweep,           \* the background reconciler (one more worker)
    Tiers,           \* gateway tiers in use, among "none", "viewer" and "manager"
    Roles,           \* OpenShell roles in use, among "user" and "admin"
    CreatorQuota,    \* CreatorActiveQuota
    GatewayQuota,    \* GatewayActiveQuota
    MaxFaults,       \* bound on failed calls, failed writes and crashes
    None

Workers == Requests \cup {Sweep}

ASSUME ConstantsAssumption ==
    /\ Sweep \notin Requests
    /\ None \notin Workers \cup Accounts \cup Users
    /\ Tiers \subseteq {"none", "viewer", "manager"} /\ "none" \in Tiers
    /\ Roles \subseteq {"user", "admin"} /\ "user" \in Roles
    /\ CreatorQuota \in Nat /\ GatewayQuota \in Nat /\ MaxFaults \in Nat

VARIABLES
    row,        \* the accounts' rows as any other session reads them
    client,     \* the managed Keycloak client of each account
    op,         \* what each worker is doing
    lock,       \* holder of the gateway's lock, or None
    tx,         \* writes of the lock holder's open transaction
    access,     \* each user's gateway tier
    gateway,    \* "present" or "gone"
    due,        \* accounts past expires_at
    aged,       \* provisioning rows past provisioningReclaimAfter
    orphan,     \* clients the orphan cleanup is about to delete
    faults      \* faults so far

vars == <<row, client, op, lock, tx, access, gateway, due, aged, orphan, faults>>
env == <<access, gateway, due, aged>>

Terminal == {"revoked", "expired"}
Absent == {"none", "deleted"}
Statuses == Absent \cup Terminal \cup
    {"provisioning", "ready", "degraded", "revoking", "deleting", "error"}

Row == [status : Statuses, uuid : BOOLEAN, role : Roles, creator : Users \cup {None}]
Client == [state : {"absent", "disabled", "enabled"}, role : Roles]

\* The roles a tier may give a service account.
AllowedRoles(tier) ==
    CASE tier = "manager" -> Roles
      [] tier = "viewer" -> Roles \cap {"user"}
      [] OTHER -> {}

Active(rows) == {a \in Accounts : rows[a].status \notin Absent \cup Terminal}

-----------------------------------------------------------------------------
(* Workers, their lock and their transaction *)

Pcs == {"idle", "lock", "provision", "undelivered", "purge", "erase", "recheck",
        "drop", "deliver", "disable", "redisable", "settle", "project", "wipe",
        "eraseAll", "finalize", "done"}
Kinds == {"create", "revoke", "role", "delete", "cleanup", "sweep"}

NoRow == [status |-> "none", uuid |-> FALSE, role |-> "user", creator |-> None]
\* Mutant: the deletion is recorded with a status nothing else knows.
DeletedRowUnknown == [NoRow EXCEPT !.status = "purged"]
DeletedRow == [NoRow EXCEPT !.status = "deleted"]

\* pc, kind and arguments; acct is the row in memory, to the status the
\* settling write gives it; ok a response that carries the credential (create)
\* or a deleted gateway row (cleanup); bad a transaction that was marked for
\* rollback.
Idle == [pc |-> "idle", kind |-> "sweep", a |-> None, u |-> None, want |-> NoRow.role,
         acct |-> NoRow, to |-> "none", ok |-> FALSE, bad |-> FALSE]
Op == [pc : Pcs, kind : Kinds, a : Accounts \cup {None}, u : Users \cup {None},
       want : Roles, acct : Row, to : Statuses, ok : BOOLEAN, bad : BOOLEAN]

InTx(w) == w # Sweep

At(w, pc) == op[w].pc = pc /\ lock = w
Goto(w, pc) == op' = [op EXCEPT ![w].pc = pc]
End(w, ok, bad) ==
    op' = [op EXCEPT ![w] = [Idle EXCEPT !.pc = "done", !.kind = op[w].kind, !.a = op[w].a,
                                         !.ok = ok, !.bad = bad]]
Done(w) == End(w, FALSE, FALSE)
Fail(w) == End(w, FALSE, InTx(w))
Fault == faults < MaxFaults /\ faults' = faults + 1
NoFault == UNCHANGED faults

\* acquireGatewayLock: the worker enters its critical section.
Enter(w, kind) ==
    /\ op[w].pc = "lock" /\ op[w].kind = kind
    /\ lock = None /\ lock' = w

\* What the worker's own session reads.
Rows == [a \in Accounts |-> IF a \in DOMAIN tx THEN tx[a] ELSE row[a]]

\* dao.Create, dao.Update, dao.SoftDelete: the write shows at once, or with
\* the commit of the request's transaction.
Save(w, a, r) ==
    IF InTx(w)
    THEN /\ tx' = [b \in DOMAIN tx \cup {a} |-> IF b = a THEN r ELSE tx[b]]
         /\ UNCHANGED row
    ELSE row' = [row EXCEPT ![a] = r] /\ UNCHANGED tx

\* dao.ConditionalUpdate: a compare-and-set on the status the sweep observed.
ConditionalUpdate(w, r) ==
    /\ row' = IF row[op[w].a].status = op[w].acct.status THEN [row EXCEPT ![op[w].a] = r] ELSE row
    /\ UNCHANGED tx

\* The sweep stores through the compare-and-set, a request with dao.Update.
Store(w, r) == IF w = Sweep THEN ConditionalUpdate(w, r) ELSE Save(w, op[w].a, r)
NoSave == UNCHANGED <<row, tx>>

-----------------------------------------------------------------------------
(* The calls to Keycloak: client'[a] for each outcome.  A call that fails   *)
(* may have done any prefix of its writes, or all of them with the answer   *)
(* lost.                                                                    *)

With(a, c) == client' = [client EXCEPT ![a] = c]
InState(a, st) == [client[a] EXCEPT !.state = st]
NoClient == [state |-> "absent", role |-> "user"]

\* DisableServiceAccount; a client that is already gone is a success.
Disabled(a) == IF client[a].state = "absent" THEN client[a] ELSE InState(a, "disabled")

\* DeleteServiceAccount disables, then deletes.
DeleteOutcomes(a) == {client[a], Disabled(a), NoClient}

\* Disable by UUID when it is known, otherwise delete by managed ownership.
WoundDown(a, uuid) == IF uuid THEN Disabled(a) ELSE NoClient
WindDownOutcomes(a, uuid) == IF uuid THEN {client[a], Disabled(a)} ELSE DeleteOutcomes(a)

\* ReconcileServiceAccount disables, rebuilds and enables.
RepairOutcomes(a, role) ==
    {client[a]} \cup {[state |-> "disabled", role |-> r] : r \in {client[a].role, role}}
                \cup {[state |-> "enabled", role |-> role]}

-----------------------------------------------------------------------------
(* Requests arrive: the access check is made before the lock is taken *)

Begin(w, o) == op[w].pc = "idle" /\ op' = [op EXCEPT ![w] = o]
KeepAllButOp == UNCHANGED <<row, client, lock, tx, env, orphan, faults>>

RequestCreate(w, u, a, want) ==
    /\ row[a].status = "none"
    /\ \A x \in Requests : op[x].a # a
    /\ want \in AllowedRoles(access[u])
    /\ Begin(w, [Idle EXCEPT !.pc = "lock", !.kind = "create", !.a = a, !.u = u, !.want = want])
    /\ KeepAllButOp

\* visibleAccount
Visible(u, a) ==
    /\ row[a].status \notin Absent
    /\ access[u] = "manager" \/ (access[u] = "viewer" /\ row[a].creator = u)

RequestChange(w, u, a, kind, want) ==
    /\ Visible(u, a)
    /\ Begin(w, [Idle EXCEPT !.pc = "lock", !.kind = kind, !.a = a, !.u = u, !.want = want,
                          !.to = "revoked"])
    /\ KeepAllButOp

\* gateways.Delete: the row is read, then the cleanup is called.
RequestCleanup(w) ==
    /\ gateway # "gone"
    /\ Begin(w, [Idle EXCEPT !.pc = "lock", !.kind = "cleanup"])
    /\ KeepAllButOp

\* Mutant: the scans leave out the rows in error.
SweepTakeNotError(a) ==
    /\ row[a].status \notin Absent \cup {"error"}
    /\ Begin(Sweep, [Idle EXCEPT !.pc = "lock", !.a = a])
    /\ KeepAllButOp

\* The due and drift scans between them list every row; a listed row is
\* handed to reconcileLocked.
SweepTake(a) ==
    /\ row[a].status \notin Absent
    /\ Begin(Sweep, [Idle EXCEPT !.pc = "lock", !.a = a])
    /\ KeepAllButOp

-----------------------------------------------------------------------------
(* The critical sections *)

\* Under the lock a refused request, or a pass with nothing to do, just ends.
Refuse(w) == Done(w) /\ NoSave /\ NoFault
KeepWorld == UNCHANGED <<client, env, orphan>>

Proceed(w, pc, r) ==
    IF pc = "done" THEN Done(w) ELSE op' = [op EXCEPT ![w].pc = pc, ![w].acct = r]

\* The first write of a request and its "started" audit: the audit may fail
\* with the write done.
SaveAndAudit(w, pc, r) ==
    /\ Save(w, op[w].a, r)
    /\ \/ Proceed(w, pc, r) /\ NoFault
       \/ Fault /\ Fail(w)

WithinQuota(u) ==
    /\ Cardinality({a \in Active(row) : row[a].creator = u}) < CreatorQuota
    /\ Cardinality(Active(row)) < GatewayQuota

\* Mutant: the gateway is not looked up again under the lock.
CreateBeginStale(w) ==
    LET o == op[w] IN
    /\ Enter(w, "create")
    /\ \/ /\ WithinQuota(o.u)
          /\ SaveAndAudit(w, "provision", [status |-> "provisioning", uuid |-> FALSE,
                                           role |-> o.want, creator |-> o.u])
       \/ Refuse(w)
    /\ KeepWorld

CreateBegin(w) ==
    LET o == op[w] IN
    /\ Enter(w, "create")
    /\ \/ /\ gateway = "present" /\ WithinQuota(o.u)
          /\ SaveAndAudit(w, "provision", [status |-> "provisioning", uuid |-> FALSE,
                                           role |-> o.want, creator |-> o.u])
       \/ Refuse(w)
    /\ KeepWorld

\* lockedAccount: the row is read again under the lock.
RevokeBegin(w) ==
    LET cur == row[op[w].a] IN
    /\ Enter(w, "revoke")
    /\ CASE cur.status \in Absent -> Refuse(w)
         [] cur.status \in Terminal -> Proceed(w, "redisable", cur) /\ NoSave /\ NoFault
         [] OTHER -> SaveAndAudit(w, "disable", [cur EXCEPT !.status = "revoking"])
    /\ KeepWorld

\* Mutant: the status of the account is not checked.
RoleBeginAnyStatus(w) ==
    LET cur == row[op[w].a] IN
    /\ Enter(w, "role")
    /\ \/ /\ cur.status \notin Absent /\ gateway = "present"
          /\ op[w].want \in AllowedRoles(access[cur.creator])
          /\ SaveAndAudit(w, IF cur.role = op[w].want THEN "done" ELSE "project",
                          [cur EXCEPT !.role = op[w].want])
       \/ Refuse(w)
    /\ KeepWorld

\* The role is capped at the CREATOR's tier of now, and saved before Keycloak
\* is asked to apply it.
RoleBegin(w) ==
    LET cur == row[op[w].a] IN
    /\ Enter(w, "role")
    /\ \/ /\ cur.status \in {"ready", "degraded"} /\ gateway = "present"
          /\ op[w].want \in AllowedRoles(access[cur.creator])
          /\ SaveAndAudit(w, IF cur.role = op[w].want THEN "done" ELSE "project",
                          [cur EXCEPT !.role = op[w].want])
       \/ Refuse(w)
    /\ KeepWorld

DeleteBegin(w) ==
    LET cur == row[op[w].a] IN
    /\ Enter(w, "delete")
    /\ IF cur.status \in Absent THEN Refuse(w)
       ELSE SaveAndAudit(w, "purge", [cur EXCEPT !.status = "deleting"])
    /\ KeepWorld

CleanupBegin(w) ==
    /\ Enter(w, "cleanup")
    /\ Goto(w, "wipe") /\ NoSave /\ NoFault /\ KeepWorld

\* reconcileLocked and the decision of reconcileOne, on the row read again
\* under the lock.  A failed lookup of access or gateway decides nothing.
SweepBegin(w) ==
    LET a == op[w].a
        cur == row[a]
        tier == access[cur.creator]
        allowed == IF cur.role \in AllowedRoles(tier) THEN cur.role ELSE "user"
        stop == IF a \in due THEN "expired"
                ELSE IF \/ tier = "none" \/ cur.status = "revoking"
                        \/ gateway = "gone" /\ cur.status # "error"
                     THEN "revoked" ELSE "none"
        go(pc, to, want) ==
            /\ op' = [op EXCEPT ![w].pc = pc, ![w].acct = cur, ![w].to = to, ![w].want = want]
            /\ NoSave
    IN
    /\ Enter(w, "sweep")
    /\ \/ /\ NoFault
          /\ CASE cur.status \in Absent -> Done(w) /\ NoSave
               [] cur.status = "deleting" -> go("purge", "none", cur.role)
               [] cur.status = "provisioning" ->
                    IF a \in aged THEN go("undelivered", "none", cur.role) ELSE Done(w) /\ NoSave
               [] cur.status \in Terminal -> go("redisable", cur.status, cur.role)
               [] OTHER ->
                    \/ stop # "none" /\ go("disable", stop, cur.role)
                    \/ /\ stop = "none" /\ cur.status = "error"
                       /\ go("undelivered", "none", cur.role)
                    \/ /\ stop = "none" /\ cur.status # "error"
                       /\ IF cur.uuid THEN go("project", "ready", allowed)
                          ELSE /\ Done(w) /\ UNCHANGED tx
                               /\ row' = [row EXCEPT ![a].status = "error"]
       \/ Fault /\ Done(w) /\ NoSave
    /\ KeepWorld

-----------------------------------------------------------------------------
(* The steps under the lock *)

KeepEnv == UNCHANGED <<env, lock, orphan>>

\* ProvisionServiceAccount creates the client disabled, gives it its roles,
\* enables it and verifies a token; its rollback is best effort.
Provision(w) ==
    LET a == op[w].a IN
    /\ At(w, "provision")
    /\ \/ /\ With(a, [state |-> "enabled", role |-> op[w].want])
          /\ Goto(w, "recheck") /\ NoFault
       \/ /\ Fault
          /\ \E c \in {NoClient} \cup [state : {"disabled", "enabled"}, role : {op[w].want}] : With(a, c)
          /\ Goto(w, "undelivered")
    /\ NoSave /\ KeepEnv

\* cleanupUndeliveredAccount, its three steps: record the error, delete the
\* client, soft-delete the row.
Undelivered(w) ==
    LET r == [op[w].acct EXCEPT !.status = "error"] IN
    /\ At(w, "undelivered")
    /\ \/ /\ Save(w, op[w].a, r) /\ NoFault
          /\ op' = [op EXCEPT ![w].pc = "purge", ![w].acct = r]
       \/ Fault /\ Fail(w) /\ NoSave
    /\ UNCHANGED client /\ KeepEnv

\* Also the client deletion of Delete and of the sweep's unfinished deletes.
Purge(w) ==
    LET a == op[w].a IN
    /\ At(w, "purge")
    /\ \/ With(a, NoClient) /\ Goto(w, "erase") /\ NoFault
       \/ Fault /\ (\E c \in DeleteOutcomes(a) : With(a, c)) /\ Done(w)
    /\ NoSave /\ KeepEnv

Erase(w) ==
    /\ At(w, "erase")
    /\ \/ Save(w, op[w].a, DeletedRow) /\ Done(w) /\ NoFault
       \/ Fault /\ Fail(w) /\ NoSave
    /\ UNCHANGED client /\ KeepEnv

\* Create asks for the creator's access again after the provisioning.
Recheck(w) ==
    /\ At(w, "recheck")
    /\ \/ op[w].want \in AllowedRoles(access[op[w].u]) /\ Goto(w, "deliver") /\ NoFault
       \/ op[w].want \notin AllowedRoles(access[op[w].u]) /\ Goto(w, "drop") /\ NoFault
       \/ Fault /\ Goto(w, "drop")
    /\ NoSave /\ UNCHANGED client /\ KeepEnv

\* The access changed: the client is deleted and no secret is returned.
Drop(w) ==
    LET a == op[w].a
        acct == [op[w].acct EXCEPT !.uuid = TRUE] IN
    /\ At(w, "drop")
    /\ \/ /\ With(a, NoClient) /\ NoSave /\ NoFault
          /\ op' = [op EXCEPT ![w].pc = "settle", ![w].to = "revoked", ![w].acct = acct]
       \/ /\ Fault /\ (\E c \in DeleteOutcomes(a) : With(a, c))
          /\ Save(w, a, [acct EXCEPT !.status = "error"]) /\ Done(w)
    /\ KeepEnv

\* Ready and returned; or the audit fails, or the last update does, and the
\* client is deleted as far as Keycloak lets it.
Deliver(w) ==
    LET a == op[w].a
        acct(st) == [op[w].acct EXCEPT !.status = st, !.uuid = TRUE] IN
    /\ At(w, "deliver")
    /\ \/ /\ Save(w, a, acct("ready")) /\ NoFault
          /\ End(w, TRUE, FALSE) /\ UNCHANGED client
       \/ /\ Fault /\ Fail(w)
          /\ \E c \in DeleteOutcomes(a) : With(a, c)
          /\ Save(w, a, acct("error")) \/ NoSave
    /\ KeepEnv

\* The wind-down of Revoke and of the sweep.  When it fails, failReconcile
\* degrades a ready row; a revoking one waits for the next pass.
Disable(w) ==
    LET a == op[w].a
        acct == op[w].acct IN
    /\ At(w, "disable")
    /\ \/ /\ With(a, WoundDown(a, acct.uuid)) /\ Goto(w, "settle")
          /\ NoSave /\ NoFault
       \/ /\ Fault /\ (\E c \in WindDownOutcomes(a, acct.uuid) : With(a, c))
          /\ IF acct.status = "ready" THEN Store(w, [acct EXCEPT !.status = "degraded"]) ELSE NoSave
          /\ Done(w)
    /\ KeepEnv

\* A terminal row is wound down again, by a repeated revoke or by the sweep.
Redisable(w) ==
    LET a == op[w].a IN
    /\ At(w, "redisable")
    /\ \/ With(a, WoundDown(a, op[w].acct.uuid)) /\ NoFault
       \/ Fault /\ \E c \in WindDownOutcomes(a, op[w].acct.uuid) : With(a, c)
    /\ Done(w)
    /\ NoSave /\ KeepEnv

\* ReconcileServiceAccount, for UpdateRole and for the sweep's drift check.
Project(w) ==
    LET a == op[w].a
        acct == op[w].acct
        store(st) == Store(w, [acct EXCEPT !.status = st]) IN
    /\ At(w, "project")
    /\ \/ /\ client[a].state # "absent"
          /\ With(a, [state |-> "enabled", role |-> op[w].want])
          /\ op' = [op EXCEPT ![w].pc = "settle", ![w].to = "ready", ![w].acct.role = op[w].want]
          /\ NoSave /\ NoFault
       \/ /\ client[a].state = "absent"
          /\ store("error") /\ Done(w) /\ UNCHANGED client /\ NoFault
       \/ /\ Fault
          /\ \/ client[a].state = "absent" /\ UNCHANGED client
             \/ /\ client[a].state # "absent"
                /\ (\E c \in RepairOutcomes(a, op[w].want) : With(a, c))
          /\ IF w # Sweep \/ acct.status = "ready" THEN store("degraded") ELSE NoSave
          /\ Done(w)
    /\ KeepEnv

\* The last write, after its audit.  When the audit fails the row keeps what
\* was stored before, but for a Create, which records an error.
Settle(w) ==
    LET acct(st) == [op[w].acct EXCEPT !.status = st] IN
    /\ At(w, "settle")
    /\ \/ Store(w, acct(op[w].to)) /\ Done(w) /\ NoFault
       \/ /\ Fault /\ Fail(w)
          /\ IF op[w].kind = "create" THEN Save(w, op[w].a, acct("error")) ELSE NoSave
    /\ UNCHANGED client /\ KeepEnv

-----------------------------------------------------------------------------
(* Gateway deletion: CleanupGateway with the row's deletion as its finalizer, *)
(* then the bindings, in the same request                                     *)

\* DeleteGatewayServiceAccounts finds the clients by their attributes,
\* disables all of them, then deletes them.
Wipe(w) ==
    /\ At(w, "wipe")
    /\ \/ client' = [a \in Accounts |-> NoClient] /\ Goto(w, "eraseAll") /\ NoFault
       \/ Fault /\ Done(w)
          /\ client' \in [Accounts -> Client]
          /\ \A a \in Accounts : client'[a] \in DeleteOutcomes(a)
    /\ NoSave /\ KeepEnv

EraseAll(w) ==
    /\ At(w, "eraseAll")
    /\ \/ \E a \in Accounts :
             /\ Rows[a].status \notin Absent
             /\ Save(w, a, DeletedRow)
             /\ UNCHANGED op /\ NoFault
       \/ /\ \A a \in Accounts : Rows[a].status \in Absent
          /\ Goto(w, "finalize") /\ NoSave /\ NoFault
       \/ Fault /\ Fail(w) /\ NoSave
    /\ UNCHANGED client /\ KeepEnv

\* The row's deletion, then DeleteGatewayBindings: both show with the commit.
Finalize(w) ==
    /\ At(w, "finalize")
    /\ \/ End(w, TRUE, FALSE) /\ NoFault
       \/ Fault /\ Fail(w)
    /\ NoSave /\ UNCHANGED client /\ KeepEnv

NoAccess == [u \in Users |-> "none"]

-----------------------------------------------------------------------------
(* The end of a worker's run *)

\* Unlock and the commit of the request's transaction, then the response.  The
\* deadlines of a row that nobody will look at again are forgotten.
Finish(w) ==
    LET o == op[w]
        commits == InTx(w) /\ ~o.bad
        gone == commits /\ o.kind = "cleanup" /\ o.ok IN
    /\ o.pc = "done"
    /\ lock' = IF lock = w THEN None ELSE lock
    /\ row' = IF commits THEN Rows ELSE row
    /\ tx' = IF lock = w THEN << >> ELSE tx
    /\ gateway' = IF gone THEN "gone" ELSE gateway
    /\ access' = IF gone THEN NoAccess ELSE access
    /\ due' = {a \in due : row'[a].status \notin Absent \cup Terminal}
    /\ aged' = {a \in aged : row'[a].status = "provisioning"}
    /\ op' = [op EXCEPT ![w] = Idle]
    /\ UNCHANGED <<client, orphan, faults>>

\* The server dies, or the request is cut off: the lock and an open
\* transaction go with it, what Keycloak did stays.
Crash(w) ==
    /\ op[w].pc # "idle" /\ Fault
    /\ lock' = IF lock = w THEN None ELSE lock
    /\ tx' = IF lock = w THEN << >> ELSE tx
    /\ op' = [op EXCEPT ![w] = Idle]
    /\ UNCHANGED <<row, client, env, orphan>>

\* The handler panics: its deferred resolve commits what was written so far.
\* Only this leaves a row in "provisioning".
Panic(w) ==
    /\ InTx(w) /\ lock = w /\ op[w].pc # "done" /\ Fault
    /\ Done(w)
    /\ UNCHANGED <<row, client, lock, tx, env, orphan>>

-----------------------------------------------------------------------------
(* cleanupOrphanedClients, without the lock: the look at each listed client's *)
(* row and gateway, and its deletion                                          *)

KeepAllButOrphan == UNCHANGED <<row, op, lock, tx, env>>

\* A client that was listed, without a local row where its gateway is local, or
\* with a row whose gateway is gone.  (Nothing makes a client again, so that the
\* list and the look at the row are one step.)
OrphanCheck(a) ==
    /\ a \notin orphan /\ client[a].state # "absent"
    /\ IF row[a].status \in Absent THEN gateway # "gone" ELSE gateway = "gone"
    /\ orphan' = orphan \cup {a}
    /\ UNCHANGED <<client, faults>> /\ KeepAllButOrphan

OrphanDelete(a) ==
    /\ a \in orphan
    /\ orphan' = orphan \ {a}
    /\ \/ With(a, NoClient) /\ NoFault
       \/ Fault /\ \E c \in DeleteOutcomes(a) : With(a, c)
    /\ KeepAllButOrphan

-----------------------------------------------------------------------------
(* The world around: bindings and time *)

KeepAllButEnv == UNCHANGED <<row, client, op, lock, tx, orphan, faults>>

ChangeAccess(u, tier) ==
    /\ gateway # "gone" /\ access[u] # tier
    /\ access' = [access EXCEPT ![u] = tier]
    /\ UNCHANGED <<gateway, due, aged>> /\ KeepAllButEnv

Expire(a) ==
    /\ row[a].status \in {"ready", "degraded", "revoking", "error"} /\ a \notin due
    /\ due' = due \cup {a}
    /\ UNCHANGED <<access, gateway, aged>> /\ KeepAllButEnv

Age(a) ==
    /\ row[a].status = "provisioning" /\ a \notin aged
    /\ aged' = aged \cup {a}
    /\ UNCHANGED <<access, gateway, due>> /\ KeepAllButEnv

-----------------------------------------------------------------------------
Init ==
    /\ row = [a \in Accounts |-> NoRow]
    /\ client = [a \in Accounts |-> NoClient]
    /\ op = [w \in Workers |-> Idle]
    /\ lock = None /\ tx = << >>
    /\ access \in [Users -> Tiers]
    /\ gateway = "present"
    /\ due = {} /\ aged = {}
    /\ orphan = {}
    /\ faults = 0

Request(w) ==
    \/ \E u \in Users, a \in Accounts, r \in Roles : RequestCreate(w, u, a, r)
    \/ \E u \in Users, a \in Accounts : \E kind \in {"revoke", "delete"} :
          RequestChange(w, u, a, kind, "user")
    \/ \E u \in Users, a \in Accounts, r \in Roles : RequestChange(w, u, a, "role", r)
    \/ RequestCleanup(w)

\* One step of a worker that is under way, towards its end.
Work(w) ==
    \/ CreateBegin(w) \/ RevokeBegin(w) \/ RoleBegin(w) \/ DeleteBegin(w)
    \/ CleanupBegin(w) \/ SweepBegin(w)
    \/ Provision(w) \/ Undelivered(w) \/ Purge(w) \/ Erase(w) \/ Recheck(w)
    \/ Drop(w) \/ Deliver(w) \/ Disable(w) \/ Redisable(w) \/ Project(w) \/ Settle(w)
    \/ Wipe(w) \/ EraseAll(w) \/ Finalize(w) \/ Finish(w)

Orphans(a) == OrphanCheck(a) \/ OrphanDelete(a)

Environment ==
    \/ \E u \in Users, tier \in Tiers : ChangeAccess(u, tier)
    \/ \E a \in Accounts : Expire(a) \/ Age(a)

Next ==
    \/ \E w \in Requests : Request(w)
    \/ \E a \in Accounts : SweepTake(a) \/ Orphans(a)
    \/ \E w \in Workers : Work(w) \/ Crash(w) \/ Panic(w)
    \/ Environment

Spec == Init /\ [][Next]_vars

\* The request that holds the lock runs on, the lock is granted to the sweep in
\* its turn, and the ticker brings every listed row and client round again.
Fairness ==
    /\ WF_vars(\E w \in Requests : Work(w))
    /\ SF_vars(Work(Sweep))
    /\ \A a \in Accounts : SF_vars(SweepTake(a)) /\ WF_vars(Orphans(a)) /\ WF_vars(Age(a))

FairSpec == Spec /\ Fairness

-----------------------------------------------------------------------------
(* Properties *)

TypeOK ==
    /\ row \in [Accounts -> Row]
    /\ client \in [Accounts -> Client]
    /\ op \in [Workers -> Op]
    /\ lock \in Workers \cup {None}
    /\ DOMAIN tx \subseteq Accounts /\ \A a \in DOMAIN tx : tx[a] \in Row
    /\ access \in [Users -> Tiers]
    /\ gateway \in {"present", "gone"}
    /\ due \subseteq Accounts /\ aged \subseteq Accounts
    /\ orphan \subseteq Accounts
    /\ faults \in 0..MaxFaults

\* Once a gateway is gone no client of it is left: cleanup holds the lock
\* until the row is deleted, so a Create cannot provision in between.
GatewayGoneLeavesNoClient ==
    gateway = "gone" => \A a \in Accounts : client[a].state = "absent"

\* The response that carries the secret leaves a credential that works: no
\* lockless cleanup has deleted the client under the running Create.
DeliveredIsUsable ==
    [][\A w \in Requests :
         /\ op[w].pc = "done" /\ op[w].kind = "create" /\ op[w].ok
         /\ op'[w].pc = "idle" /\ faults' = faults
         => client[op[w].a].state = "enabled"]_vars

\* An enabled client that nothing entitles: no live row, past its expiry, or
\* a role above its creator's tier.
Excess(a) ==
    /\ client[a].state = "enabled"
    /\ \/ row[a].status \in Absent \cup Terminal \cup {"revoking", "deleting"}
       \/ a \in due
       \/ client[a].role \notin AllowedRoles(access[row[a].creator])

Transitional(a) == row[a].status \in {"provisioning", "revoking", "deleting", "error"}

\* Neither stays so: the sweep and the orphan cleanup bring every account back
\* to a state in which its row is settled and its client holds no excess.
AccountSettles == \A a \in Accounts : Excess(a) \/ Transitional(a) ~> ~(Excess(a) \/ Transitional(a))

\* What specs/platform/openshell-gateway-service-accounts.spec.md:741 says of a
\* delete that was stored: background reconciliation continues it.
DeletionContinues ==
    \A a \in Accounts : row[a].status = "deleting" ~> row[a].status = "deleted"

\* The abstract credential of an account: withdrawn when its row says so, and
\* from the moment its client is off on the way there.
Ending == {"revoking", "deleting", "error"}
Usable == {a \in Accounts : client[a].state = "enabled"}
Withdrawn == {a \in Accounts : \/ row[a].status \in Terminal \cup {"deleted"}
                               \/ row[a].status \in Ending /\ a \notin Usable}

Credentials == INSTANCE Credential WITH usable <- Usable, withdrawn <- Withdrawn

\* Every run of the service is a run of the abstract credentials: no sweep,
\* retry or role change brings back a credential that was withdrawn.
CredentialSpec == Credentials!Spec

=============================================================================
