# A TLA+ model of HyperShell's gateway control plane

HyperShell keeps a fleet of OpenShell gateways: users ask an API server for a
gateway, and a control plane on each managed cluster provisions it, watches its
health and removes it again. This directory models the parts of the system that
can go wrong in ways a test hardly reaches: the record every party writes, the
queue that drives reconciliation, the pass that turns the record into a running
workload, the service accounts and the role bindings of a gateway with their
realization in Keycloak, and the collector of orphaned namespaces.

1. [The system](#1-the-system)
2. [The modules and the code](#2-the-modules-and-the-code)
3. [What the runs check](#3-what-the-runs-check)
4. [Bounds](#4-bounds)
5. [Fairness](#5-fairness)
6. [What is proved](#6-what-is-proved)
7. [Where the code and its documents disagree](#7-where-the-code-and-its-documents-disagree)
8. [Not modelled](#8-not-modelled)
9. [Plan](#9-plan)

`PROJECT.json` holds the machine-readable side of this document: components,
runs, the map from definitions to source lines, the mutants, the hazards, the
findings and the theorems.

## 1. The system

Two programs carry the core logic, both in Go.

**The API server** (`components/api-server`) stores records in PostgreSQL and
serves them over REST (users, the console, `hsctl`) and gRPC (control planes,
the GitOps import). Each record kind is a plugin with a model, a DAO, a service
and handlers. An update handler reads a row *without a lock*, patches its copy
and passes the copy to the service's `Replace`, which takes an advisory lock on
the row, compares the copy with the row it finds, computes the fields the server
owns and saves the **whole copy**. Every change appends an event, and a watch
stream re-reads the row when it sends the event.

**The control plane** (`components/control-plane`) runs one replica per managed
cluster. It watches the API server, keeps one reconcile queue per record kind,
provisions gateways (namespace, database, Keycloak client, Helm release, route)
and writes what it did and saw back through the same update handlers.

| component | state | operations | talks to | hard behaviours | correct when |
|---|---|---|---|---|---|
| gateway record (`plugins/gateways`) | desired fields, `generation`, `observed_generation`, `phase`, provisioning conditions | Create, Replace (rename, authored fields, rebind, status writes), Delete | every writer, by read-modify-write; the event log | whole-row saves of stale copies; two fields computed under the lock; deletes that take another lock | a converged row describes what runs; no write of one party undoes another's |
| gateway watch and seed (`watcher/watcher.go`) | stream, backoff, idle timer | connect, receive, seed, prune | API server, queue | events lost with the stream; a quiet stream that is dead; lists that race deletes | whatever the stream lost, the seed makes good |
| reconcile queue (`watcher/requeue.go`) | latest payload, force and preserve marks, backoff floors, generations, client-go workqueue | enqueue, enqueueForced, knownKeys, pruneIfNonDelete, processNext, stop | producers, workers, timers | a mutex *and* a workqueue, never held together; retries, marks and compaction racing producers | one handler per key, nothing accepted is lost, deletes stay deletes, retries respect their backoff |
| provisioning pass (`reconciler/reconciler.go`, `gateway/reconciler.go`) | payload, condition list, step | Handle: gate, steps, acknowledgement, readiness, teardown | Kubernetes, Helm, Keycloak, the record | minutes long, on a payload that ages; advances the generation itself; any step may fail | acknowledges exactly what it applied; failures are retried; deletes win |
| health loop (`reconciler/health.go`) | grace timers, ticks | list, observe, write phase and conditions | Kubernetes, the record | decides on a listed row and an observed Deployment while the pass changes both | shows Running or Degraded only for what exists |
| service accounts (`plugins/serviceAccounts`, `serviceaccountkeycloak`) | account rows, Keycloak clients, request transactions | Create, Revoke, UpdateRole, Delete, CleanupGateway, reconciliation sweep, orphan cleanup | Keycloak through the control plane; bindings; the gateway's deletion | advisory lock held over remote calls; orphan cleanup without it; a call that did its work and failed; the reclaim deadline | a withdrawn credential stays withdrawn, a deleted gateway leaves none, every account settles |
| gateway access and role bindings (`plugins/gatewayAccess`, `plugins/roleBindings`) | bindings, access lock | Grant, ChangeRole, Revoke (facade); Create, Delete (generic); teardown | the gateway record; the role watch | two paths count owners and then delete; one of them chooses its lock on a role read before | a gateway keeps an owner; each commit is one change of one user |
| role bridge (`watcher.go WatchRoleBindings`, `role_binding_reconciler.go`) | queue, passes, Keycloak roles | replay, watch, seed, resync, Handle with a confirming read | the bindings; Keycloak | two bindings of one user handled side by side; a read that misses; errors that are not retried | Keycloak roles are what the bindings imply; one bad read wipes nothing |
| namespace collector (`reconciler/namespace.go`, `gateway/namespace.go`) | grace annotation, the lists of a sweep | list, mark, clear, re-check, reap | Kubernetes, the record, passes | stale live set; deletes missed while offline; a late pass that makes the namespace again | never reaps a live gateway's namespace, reaps every dead one's |
| users (`plugins/users`) | profiles | upsert from tokens | PostgreSQL row locks | mutual provisioning of two users | no deadlock |
| agent runtimes, repositories, CI trusts, sandbox counters | own records | the same watch pattern | | | |
| clients, console, SDKs, charts | none of their own | | | | |

`PROJECT.json` lists all 23 components with their sources, and 40 hazards with
the lines at which they bite. The rest of this document is about the first nine
rows, which are what the hazards concentrate on.

## 2. The modules and the code

```
DesiredStateQueue                     what a queue promises
      ^ refines
ReconcileQueue  <- MCReconcileQueue   requeue.go
      ^
ReconcileQueueProofs

GatewayConvergence <- MCGatewayConvergence   record, pass, health loop, watch
      ^
GatewayConvergenceProofs     types, LatchSound
      ^
ConvergencePromisesProofs    the other promises of the record

Credential                            what the lifecycle promises of a credential
      ^ refines
ServiceAccounts <- MCServiceAccounts  serviceAccounts/, serviceaccountkeycloak/
      ^
ServiceAccountsProofs

BindingStore  (BindingStoreProofs)    the bindings as commits
      ^ extends and refines    ^ extends: composed with the commits
GatewayAccess                 RoleBridge
  <- MCGatewayAccess            <- MCRoleBridge
  (GatewayAccessProofs)         (RoleBridgeProofs)

NamespaceGC <- MCNamespaceGC  (NamespaceGCProofs)
```

### ReconcileQueue

`requeue.go`, one action per critical section of `q.mu` and per call on the
workqueue, so that everything another goroutine can do between two of them is
between two steps. The variables are the maps of `reconcileQueue` (`latest`,
`forced`, `preserve`, `notBefore`, `gen`), the state of client-go's workqueue
(`dirty`, `processing`, `waiting`, `shutting`, and the limiter's `requeues`), the
locals of `processNext` per worker, and two history variables that only
properties read: `unhandled` (keys whose newest payload no Handle has settled)
and `fresh` (workers whose snapshot is still the newest).

| code | actions |
|---|---|
| `enqueueWithForce` | `EnqueueDelete`, `EnqueueAccepted`, `EnqueueOutrankedForced` under the mutex, then `ProducerAdd` after it |
| `knownKeys`, `pruneIfNonDelete` | `KnownKeys`, `PruneIfNonDelete` |
| `processNext` | `Get`, `ReadBackoff`, `Redefer`, `Snapshot`, `DropForce`, `ForgetMissing`, `HandleSucceeds` / `HandleFails`, `GiveUp`, `RecordFailure`, `ScheduleRetry`, `Succeed`, `ReadDeferredForce`, `AddDeferredForce`, `Compact`, `Done` |
| `stop` | `Stop`, `Exit` |
| client-go (external) | `Add`, `AddAfter`, `Available`, `Timer` |

A payload is its event type, its version (`updated_at`) and whether it is there
at all; Handle succeeds, fails, fails asking for its payload to be preserved, or
fails for good. Time is abstract: a backoff floor is ahead of the clock or behind
it. An enqueue that changes nothing (an old unforced event, anything non-delete
after a delete) is a stutter. `readyAt` and queue depth only feed metrics.

`DesiredStateQueue` says what producers and handlers may rely on: one wanted
state per key, one handler at a time on the state wanted when it started, work
owed until a handler has finished with the state still wanted, deletes terminal.

### GatewayConvergence

One gateway row and everybody who writes it. A write is two actions: `Send` (the
handler reads the row and patches its copy; the copy is in `call[slot]`) and
`Replace` (lock, checks, save), with any other commit between them. `CallFails`
is a refusal by `Replace` or, with `RpcMayFail`, a lost call; a lost *answer* is
the second disjunct of `Replace`. Slots are the parties that may have a call in
flight: user, author of platform-managed fields, placement rebind, pass, health
loop, console poller, and the last call of a controller that died.

The desired fields are abstracted to what the properties tell apart: whether the
gateway has a cluster, whether it has its identity configuration (the field the
pass itself writes), and everything else as one `image`. `Stored` computes
`generation` and merges the conditions exactly as `Replace` does. `applied` is
the desired state of the installed Helm release, `trusted` whether it mounts the
operator's current CA bundle.

| code | actions |
|---|---|
| `service.go Replace`, `conditions.go`, `field_policy.go` | `Replace`, `CallFails`, over `Stored`, `Accepted`, `FieldPolicyAllows`, `ObservedInRange`, `mergeMonotonicProvisioningConditions` |
| `handler.go Patch`, `grpc_handler.go UpdateGateway`, `placement_rebind.go`, `service.go Delete` | `Rename`, `AuthorWorkload`, `Rebind`, `Delete` |
| `WatchGateways`, `watchLoop`, `startIdleWatchdog`, `seedGateways` | `Deliver`, `Disconnect`, `Reconnect` |
| `reconciler.go Handle` | `StartPass`, `ReconcileExistingClient`, `CheckTrust`, `InvalidConfig`, `WriteInitConditions`, `WriteProvisioning`, `WriteFailed`, `ReturnError`, `WriteHealthyInProgress`, `WriteRouteAddress`, `updateObservedGeneration`, `AwaitReady`, `WriteFinalPhase`, `Teardown`, `PublishConsoleAddress` |
| `gateway/reconciler.go ReconcileGateway` | `BeginStep`, `DoStep`, `CompleteStep`, `FailStep` for each condition in order |
| `destination_ca.go` | `ChangeTrust`, `Deploy` |
| `health.go` | `HealthList`, `HealthWriteAddress`, `HealthObserve` |
| the process | `Restart` |

`Deliver` reads the row when it sends the event, and with `RpcMayFail` that read
may fail: the event is then skipped on a stream that stays up
(`grpc_handler.go:637-660`). The seed is what makes a skipped update good; a
skipped delete is not made good, so `DeletionCompletes` excuses failing calls as
it excuses lost streams.

The queue appears here as far as one key is concerned: the newest payload, a
scheduled flag, a force mark. `ReconcileQueue` is the justification: it never
loses an accepted payload, serializes Handle per key and retries what failed.
Fields that no property reads (status text, route and console address) are not
kept, but the *calls* that write them are, because their whole-row copies are
what endangers the other fields. The convergence gate is the only gate of
`Handle`: `forced` is recorded, and the phase it clears is no longer read.

The steps between two calls of a pass are not subdivided further: a provisioning
step takes effect, fails without effect or, for the deploy step, fails after
its effect.

### ServiceAccounts and Credential

The accounts of one gateway. A *worker* is a request or the background sweep;
everything it does under the gateway's advisory lock is a sequence of steps, one
per call to Keycloak and one per write, so that a crash, a change of a binding,
another request's arrival or the orphan cleanup may come between any two.

| code | actions |
|---|---|
| `Create` | `RequestCreate` (access, before the lock), `CreateBegin`, `Provision`, `Recheck`, then `Deliver` or `Drop` and `Settle`; after a failed provisioning `Undelivered`, `Purge`, `Erase` |
| `Revoke`, `UpdateRole`, `Delete` | `RequestChange` (visibility, before the lock), `RevokeBegin` / `RoleBegin` / `DeleteBegin`, then `Disable`, `Redisable`, `Project`, `Purge`, `Erase`, `Settle` |
| `CleanupGateway` inside `gateways.Delete` | `RequestCleanup`, `CleanupBegin`, `Wipe`, `EraseAll`, `Finalize` |
| `reconcileLocked`, `reconcileOne`, `commitReconciled`, `failReconcile` | `SweepTake` (the two scans), `SweepBegin` (the decision on the row read again), then the same steps, storing by compare-and-set |
| `cleanupOrphanedClients` | `OrphanCheck`, `OrphanDelete`, which take no lock |
| `serviceaccountkeycloak` | the sets of client states a failed call may leave: `DeleteOutcomes`, `WindDownOutcomes`, `RepairOutcomes`, and the failure of `Provision`, whose rollback is best effort |
| transaction, lock, process (external) | `Finish`, `Crash`, `Panic` |

A request's writes show at its commit; the sweep runs without a transaction and
its writes show at once. The transaction is resolved by a deferred call, so that
a handler that panics commits what it has written (`Panic`); nothing else leaves
a row in `provisioning` for the reclaim. Requests and sweep differing in this is
why the orphan cleanup can see a client whose row it cannot see. The framework's
lock and transaction are not under `src/`; how they behave is taken from how the
repository uses and tests them (`gatewayAccess/integration_test.go:496-530`,
`users/dao.go:112-124`, `pkg/extsearch/validate.go:7-13`,
`gateways/service.go:62-64`).

`Credential` is what a caller may rely on: a credential is usable or not as the
service sees fit until it is withdrawn, and withdrawn for ever after. The mapping
reads "withdrawn" off the row's status and, for a row on its way out, off the
client.

### GatewayAccess and BindingStore

`BindingStore` has the bindings of one gateway as the rest of the system sees
them: one commit after another, each a change of one user or the gateway's
deletion, and the event each leaves. `GatewayAccess` is the detailed view: a
request reads (`Request...`), checks under the access lock or without it
(`Check`), and commits (`Write`) or rolls back. `TakesLock` says which requests
lock: the facade always, the generic `Delete` when the role it read *before* was
owner, the generic `Create` never. `stale` is a history variable: a delete went
without the lock on a role that had become owner since.

### RoleBridge

`BindingStore` composed with the consumer of its events. `Deliver` loads the row
when it sends an event, and skips the event when that fails; `Disconnect` loses
what was not sent; `Reconnect` is the server's replay and the watcher's seed;
`SeedList` and `SeedEnqueue` are the resync, whose entries are enqueued after they
were listed. `Handle`, `Confirm` and `Apply` are `RoleBindingReconciler.Handle`:
the list of the user's bindings, which may miss some or all of them, the second
list before the last roles are taken, and one Keycloak call per role. The queue is
`ReconcileQueue`'s, kept as latest payload, terminal delete and one worker per
key; its key is the binding, not the user.

### NamespaceGC

The namespaces of a cluster's gateways: a pass that makes one
(`EnsureManagedNamespace`) on a payload that may be out of date, the delete event
(`HandleDelete`) that may be missed, and the collector, whose sweep lists
gateways, lists namespaces, then visits them one at a time (`Visit`, `Confirm`,
`Reap`). The grace timer is on the namespace, so it survives `Restart`; what the
sweep knows of it is what the list said.

## 3. What the runs check

Passing runs (sizes in distinct states):

| run | shows |
|---|---|
| `gateway_queue` (1.0 M) | Two workers, two producers and the seed on one key of the gateway queue: `Serialized`, `NoLostWork`, `ForceNeverStranded`, `BackoffHasRetry`, `NoHandleInBackoff`, `PreservedNotTransformed`, `DeleteIsTerminal`, `CompactsOnlyHandled`. |
| `gateway_queue_liveness` (22 k) | A queue whose errors may be permanent: `ImplementsDesiredState` (refinement), `RetryIsDurable`, `StopDrains`. |
| `convergence_author` (2.0 M) | A platform-managed field changes under a running pass, and the controller may die with a call in flight that commits after its successor started. `LatchSound`: `observed_generation = generation` means the cluster runs the stored state. `ConvergedIsStable`: stale copies never move a converged row. `NoStrandedGeneration`: no unapplied generation without a pass under way or coming. |
| `convergence_identity` (1.5 M) | The pass advances the generation itself through the identity write-back; steps and teardowns fail; the CA bundle changes; the gateway may be deleted at any point. `LatchSound`, `NoStrandedGeneration`, `DeletionCompletes`. |
| `convergence_rename` (168 k) | A user renames a late-bound gateway while rebind, pass and health loop write it. `RenameTouchesNameOnly`: a rename that would carry anything else back is refused under the lock. |
| `convergence_routed` (186 k) | A routed gateway, unready workloads and routes, the console poller. `ShownWorkloadExists`. |
| `convergence_liveness` (89 k) | Calls, answers and events get lost. `Converges`: the gateway is acknowledged in the end, a lost acknowledgement being made good by a later event or by the seed after the idle watchdog's reconnect. |
| `service_accounts` (311 k) | Two requests, the sweep and the orphan cleanup, one failed call or crash, bindings changing. `GatewayGoneLeavesNoClient`; `CredentialSpec` (refinement): no sweep, retry or role change revives a withdrawn credential; `AccountSettles`: no enabled client stays beyond what its row and its creator's tier allow, and no row stays in transition. |
| `gateway_access` (260 k) | Two requests on the two write paths, three bindings, two users. `OwnerKept`: the last owner goes only through a delete that skipped the lock on a role read too early. `StoreSpec` (refinement): every commit is one of `BindingStore`'s. |
| `role_bridge` (527 k) | Two bindings of one user, stream breaks, restarts, failed calls and loads, lists that miss some or all bindings. `WipeIsProven`: one read that misses bindings does not cost the last roles. `GrantRealized`: once the bindings rest, a user that has one ends with exactly the roles it implies. |
| `namespace_gc` (42 k) | Two gateways, missed deletes, late passes, restarts. `LiveNotReaped`; `OrphanReaped`: the namespace of a deleted gateway goes and stays away. |

The violation run is `revoke_realized`; see section 7.

Every property has a mutant, a plausible bug in a mapped definition that makes
TLC report that property violated under the same configuration. Some show how
little separates the code from the bug: acknowledging the generation *at the
time of the write* instead of the payload's breaks `LatchSound`; checking only
the upper end of the `observed_generation` range lets a stale copy put an old
spec back over a converged row; calling `Done` before the end of `processNext`
breaks both serialization and the refinement; a resync that enqueues only
bindings it has not seen strands a grant; a `Create` that does not look the
gateway up again under the lock leaves a client of a deleted gateway.

Deadlock is checked in `convergence_rename`, `convergence_routed`,
`gateway_access` and `namespace_gc`. It is off where the system may stop: a
stopped queue, a deleted gateway, used-up account or binding ids, an instance in
which everything has been settled. In `convergence_author` a converged gateway may
come to rest with phase Pending: a dead controller's last write puts Pending back
under its successor's pass, a status write of the health loop, a whole-row copy
taken then, commits after the pass's Running, and the health loop leaves Pending
gateways alone (`health.go:363-370`), so the phase stays until the next change.

## 4. Bounds

* **Queue.** One key: no code path relates two keys, and workers are shared only
  through `Get`. Two workers are the fewest that can violate serialization, two
  producers the fewest that can overtake each other between mutex and `Add`. Two
  versions make "older" and "newer" possible; two accepted payloads per prune
  (`MaxGen`) make a payload arrive during an attempt; `RequeueCap = 1`
  distinguishes a first attempt from a retry, the only thing `NumRequeues` is
  asked. The liveness instance has one producer, one version and no prune.
* **Convergence.** One gateway, as no path relates two. Two images let a spec
  change and be changed back by a stale copy. `AuthorUntil = 2` allows one
  authored change and `MaxGeneration = 3` one further generation, which a stale
  copy or the identity write-back creates; a call past the bound is lost, which
  `RpcMayFail` allows anyway. Two conditions (deploy, health) stand for the
  sequence, three when the identity step is on; the steps before the deploy are
  alike. `RestartUntil = 2` lets the controller die any number of times while
  the first generation is being applied; its last call may then commit in any
  later generation. Each run switches on the failures its question is
  about; all of them together exceed what TLC explores in minutes.
* **Service accounts.** One account: the steps of a worker concern one account,
  and only the quotas and the gateway's wipe relate two (the wipe acts on each
  alike; quotas only refuse, which `CreateBegin` may do anyway). Two requests and
  the sweep make every pair of operations meet; three tiers and two roles make a
  creator gain and lose what its account's role needs. One fault: each hazard is
  a race with at most one failure, and the settling after it is what
  `AccountSettles` asks.
* **Access.** Two users and two owner-capable tiers are the fewest that can lose
  both of two owners; the third binding lets one user hold two. Two requests are
  enough for a check to be overtaken.
* **Role bridge.** One user, since no pass reads two; two bindings so that passes
  race. One fault, of any kind: with two, both reads of a pass may miss, which
  the code does not guard against.
* **Namespaces.** Two gateways so that a sweep ages between two visits.
* Workers, producers and keys of `gateway_queue` are symmetric; the liveness runs
  use no symmetry.

The proofs of section 6 have none of these bounds, except that the counters of
the models are capped by (arbitrary) constants.

## 5. Fairness

`ReconcileQueue`: weak fairness for a producer between mutex and `Add`, for each
step of a worker (goroutines are scheduled, and Handle's calls carry contexts and
timeouts), for timers and for time; strong fairness for `Get` of a key, because
the workqueue is FIFO. Producers, prunes and `Stop` are under no obligation.

`GatewayConvergence`: weak fairness for calls (the API server answers or the
call times out), delivery, reconnect (`watchLoop` retries for ever with capped
backoff), the pass, the health ticker, and for cutting a stream on which nothing
is on its way (`startIdleWatchdog`, on by default). Strong fairness, which reads
"a dependency that is tried again and again recovers", for the steps of a pass,
for the watch's read of the row, and for two calls: the identity write-back and
the acknowledgement. Without the
last of these an API server that loses every acknowledgement prevents convergence, and
the code can do nothing about it. Renames, authored changes, rebinds, deletes
and restarts have no fairness.

`ServiceAccounts`: weak fairness for the requests that are under way (their calls
have deadlines); strong fairness for the sweep's steps and for its taking a given
row, because the lock is granted in turn and the scans go round all rows; weak
fairness for the orphan cleanup and for the reclaim deadline. Requests and
binding changes have none. `AccountSettles` needs no fault to stop: faults are
bounded, which reads "Keycloak is not down for ever".

`RoleBridge`: weak fairness for delivery, passes, reconnect and resync. The
resync is on by default; `resyncInterval <= 0` switches it off, and then
`GrantRealized` holds only as far as the queue's own retries go.

`NamespaceGC`: weak fairness for the sweep, for passes to end, for time and for
Kubernetes to finish a terminating namespace. The delete event has none: the
collector must do without it.

## 6. What is proved

TLAPS proves the following for all constants that satisfy the assumptions named
in the modules: any sets of keys, workers and producers, any options, any number
of versions, names, images, steps, any bound on generations, any combination of
failures switched on.

**ReconcileQueueProofs**: `TypeCorrect` (which says more than types: only a
delete may be held without its payload), `HandleSerialized`,
`WorkNeverLost`, `ForceSurvives`, `RetryStateOwned`, `BackoffRespected`,
`PreserveWins`, `DeleteTerminal`, `CompactionSafe` and `Refinement`. All rest on
one inductive invariant in three groups:

* `HoldInv`: who holds a key. A busy worker's key is in `processing`, and the
  workqueue hands out no key in `processing`; this is what makes `Serialized`
  inductive.
* `AttemptInv`: what an attempt knows of its key. A fresh worker's snapshot *is*
  the latest entry with its generation, so that success settles the right
  payload; a delete in a snapshot means a delete in the map.
* `ScheduleInv`: why a key that needs a pass gets one. `NoLostWork`,
  `BackoffHasRetry` and, for queues that retry without limit as every queue with
  forced recovery does (`ForcingRetriesForever`), `ForceNeverStranded`.

`Refinement` shows that every step maps to a step of `DesiredStateQueue` or to a
stutter, under the mapping `want <- latest`, `owed <- unhandled`, `running` and
`current` read off the workers.

**GatewayConvergenceProofs**: `TypeCorrect` and
`LatchIsSound`. `LatchSound` is not inductive, since nothing in it speaks of
what is on its way to the row. The strengthening:

* `SnapshotInv`: `Replace` advances the generation exactly when the desired state
  changes, so a payload of the current generation carries the current desired
  state, whoever holds it; and the pass's payload is at least as new as every
  acknowledgement made or in flight (`Covers`). The second half is why a pass
  cannot install an older state over a newer acknowledged one, also when calls of
  a dead controller are still to come.
* `CallInv`: a copy in flight acknowledges no more than the row does, or
  something *earned*: a generation that, if current, is what runs.
* `Installed => Earned(...)`: from the deploy step to the acknowledgement, the
  payload's generation is earned. The release contains the identity
  configuration the pass derived, which the payload lacks, hence
* `IdentityInv`: past the identity step, a row still at the payload's generation
  had that configuration all along; otherwise the write-back has moved the
  generation on and the acknowledgement will not converge it.
* `DeadInv`: teardown runs on deleted rows only.
* `StepInv`: at which steps the pass can be where; `TypeOK` needs it for
  `pass.step`, and Replace's range check for `observed <= generation`.

`LatchStep` has one case per action; most are `BystanderKeepsLatch` (nothing the
invariant reads changes) or `PassWriteKeepsLatch` / `StatusStep` (a status copy
of the current row enters `call`).

**ConvergencePromisesProofs** proves the other safety properties of the
convergence runs, on top of that invariant, for every setting of the failure
switches. It rests on a few lemmas on what a step can do at all: only `Replace`
and `Delete` write the row (`OnlyReplaceWrites`), only a deploy step installs
(`OnlyDeployInstalls`), and every copy that enters `call` is a fresh patch of the
row of that moment or the last call of a dead controller (`CallsFresh`).

* `RenameIsHarmless`: the field policy compares the copy with the row under the
  lock, and the copy differs in the name alone.
* `ConvergedStaysConverged`, from `StableInv`: the controller is handed placed
  gateways only, and what is installed has its identity (`PlacedInv`); a copy of
  the row's generation is its handler's patch of the row's desired state
  (`CopyInv`); and whoever acknowledges the row's generation acknowledges a
  placed row (`AckInv`). A copy that `Replace` accepts on a converged row has to
  acknowledge its generation, is therefore of that generation, and differs by its
  own patch alone.
* `ShownGatewayExists`, from `ShownInv`: not only the row's phase but every phase
  on its way to it needs the workload, and past the deploy step it is there.
* `NoGenerationStranded`, from `WorkInv`: with no event on its way the queue holds
  the row (`SyncInv`); a running pass has the queue's payload unless the queue
  holds a newer one (`SamePayload`); and when nothing else is left, that pass is
  before its acknowledgement or has it in flight, acceptable (`ApplyingInv`).
* `DeletedIsTornDown`, from `DeletionInv`: the deletion of a placed gateway is an
  event or what the queue holds, and once the queue has handed it out, the pass
  tears down, is going to retry, or is done with nothing installed. It assumes
  that no event is skipped for a failed read. The proof also
  needs a cluster on the deleted row: TLC's counterexample for a row without one
  is `DeletionUnplaced.cfg` of section 7.

**ServiceAccountsProofs**: `ServiceAccountsTyped`, `GoneGatewayIsClean` and the
refinement `WithdrawalIsFinal`, for any number of accounts, members, concurrent
requests, quotas and faults, where the run has one account. The invariant has two
layers:

* `WorkInv`: the lock holder is the one worker between "lock" and "idle"
  (`LockInv`), which leaves one transaction and one worker to look at in every
  step; and at which stages each kind of work can be, with which target status
  (`OpInv`).
* `AccountInv`: what the lock holder knows at its stage (`StageInv`: a client
  about to be provisioned has a provisioning row and a gateway that is present, a
  repaired one a live row, an account about to be settled as terminal or erased a
  client that is off, a cleanup past its wipe no client at all); that an account
  under creation belongs to one request and has no row yet (`NewInv`); what an
  open transaction may have written (`TxInv`); that a final row's client is off
  (`FinalInv`); and the property itself (`GoneInv`).

Both are proved by way of `Effect`: each of the 21 steps under the lock only takes
clients away (`Dimmed`) or lights the one of a live row (`Lights`), and writes at
most one row, which is final only with its client off and never brings back a row
on its way out (`Proper`). Everything else, arrivals, crashes, commits, the orphan
cleanup and the environment, is one lemma each. `WithdrawalIsFinal` then needs
only that a row in `Over` stays in `Over` with its client off once off
(`OverStays`).

**NamespaceGCProofs**: `GCTypeCorrect`, and `GCNeverReapsLive` for any number of
gateways, faults and restarts. The invariant adds to `LiveNotReaped` that a
gateway without a record yet has no namespace and no pass, and that a sweep about
to reap holds a gateway that is gone, which it stays.

**BindingStoreProofs** has the lemmas on commits that the next two share.

**GatewayAccessProofs**: `AccessTypeCorrect`; `AccessImplementsStore`, which is
what allows `RoleBridge` to be composed with `BindingStore` instead of with the
requests; and `LastOwnerKept` for any users, tiers, bindings and requests. The
invariant: a request past its check that took the lock still holds it, and, as
long as no stale delete happened, what it is about to commit leaves an owner.
That survives the commits of others because those without the lock only add
bindings or delete ones that are not owner's.

**RoleBridgeProofs**: `BridgeTypeCorrect`, and `OneMissWipesNothing`
(`WipeIsProven` when at most one fault happens, whichever bindings a list misses;
with two, both reads may miss).
The invariant `WipeInv` adds whose pass it is (`Belongs`), that unused bindings
have none (`Unowned`), and that a pass waiting for its confirmation with live
bindings in `seen` has used up the fault.

**Model-checked only.** The properties left to TLC are the liveness properties
`RetryIsDurable`, `StopDrains`, `Converges`, `AccountSettles`, `GrantRealized` and
`OrphanReaped`: liveness under fairness is out of the prover's reach. Every type
invariant, safety invariant, action property and refinement that a passing run
checks is a theorem. Two assumptions carry the proofs: the constants are what the
`ASSUME`s of the modules say, and the counters are capped by constants
(`MaxGeneration >= 1`: there is a first generation).

## 7. Where the code and its documents disagree

Each item has a configuration that reproduces it with TLC. The first is a run of
`PROJECT.json`, with its quotation; the others are kept as configurations of
their own (`tlc -config <name>.cfg <module>`), each of which ends in a
counterexample.

* `RevokeRealized.cfg` (`MCRoleBridge`, run `revoke_realized`): a delete whose
  pass fails to list the bindings, or whose confirming read fails or disagrees,
  is dropped for good: `isRoleBindingRetryable` (`watcher.go:928-975`) answers
  false, and the resync lists survivors only. The user keeps the roles of a
  binding that is gone. `specs/platform/gateway-access-management.spec.md:151`
  asks for "a retryable error so the event is requeued".
* `OwnerAlwaysKept.cfg` (`MCGatewayAccess`): the generic `Delete` chooses its lock
  on the role it read first (`roleBindings/service.go:262-274`). A binding raised
  to owner in between is deleted without lock and guard, and the gateway is left
  without an owner; `OwnerKept` excuses this delete. The comment at `roleBindings/service.go:517-521` says the two
  paths "serialize in the SAME domain and cannot race".
* `DeletionContinues.cfg` (`MCServiceAccounts`): a delete that was stored as
  `deleting` (Keycloak failed) is turned into `revoked` by a Revoke that follows,
  since `Revoke` checks for terminal statuses only (`service.go:394`). The row is
  never deleted. `openshell-gateway-service-accounts.spec.md:741`: "Background
  reconciliation SHALL continue the operation."
* `DeliveredIsUsable.cfg` (`MCServiceAccounts`): the orphan cleanup takes no lock
  and does not see the uncommitted row of a running `Create`; it deletes the
  client, and the request then returns a secret that does not work. The row ends
  in `error` and is removed (`AccountSettles`).
* `ForceMark.cfg` (`MCReconcileQueue`): `processNext`'s missing-payload path
  clears the force mark under a second lock; an `enqueueForced` between the two
  loses its mark (`requeue.go:565-569`), whereas the comment on the field
  (`requeue.go:182-183`) says it is cleared "when a transformed handler attempt
  consumes it (or the key is pruned)". The payload is still handled, without the
  recovery transform. The window is narrow.
* `StatusWrite.cfg` (`MCGatewayConvergence`): a status write that read the row
  before an authored change and commits after it puts the old desired state back,
  and `Replace` advances the generation for it.
  `specs/platform/data-model.spec.md:448-450`: "It SHALL NOT increment
  `generation` for changes to control-plane-owned observed fields". Only an
  acknowledgement in between protects the row (`ConvergedIsStable`).
* `DeployedOfOlder.cfg` (`MCGatewayConvergence`): progress reports carry no
  generation (`reconciler.go:716`), so a pass of generation 1 marks the deploy
  step of generation 2 Complete, and the monotonic merge keeps it so while the
  step is being carried out (`gateway-provisioning-progress.spec.md:165-166`).
* `DeletionUnplaced.cfg` (`MCGatewayConvergence`, invariant `TornDownWherever`): a
  platform-managed field is changed on a copy read before the rebind placed the
  gateway; the whole-row save takes the cluster off again, after a pass has
  installed the gateway. A delete is then sent to no cluster, because
  `WatchGateways` filters on the deleted row's cluster
  (`grpc_handler.go:637-648`), and no teardown runs
  (`openshell-gateway.spec.md:278-284`). The namespace collector is what removes
  the namespace. `DeletionCompletes` is therefore stated for placed rows.
* `StuckFailed.cfg` (`MCGatewayConvergence`): a pass on an already converged
  gateway (a changed CA bundle is enough) that fails leaves phase Failed. Its
  retry meets the convergence gate and the health loop leaves Failed gateways
  alone (`health.go:363-369`), so a ready gateway is shown Failed until its spec
  changes (`openshell-gateway-health.spec.md:117-119`).

Others met while reading and not turned into runs:

* `specs/platform/data-model.spec.md:440-446` counts a rename among the changes
  that advance `generation`; `desiredStateChanged` (`service.go:315-320`)
  excludes the name.
* `service.go:250-252` says the merge keeps a Running gateway from ever
  reporting an unfinished step. A pass for a changed CA bundle on a Running
  gateway reports `Failed` and then `InProgress` steps, which the merge lets
  through.
* `watcher.go:512-519` says a forced seed runs past the gate; the gate is now the
  convergence gate (`reconciler.go:530`), which the transform does not open.
* `watcher.go:460-463` calls a tombstone inert. A replayed delete still replaces
  it and runs the teardown again (`requeue.go:350-359`), by design.

## 8. Not modelled

The map covers about 5,700 lines, some 4% of the implementation's 147,000. By far
the most of the rest is not a subject for a state machine: about 60,000 lines are
generated (OpenAPI and protobuf code, SDKs), a further large part is the web
console, the CLI, presenters, and the construction of Kubernetes, Helm and
Keycloak requests. What is left with state and concurrency of its own is listed
here; the reasons per component are in `PROJECT.json`.

* **The single resources of a pass or a teardown.** A step is one action;
  teardown is one action that may fail after any of its effects. After a delete
  event missed while offline, `NamespaceGC` shows that the namespace goes; nothing
  in the code collects the gateway's database and Keycloak client.
* **Two controllers at once.** `replicas: 1` is a documented precondition.
  `Restart` has the predecessor's last call outlive it, not a second running pass.
* **Delete racing Replace.** `Delete` does not take Replace's lock. Whether a save
  after the delete revives the row is decided by the ORM; the model refuses it
  (`Accepted` requires a live row).
* **A lost advisory lock whose holder goes on.** A worker of the service accounts
  holds its lock until it commits or dies; what the compare-and-set of
  `commitReconciled` adds to the lock is therefore not exercised.
* **The removal of a route by the health loop** (`health.go:680-722`), which clears
  route and console address. Its calls carry copies of the row like the one of
  `HealthWriteAddress`, which stands for the address writes of the loop.
* **The retry of a user name** that the role bridge cannot resolve yet; what it
  retries in the model is a Keycloak call.
* **Late effects in Keycloak.** A call that failed has taken effect by then or
  never does.
* **Service accounts:** names and their uniqueness, descriptions, the contents of
  audit records, token verification; expiry is a Boolean.
* **Bindings without a gateway:** global and CI-federation roles and
  `SyncJWTRoles`; cluster scoping and the resolution of role and user names in
  the role bridge.
* **Users:** the profile-write lock avoids a deadlock of PostgreSQL row locks,
  which are not in this code.
* **Grace timers of the health loop.** Their outcome is a nondeterministic choice.
* **`active_sandbox_count` and `gateway_version`**, which have column updates of
  their own and do not go through Replace.
* **Pagination of the seed** (`listGatewaysStable`): the seed sees the row as it
  is.
* **Agent runtimes, repositories, CI trusts and providers, sandbox events, the
  delivery dispatcher's job store:** further state machines that could be
  modelled in the same way.

## 9. Plan

Done: `ReconcileQueue` with `DesiredStateQueue`, `GatewayConvergence`,
`ServiceAccounts` with `Credential`, `GatewayAccess` and `RoleBridge` over
`BindingStore`, `NamespaceGC`; proofs of all their safety properties and
refinements (section 6). Left, in this order:

1. Composition: the one-key queue inside `GatewayConvergence` and the keyed one
   inside `RoleBridge` shown to be runs of `DesiredStateQueue`; delete racing
   Replace with both outcomes of the save.
2. Quotas of service accounts, which need an instance with two accounts. What the
   code promises is that a Create commits only within the quotas as counted under
   the lock; the active accounts may still exceed them, since Delete turns a
   revoked or expired row into `deleting`, which counts again until Keycloak has
   answered.
3. Agent runtimes as a further client of the queue, the repository writer's
   credential hand-over, the dispatcher's job store.
