------------------------- MODULE GatewayConvergence -------------------------
(***************************************************************************)
(* One gateway row and the parties that write it: the API server's         *)
(* Replace (plugins/gateways/service.go), a user's rename, the             *)
(* placement rebind sweep, the control plane's author of platform-managed  *)
(* fields, the provisioning pass (reconciler.go Handle) and the health     *)
(* loop (health.go).                                                       *)
(*                                                                         *)
(* Every update is a read-modify-write.  The handler reads the row with no *)
(* lock, patches its copy, and calls Replace, which takes the row's        *)
(* advisory lock, compares the copy with the row it finds there, and then  *)
(* saves the WHOLE copy.  So a call has two steps here, Send and Replace,  *)
(* and any other call may commit between them.                             *)
(***************************************************************************)
EXTENDS Integers

CONSTANTS
  Names,          \* names a user may give the gateway
  Images,         \* values of the platform-managed workload fields
  NumSteps,       \* provisioning conditions, in order
  Identity,       \* the step that provisions the identity client, 0 for none
  Routed,         \* the gateway has a public route and a console
  LateBound,      \* the gateway is created before a cluster matches it
  AuthorUntil,    \* bound: no new workload field once generation reaches it
  MaxGeneration,  \* bound: no write takes generation past this
  RestartUntil,   \* bound: no restart once generation reaches it
  RpcMayFail,     \* a call, or its answer, may be lost
  StreamMayBreak, \* the watch stream may break
  StepsMayFail,   \* a provisioning step, or a teardown, may fail
  TrustDrift,     \* the operator may change the additional CA bundle
  MayBeUnready,   \* the workload may be observed not ready
  MayDelete       \* the gateway may be deleted

Step == 1 .. NumSteps
Deployed == NumSteps - 1
Healthy == NumSteps

ASSUME StepsAssumption ==
  /\ NumSteps \in Nat /\ NumSteps >= 2
  /\ Identity \in 0 .. (NumSteps - 2)

ASSUME BoundsAssumption ==
  /\ {AuthorUntil, MaxGeneration, RestartUntil} \subseteq Nat
  /\ MaxGeneration >= 1
  /\ Names # {} /\ Images # {}

ASSUME SwitchesAssumption ==
  {Routed, LateBound, RpcMayFail, StreamMayBreak, StepsMayFail, TrustDrift,
   MayBeUnready, MayDelete} \subseteq BOOLEAN

Phase == {"Pending", "Provisioning", "Running", "Degraded", "Failed"}
Status == {"absent", "Pending", "InProgress", "Complete", "Failed"}
Conditions == [Step -> Status]

\* The desired-state fields: the assigned cluster, the identity configuration
\* the controller writes back, and everything else as one image.
Desired == [placed : BOOLEAN, oidc : BOOLEAN, image : Images]

Row ==
  [live : BOOLEAN, name : Names, spec : Desired, phase : Phase,
   conditions : Conditions, generation : Nat, observed : Nat]

FirstImage == CHOOSE i \in Images : TRUE
NoSpec == [placed |-> FALSE, oidc |-> FALSE, image |-> FirstImage]
NoConditions == [s \in Step |-> "absent"]

\* Generations start at 1, so generation 0 marks "no row".
NoRow ==
  [live |-> FALSE, name |-> CHOOSE n \in Names : TRUE, spec |-> NoSpec,
   phase |-> "Pending", conditions |-> NoConditions,
   generation |-> 0, observed |-> 0]

\* What the watch hands the controller: the fields of the row Handle reads.
Payload == [live : BOOLEAN, spec : Desired, generation : Nat, observed : Nat]
PayloadOf(gw) ==
  [live |-> gw.live, spec |-> gw.spec, generation |-> gw.generation,
   observed |-> gw.observed]
NoPayload == PayloadOf(NoRow)

\* Who may have a call in flight; "late" is a call a dead controller sent.
Slot == {"user", "author", "rebind", "pass", "health", "console", "late"}

VARIABLES
  row,       \* the stored row
  applied,   \* desired state the cluster runs; applied.placed = FALSE: nothing
  trusted,   \* the workload mounts the operator's current CA bundle
  call,      \* call[s]: the patched copy of slot s in flight, or NoRow
  refused,   \* the pass's last call came back with an error
  online,    \* the watch stream is up
  notify,    \* an event of this gateway is on its way to the controller
  latest,    \* the newest payload the reconcile queue holds, or none
  queued,    \* the queue will hand latest to a worker
  forced,    \* the queue holds a forced mark for the key
  poller,    \* a finished pass has left the console address poller behind
  pass,      \* the provisioning pass: where it is and what it works with
  health     \* the health loop's current tick

vars == <<row, applied, trusted, call, refused, online, notify, latest, queued,
          forced, poller, pass, health>>

cluster == <<applied, trusted>>
controllerVars == <<online, notify, latest, queued, forced, poller>>
----------------------------------------------------------------------------
(***************************************************************************)
(* Replace: what the API server makes of an incoming copy.                 *)
(***************************************************************************)

\* conditionRank; a condition the document lacks ranks below all.
conditionRank(status) ==
  CASE status = "absent" -> -1
    [] status = "InProgress" -> 1
    [] status = "Complete" -> 2
    [] OTHER -> 0

pickProvisioningCondition(current, incoming) ==
  IF \/ incoming = "Failed"
     \/ current = "Failed" /\ incoming # "absent"
     \/ conditionRank(incoming) >= conditionRank(current)
  THEN incoming
  ELSE current

mergeMonotonicProvisioningConditions(current, incoming) ==
  [s \in Step |-> pickProvisioningCondition(current[s], incoming[s])]

desiredStateChanged(current, next) == current.spec # next.spec

NewGeneration(current, next) ==
  IF desiredStateChanged(current, next)
  THEN current.generation + 1
  ELSE current.generation

\* Mutant: the policy is not evaluated on the copy.
FieldPolicyAllowsAny(s, current, next) == TRUE

\* enforceGatewayFieldPolicyUpdate: a user may change the name only.
FieldPolicyAllows(s, current, next) ==
  s = "user" => [next EXCEPT !.name = current.name,
                             !.generation = current.generation] = current

\* Mutant: only the upper end of the range is checked.
ObservedNotAhead(current, next) ==
  next.observed <= NewGeneration(current, next)

ObservedInRange(current, next) ==
  \/ next.observed = current.observed
  \/ /\ next.observed >= current.observed
     /\ next.observed <= NewGeneration(current, next)

Accepted(s, current, next) ==
  /\ current.live
  /\ FieldPolicyAllows(s, current, next)
  /\ ObservedInRange(current, next)

\* The row Replace saves: the caller's whole copy, with the two fields the
\* API server owns computed from the row under the lock.
Stored(current, next) ==
  [next EXCEPT
     !.generation = NewGeneration(current, next),
     !.conditions = IF desiredStateChanged(current, next)
                    THEN NoConditions
                    ELSE mergeMonotonicProvisioningConditions(
                           current.conditions, next.conditions)]

\* UpdateGateway / Patch up to the call of Replace: read the row, patch the
\* copy.  A deleted gateway is NotFound.
Send(s, patched) ==
  /\ call[s] = NoRow
  /\ \/ /\ row.live
        /\ call' = [call EXCEPT ![s] = patched]
        /\ refused' = (refused /\ s # "pass")
     \/ /\ ~row.live
        /\ call' = call
        /\ refused' = (refused \/ s = "pass")

Replace(s) ==
  /\ call[s] # NoRow
  /\ Accepted(s, row, call[s])
  /\ NewGeneration(row, call[s]) <= MaxGeneration
  /\ row' = Stored(row, call[s])
  /\ notify' = (notify \/ online)
  /\ \/ refused' = refused
     \/ RpcMayFail /\ refused' = (refused \/ s = "pass")
  /\ call' = [call EXCEPT ![s] = NoRow]
  /\ UNCHANGED <<cluster, online, latest, queued, forced, poller, pass,
                 health>>

\* Refused by Replace, or lost on the way; at the bound on generation a call
\* that would pass it is lost.
CallFails(s) ==
  /\ call[s] # NoRow
  /\ \/ RpcMayFail \/ ~Accepted(s, row, call[s])
     \/ NewGeneration(row, call[s]) > MaxGeneration
  /\ refused' = (refused \/ s = "pass")
  /\ call' = [call EXCEPT ![s] = NoRow]
  /\ UNCHANGED <<row, cluster, pass, health>> /\ UNCHANGED controllerVars

----------------------------------------------------------------------------
(***************************************************************************)
(* The writers outside the controller.                                     *)
(***************************************************************************)

\* REST Patch: name is the only field of the request.
Rename ==
  /\ \E n \in Names \ {row.name} : Send("user", [row EXCEPT !.name = n])
  /\ UNCHANGED <<row, cluster, pass, health>> /\ UNCHANGED controllerVars

\* gRPC UpdateGateway by a control-plane caller with a workload field set.
AuthorWorkload ==
  /\ row.generation < AuthorUntil
  /\ \E i \in Images \ {row.spec.image} :
       Send("author", [row EXCEPT !.spec.image = i])
  /\ UNCHANGED <<row, cluster, pass, health>> /\ UNCHANGED controllerVars

\* RebindUnplacedGateways: list the unplaced rows, assign a cluster, Replace.
Rebind ==
  /\ row.live /\ ~row.spec.placed
  /\ Send("rebind", [row EXCEPT !.spec.placed = TRUE])
  /\ UNCHANGED <<row, cluster, pass, health>> /\ UNCHANGED controllerVars

\* The operator edits the bundle; nothing tells the controller.
ChangeTrust ==
  /\ TrustDrift /\ applied # NoSpec
  /\ trusted' = FALSE
  /\ UNCHANGED <<row, applied, call, refused, pass, health>>
  /\ UNCHANGED controllerVars

\* Delete soft-deletes the row; it does not take the row's Replace lock.
Delete ==
  /\ MayDelete /\ row.live
  /\ row' = [row EXCEPT !.live = FALSE]
  /\ notify' = (notify \/ online)
  /\ UNCHANGED <<cluster, call, refused, online, latest, queued, forced,
                 poller, pass, health>>
----------------------------------------------------------------------------
(***************************************************************************)
(* The watch and the queue, as far as one key is concerned.  ReconcileQueue *)
(* models the queue itself.                                                *)
(***************************************************************************)

\* Mutant: an event that finds a pass under way is dropped.
DeliverUnlessBusy ==
  /\ online /\ notify
  /\ notify' = FALSE
  /\ IF row.spec.placed /\ pass.pc = "idle"
     THEN latest' = PayloadOf(row) /\ queued' = TRUE
     ELSE UNCHANGED <<latest, queued>>
  /\ UNCHANGED <<row, cluster, call, refused, online, forced, poller, pass,
                 health>>

\* WatchGateways re-reads the row when it sends the event, and skips a
\* gateway whose cluster is not the subscriber's.  When the read fails the
\* event is dropped.
Deliver ==
  /\ online /\ notify
  /\ notify' = FALSE
  /\ \/ row.spec.placed /\ latest' = PayloadOf(row) /\ queued' = TRUE
     \/ (~row.spec.placed \/ RpcMayFail) /\ UNCHANGED <<latest, queued>>
  /\ UNCHANGED <<row, cluster, call, refused, online, forced, poller, pass,
                 health>>

\* The stream breaks, or the idle watchdog cancels it after a quiet spell.
Disconnect ==
  /\ StreamMayBreak /\ online
  /\ online' = FALSE /\ notify' = FALSE
  /\ UNCHANGED <<row, cluster, call, refused, latest, queued, forced,
                 poller, pass, health>>

forceSeedRecovery(gw) == gw.phase \in {"Provisioning", "Degraded"}

\* Mutant: a reconnect resumes the stream without a seed.
ReconnectUnseeded ==
  /\ ~online /\ online' = TRUE
  /\ UNCHANGED <<row, cluster, call, refused, notify, latest, queued, forced,
                 poller, pass, health>>

\* watchLoop reconnects and seedGateways enqueues the row it lists; a key
\* whose row is gone is pruned unless a delete is what the queue holds.
Reconnect ==
  /\ ~online /\ online' = TRUE
  /\ CASE row.live /\ row.spec.placed ->
            /\ latest' = PayloadOf(row) /\ queued' = TRUE
            /\ forced' = (forced \/ forceSeedRecovery(row))
       [] ~row.live /\ latest.live ->
            latest' = NoPayload /\ queued' = FALSE /\ forced' = FALSE
       [] OTHER -> UNCHANGED <<latest, queued, forced>>
  /\ UNCHANGED <<row, cluster, call, refused, notify, poller, pass, health>>
----------------------------------------------------------------------------
(***************************************************************************)
(* The provisioning pass.  Its calls are made one after another, so every  *)
(* step but the first waits for the call in flight.                        *)
(***************************************************************************)

PassPc == {"idle", "init", "provisioning", "begin", "work", "written",
           "complete", "failed", "error", "healthy", "route", "ack", "wait",
           "park", "degraded", "running", "gate", "trust", "marked",
           "teardown"}

IdlePass ==
  [pc |-> "idle", step |-> 1, payload |-> NoPayload, conds |-> NoConditions]

At(pc) == pass.pc = pc /\ call["pass"] = NoRow

Goto(pc) == pass' = [pass EXCEPT !.pc = pc]

InitConditions == [s \in Step |-> "Pending"]

\* ReportProgress: SetCondition on the pass's own list, then write the list.
Report(status, pc) ==
  LET cs == [pass.conds EXCEPT ![pass.step] = status]
  IN  /\ Send("pass", [row EXCEPT !.conditions = cs])
      /\ pass' = [pass EXCEPT !.conds = cs, !.pc = pc]

\* updateGatewayPhase and updateGatewayHealth: errors are logged and dropped.
WritePhase(phase) == Send("pass", [row EXCEPT !.phase = phase])

\* What the Helm release is given: the payload's desired state, with the
\* identity configuration the pass has just derived.
Effective(spec) == [spec EXCEPT !.oidc = (Identity > 0) \/ @]

\* deployGatewayViaHelm: the release mounts the CA bundle of this moment.
Deploy == applied' = Effective(pass.payload.spec) /\ trusted' = TRUE

Converged(gw) == gw.observed = gw.generation

\* processNext hands the payload to Handle, up to the convergence gate.
StartPass ==
  /\ queued /\ pass.pc = "idle" /\ call["pass"] = NoRow /\ latest # NoPayload
  /\ queued' = FALSE /\ forced' = FALSE /\ refused' = FALSE
  /\ pass' = [IdlePass EXCEPT
                !.payload = latest,
                !.pc = CASE ~latest.live -> "teardown"
                         [] latest.live /\ ~Converged(latest) -> "init"
                         [] OTHER -> IF Identity > 0 THEN "gate" ELSE "trust"]
  /\ UNCHANGED <<row, cluster, call, online, notify, latest, poller, health>>

\* reconcileExistingGatewayKeycloakClient, for a converged gateway.  The
\* status text it may write is not modelled.  A missing client or a Keycloak
\* error is retried, an invalid identity is marked and left.
ReconcileExistingClient ==
  /\ At("gate")
  /\ \/ /\ Send("pass", row)
        /\ \/ Goto("trust")
           \/ StepsMayFail /\ (Goto("error") \/ Goto("marked"))
     \/ /\ UNCHANGED <<call, refused>>
        /\ Goto("trust") \/ (StepsMayFail /\ Goto("error"))
  /\ UNCHANGED <<row, cluster, health>> /\ UNCHANGED controllerVars

\* DestinationCATrustNeedsUpdate decides whether a converged gateway is
\* provisioned again; a status write that failed is retried.
CheckTrust ==
  /\ \/ At("trust") /\ ~refused /\ ~trusted /\ Goto("init")
     \/ At("trust") /\ ~refused /\ trusted /\ pass' = IdlePass
     \/ At("trust") /\ StepsMayFail /\ Goto("error")
     \/ At("trust") /\ refused /\ Goto("error")
     \/ At("marked") /\ ~refused /\ pass' = IdlePass
     \/ At("marked") /\ refused /\ Goto("error")
  /\ UNCHANGED <<row, cluster, call, refused, health>>
  /\ UNCHANGED controllerVars

\* An image, identity or route that does not parse ends the pass before it
\* has written anything.
InvalidConfig ==
  /\ StepsMayFail
  /\ At("init")
  /\ Goto("error")
  /\ UNCHANGED <<row, cluster, call, refused, health>>
  /\ UNCHANGED controllerVars

WriteInitConditions ==
  /\ At("init")
  /\ Send("pass", [row EXCEPT !.conditions = InitConditions])
  /\ pass' = [pass EXCEPT !.conds = InitConditions, !.pc = "provisioning"]
  /\ UNCHANGED <<row, cluster, health>> /\ UNCHANGED controllerVars

WriteProvisioning ==
  /\ At("provisioning")
  /\ WritePhase("Provisioning")
  /\ Goto("begin")
  /\ UNCHANGED <<row, cluster, health>> /\ UNCHANGED controllerVars

BeginStep ==
  /\ At("begin")
  /\ Report("InProgress", "work")
  /\ UNCHANGED <<row, cluster, health>> /\ UNCHANGED controllerVars

\* A step of ReconcileGateway succeeds.  The identity step ends with
\* UpdateOIDC; the deploy step installs the release.
DoStep ==
  /\ At("work")
  /\ \/ /\ pass.step = Identity
        /\ Send("pass", [row EXCEPT !.spec.oidc = TRUE])
        /\ Goto("written")
        /\ UNCHANGED cluster
     \/ /\ pass.step # Identity
        /\ IF pass.step = Deployed THEN Deploy ELSE UNCHANGED cluster
        /\ Goto("complete")
        /\ UNCHANGED <<call, refused>>
  /\ UNCHANGED <<row, health>> /\ UNCHANGED controllerVars

\* CompleteStep when the step numbered last is the last of the pass.
CompleteStepOf(last) ==
  /\ \/ At("complete")
     \/ At("written") /\ ~refused
  /\ LET cs == [pass.conds EXCEPT ![pass.step] = "Complete"]
     IN  /\ Send("pass", [row EXCEPT !.conditions = cs])
         /\ pass' = [pass EXCEPT
                       !.conds = cs, !.step = @ + 1,
                       !.pc = IF pass.step = last THEN "healthy" ELSE "begin"]
  /\ UNCHANGED <<row, cluster, health>> /\ UNCHANGED controllerVars

\* Mutants: off by one at the end of the steps.
CompleteStepTooFar == CompleteStepOf(Healthy)
CompleteStepTooShort == CompleteStepOf(Deployed - 1)

CompleteStep == CompleteStepOf(Deployed)

\* A step fails; a failed deploy may have installed the release or not.
FailStep ==
  /\ \/ /\ StepsMayFail /\ At("work")
        /\ UNCHANGED cluster \/ (pass.step = Deployed /\ Deploy)
     \/ /\ At("written") /\ refused
        /\ UNCHANGED cluster
  /\ Report("Failed", "failed")
  /\ UNCHANGED <<row, health>> /\ UNCHANGED controllerVars

WriteFailed ==
  /\ At("failed")
  /\ WritePhase("Failed")
  /\ Goto("error")
  /\ UNCHANGED <<row, cluster, health>> /\ UNCHANGED controllerVars

\* Mutant: the error is logged and the key is not requeued.
ReturnErrorOnce ==
  /\ At("error")
  /\ pass' = IdlePass
  /\ UNCHANGED <<row, cluster, call, refused, health>>
  /\ UNCHANGED controllerVars

\* Handle returns the error and the queue retries what it holds by then.
ReturnError ==
  /\ At("error")
  /\ pass' = IdlePass
  /\ queued' = (latest # NoPayload)
  /\ UNCHANGED <<row, cluster, call, refused, online, notify, latest, forced,
                 poller, health>>

WriteHealthyInProgress ==
  /\ At("healthy")
  /\ Report("InProgress", "route")
  /\ UNCHANGED <<row, cluster, health>> /\ UNCHANGED controllerVars

\* The route address (not modelled) is written when it resolves.
WriteRouteAddress ==
  /\ At("route")
  /\ \/ Routed /\ Send("pass", row)
     \/ UNCHANGED <<call, refused>>
  /\ Goto("ack")
  /\ UNCHANGED <<row, cluster, health>> /\ UNCHANGED controllerVars

\* Mutant: the generation acknowledged is read when it is written.
AcknowledgeCurrent ==
  /\ At("ack")
  /\ Send("pass", [row EXCEPT !.observed = row.generation])
  /\ Goto("wait")
  /\ UNCHANGED <<row, cluster, health>> /\ UNCHANGED controllerVars

updateObservedGeneration ==
  /\ At("ack")
  /\ Send("pass", [row EXCEPT !.observed = pass.payload.generation])
  /\ Goto("wait")
  /\ UNCHANGED <<row, cluster, health>> /\ UNCHANGED controllerVars

\* WaitForGatewayReady, then waitForRouteReady.
AwaitReady ==
  /\ At("wait")
  /\ \/ Report("Complete", "running")
     \/ MayBeUnready /\ Report("Failed", "degraded")
     \/ Routed /\ MayBeUnready /\ UNCHANGED <<call, refused>> /\ Goto("park")
  /\ UNCHANGED <<row, cluster, health>> /\ UNCHANGED controllerVars

\* A routed gateway that is not degraded gets the console address poller.
WriteFinalPhase ==
  /\ \/ At("running") /\ WritePhase("Running") /\ poller' = (poller \/ Routed)
     \/ At("park") /\ WritePhase("Provisioning") /\ poller' = TRUE
     \/ At("degraded") /\ WritePhase("Degraded") /\ poller' = poller
  /\ pass' = IdlePass
  /\ UNCHANGED <<row, cluster, online, notify, latest, queued, forced, health>>

\* publishConsoleAddressWhenReady: write the address, or give up.
PublishConsoleAddress ==
  /\ poller /\ call["console"] = NoRow
  /\ poller' = FALSE
  /\ \/ Send("console", row)
     \/ UNCHANGED <<call, refused>>
  /\ UNCHANGED <<row, cluster, online, notify, latest, queued, forced, pass,
                 health>>

\* The delete branch of Handle; a failed cleanup may be complete or not.
Teardown ==
  /\ At("teardown")
  /\ \/ applied' = NoSpec /\ pass' = IdlePass
     \/ StepsMayFail /\ applied' \in {applied, NoSpec} /\ Goto("error")
  /\ UNCHANGED <<row, trusted, call, refused, health>>
  /\ UNCHANGED controllerVars
----------------------------------------------------------------------------
(***************************************************************************)
(* The health loop: list, observe the cluster, write back what it saw.     *)
(***************************************************************************)

IdleHealth == [pc |-> "idle", phase |-> "Pending", conditions |-> NoConditions]

HealthList ==
  /\ health.pc = "idle" /\ call["health"] = NoRow
  /\ row.live /\ row.spec.placed
  /\ row.phase \in {"Running", "Degraded", "Provisioning"}
  /\ health' = [pc |-> "listed", phase |-> row.phase,
                conditions |-> row.conditions]
  /\ UNCHANGED <<row, cluster, call, refused, pass>>
  /\ UNCHANGED controllerVars

\* syncConsoleAddress writes the console address (not modelled).
HealthWriteAddress ==
  /\ Routed /\ health.pc = "listed"
  /\ Send("health", row)
  /\ health' = [health EXCEPT !.pc = "observe"]
  /\ UNCHANGED <<row, cluster, pass>> /\ UNCHANGED controllerVars

allConditionsComplete(conds) == \A s \in Step : conds[s] = "Complete"

completedConditions(conds) ==
  [s \in Step |-> IF conds[s] = "absent" THEN "absent" ELSE "Complete"]

\* The phases an observation may call for, by the phase the tick listed.
DesiredPhase(phase) ==
  {"Running"} \union
  (IF MayBeUnready
   THEN {"Degraded"} \union
        (IF phase = "Provisioning" THEN {"Provisioning"} ELSE {})
   ELSE {})

\* observedGatewayHealthUpdate with the conditions a promotion completes.
\* statusDiffers: the status text (not modelled) is not the observed one.
HealthUpdate(desired, statusDiffers) ==
  LET writesPhase == desired # health.phase \/ statusDiffers
      finishes == /\ desired = "Running"
                  /\ health.conditions # NoConditions
                  /\ ~allConditionsComplete(health.conditions)
  IN  IF writesPhase \/ finishes
      THEN Send("health",
                [row EXCEPT
                   !.phase = IF writesPhase THEN desired ELSE @,
                   !.conditions = IF finishes
                                  THEN completedConditions(health.conditions)
                                  ELSE @])
      ELSE UNCHANGED <<call, refused>>

\* Mutant: a missing Deployment is taken for one that is not ready.
HealthObserveAny ==
  /\ health.pc \in {"listed", "observe"} /\ call["health"] = NoRow
  /\ \E desired \in DesiredPhase(health.phase) : HealthUpdate(desired, TRUE)
  /\ health' = IdleHealth
  /\ UNCHANGED <<row, cluster, pass>> /\ UNCHANGED controllerVars

\* No Deployment, a rollout in progress or a failed observation: no update.
HealthObserve ==
  /\ health.pc \in {"listed", "observe"} /\ call["health"] = NoRow
  /\ \/ /\ applied # NoSpec
        /\ \E desired \in DesiredPhase(health.phase), differs \in BOOLEAN :
             HealthUpdate(desired, differs)
     \/ /\ applied = NoSpec \/ MayBeUnready
        /\ UNCHANGED <<call, refused>>
  /\ health' = IdleHealth
  /\ UNCHANGED <<row, cluster, pass>> /\ UNCHANGED controllerVars

\* The controller process dies and starts again.  The calls it had sent may
\* still be on their way to the API server.
Restart ==
  /\ row.generation < RestartUntil /\ call["late"] = NoRow
  /\ call' = [call EXCEPT !["pass"] = NoRow, !["late"] = call["pass"]]
  /\ refused' = FALSE
  /\ online' = FALSE /\ notify' = FALSE
  /\ latest' = NoPayload /\ queued' = FALSE /\ forced' = FALSE
  /\ poller' = FALSE
  /\ pass' = IdlePass /\ health' = IdleHealth
  /\ UNCHANGED <<row, cluster>>
----------------------------------------------------------------------------
\* Create: generation 1, nothing observed; the create event is on its way.
Init ==
  /\ row = [NoRow EXCEPT !.live = TRUE, !.spec.placed = ~LateBound,
                        !.generation = 1]
  /\ applied = NoSpec /\ trusted = TRUE
  /\ call = [s \in Slot |-> NoRow]
  /\ refused = FALSE
  /\ online = TRUE /\ notify = TRUE
  /\ latest = NoPayload /\ queued = FALSE /\ forced = FALSE /\ poller = FALSE
  /\ pass = IdlePass
  /\ health = IdleHealth

ApiStep == \E s \in Slot : Replace(s) \/ CallFails(s)

WriterStep == Rename \/ AuthorWorkload \/ Rebind \/ ChangeTrust \/ Delete

WatchStep == Deliver \/ Disconnect \/ Reconnect \/ Restart

PassStep ==
  \/ StartPass \/ ReconcileExistingClient \/ CheckTrust
  \/ InvalidConfig \/ WriteInitConditions
  \/ WriteProvisioning \/ BeginStep \/ DoStep \/ CompleteStep \/ FailStep
  \/ WriteFailed \/ ReturnError \/ WriteHealthyInProgress
  \/ WriteRouteAddress \/ updateObservedGeneration \/ AwaitReady
  \/ WriteFinalPhase \/ Teardown

HealthStep == HealthList \/ HealthWriteAddress \/ HealthObserve

Next ==
  \/ ApiStep \/ WriterStep \/ WatchStep \/ PassStep \/ HealthStep
  \/ PublishConsoleAddress

Spec == Init /\ [][Next]_vars

(***************************************************************************)
(* Fairness.  The API server finishes the calls it is given, the watch     *)
(* loop reconnects and delivers, the idle watchdog cuts a stream that      *)
(* stays quiet, the queue's workers run, and the health ticker keeps       *)
(* firing.  A step, an acknowledgement or the watch's read of a row that   *)
(* is tried again and again gets through in the end: dependencies recover. *)
(* Renames, authored changes, deletes and restarts are under no obligation *)
(* to happen.                                                              *)
(***************************************************************************)
FairSpec ==
  /\ Spec
  /\ \A s \in Slot : WF_vars(Replace(s) \/ CallFails(s))
  /\ WF_vars(Deliver) /\ SF_vars(Deliver /\ queued') /\ WF_vars(Reconnect)
  /\ WF_vars(PassStep) /\ WF_vars(HealthStep)
  /\ WF_vars(Disconnect /\ ~notify)
  /\ SF_vars(ReconcileExistingClient /\ pass'.pc = "trust")
  /\ SF_vars(CheckTrust /\ pass'.pc # "error")
  /\ SF_vars(WriteInitConditions)
  /\ SF_vars(DoStep)
  /\ \A pc \in {"written", "wait"} :
       SF_vars(pass.pc = pc /\ Replace("pass"))
----------------------------------------------------------------------------
\* Every variable has its type, and the row never acknowledges a generation
\* it has not reached, whatever order calls commit in (Replace's range check).
TypeOK ==
  /\ row \in Row /\ row.observed <= row.generation
  /\ applied \in Desired
  /\ call \in [Slot -> Row]
  /\ trusted \in BOOLEAN /\ refused \in BOOLEAN /\ online \in BOOLEAN
  /\ notify \in BOOLEAN /\ queued \in BOOLEAN /\ forced \in BOOLEAN
  /\ poller \in BOOLEAN
  /\ latest \in Payload
  /\ pass \in [pc : PassPc, step : Step, payload : Payload, conds : Conditions]
  /\ health \in [pc : {"idle", "listed", "observe"}, phase : Phase,
                 conditions : Conditions]

\* The latch means what it says: while observed_generation equals generation,
\* the cluster runs exactly the stored desired state.  Handle acknowledges
\* the generation of the payload it started from, long after reading it, and
\* other writers change the row, and the pass itself changes oidc, meanwhile.
LatchSound ==
  row.live /\ Converged(row) => applied = row.spec

\* A converged gateway leaves convergence only because its author changed a
\* workload field: no status write, late answer, rename or stale whole-row
\* copy of any writer alters the desired state of a converged row.
ConvergedIsStable ==
  [][ row.live /\ Converged(row) /\ row'.spec # row.spec
      => /\ call["author"] # NoRow /\ call'["author"] = NoRow
         /\ row'.spec = [row.spec EXCEPT !.image = row'.spec.image] ]_vars

\* A rename writes the name and nothing else, although the whole copy its
\* handler read earlier is saved: when any other field has moved meanwhile,
\* placement, phase, progress or acknowledgement, the field policy refuses
\* the copy under the lock instead of letting a user write it back.
RenameTouchesNameOnly ==
  [][ call["user"] # NoRow /\ call'["user"] = NoRow
      => row' = [row EXCEPT !.name = row'.name] ]_vars

\* A live gateway shown Running or Degraded has a workload: the health loop
\* leaves a gateway whose Deployment does not exist yet to the pass, whatever
\* phase its listing carried.
ShownWorkloadExists ==
  row.live /\ row.phase \in {"Running", "Degraded"} => applied # NoSpec

PassQuiet == pass.pc = "idle" /\ call["pass"] = NoRow

\* A placed gateway that is not converged always has a pass under way or on
\* its way, as long as no call is lost: the soft failure of
\* updateObservedGeneration never leaves a generation nobody will apply.
NoStrandedGeneration ==
  ~RpcMayFail /\ row.live /\ row.spec.placed /\ ~Converged(row)
  => ~online \/ notify \/ queued \/ ~PassQuiet

\* A deleted gateway whose delete event was not missed or dropped is torn
\* down once the queue has nothing left for it, even when a pass was applying
\* it meanwhile or the teardown failed on the way.  The event of a gateway
\* that has lost its cluster reaches no controller (TornDownWherever).
DeletionCompletes ==
  /\ ~StreamMayBreak /\ ~RpcMayFail /\ RestartUntil = 0
  /\ ~row.live /\ row.spec.placed /\ ~notify /\ ~queued /\ PassQuiet
  => applied = NoSpec

\* Every generation is applied and acknowledged in the end, whatever calls
\* are lost on the way: the queue retries a failed pass, and a lost
\* acknowledgement is made good by the next event or, when none comes,
\* by the seed that follows the idle watchdog's reconnect.
Converges == <>[](row.live => Converged(row))
----------------------------------------------------------------------------
(***************************************************************************)
(* What the documents say and the code does not do.                        *)
(***************************************************************************)

\* openshell-gateway-health.spec.md: once its manifests are applied and its
\* workload is ready (it always is while MayBeUnready is FALSE), the gateway
\* is set to Running.
ReadyIsShownRunning ==
  row.live /\ Converged(row)
  ~> ~row.live \/ ~Converged(row) \/ row.phase = "Running"

\* openshell-gateway.spec.md: the DELETED event of a gateway removes what was
\* installed for it.  A stale whole-row copy may have taken the cluster back
\* off a late-bound gateway; its delete event is then sent to no cluster.
TornDownWherever ==
  ~row.live /\ ~notify /\ ~queued /\ PassQuiet => applied = NoSpec

\* data-model.spec.md: a write of observed fields does not advance generation.
StatusWriteKeepsGeneration ==
  [][ call["health"] # NoRow /\ call'["health"] = NoRow
      => row'.generation = row.generation ]_vars

\* gateway-provisioning-progress.spec.md: a step becomes Complete when the
\* step of this generation has been carried out.
DeployedMeansApplied ==
  row.live /\ row.conditions[Deployed] = "Complete"
  => applied = Effective(row.spec)
=============================================================================
