--------------------- MODULE ConvergencePromisesProofs ---------------------
(***************************************************************************)
(* What the convergence protocol promises beyond the latch, for any        *)
(* images, names, number of steps and bounds, with every failure the model *)
(* has switched on or off: renames touch the name only, a converged row is *)
(* stable, a gateway shown as up has a workload, no generation is left     *)
(* without a pass and a deleted gateway is torn down.                      *)
(***************************************************************************)
EXTENDS GatewayConvergenceProofs

(***************************************************************************)
(* A rename.  The field policy compares the whole copy with the row under  *)
(* the lock, so that the copy it lets through is the row but for its name; *)
(* no strengthening is needed.                                             *)
(***************************************************************************)

\* Merging conditions with themselves changes nothing.
LEMMA MergeIsIdempotent ==
  ASSUME NEW cs \in Conditions
  PROVE  mergeMonotonicProvisioningConditions(cs, cs) = cs
<1>1. \A st \in Status : conditionRank(st) >= conditionRank(st)
  BY DEF conditionRank, Status
<1>2. \A st \in Status : pickProvisioningCondition(st, st) = st
  BY <1>1 DEF pickProvisioningCondition
<1>3. QED
  BY <1>2 DEF mergeMonotonicProvisioningConditions, Conditions

\* A step that ends the user's call saves the row with another name, or fails.
LEMMA RenameStep ==
  ASSUME TypeOK, [Next]_vars, call["user"] # NoRow, call'["user"] = NoRow
  PROVE  row' = [row EXCEPT !.name = row'.name]
<1> USE DEF controllerVars, cluster
<1>t. row \in Row /\ call \in [Slot -> Row] /\ "user" \in Slot
  BY DEF TypeOK, Slot
<1>s. row = [row EXCEPT !.name = row.name]
  BY <1>t DEF Row
<1>1. ASSUME NEW s \in Slot, Replace(s)
      PROVE  row' = [row EXCEPT !.name = row'.name]
  <2> DEFINE c == call["user"]
  <2>1. s = "user"
    BY <1>1, <1>t DEF Replace
  <2>2. row' = Stored(row, c) /\ FieldPolicyAllows("user", row, c)
    BY <1>1, <2>1 DEF Replace, Accepted
  <2>3. [c EXCEPT !.name = row.name, !.generation = row.generation] = row
    BY <2>2 DEF FieldPolicyAllows
  <2>4. /\ c.spec = row.spec /\ c.conditions = row.conditions
        /\ c.live = row.live /\ c.phase = row.phase
        /\ c.observed = row.observed
    BY <2>3, <1>t DEF Row
  <2>5. /\ NewGeneration(row, c) = row.generation
        /\ ~desiredStateChanged(row, c)
    BY <2>4 DEF NewGeneration, desiredStateChanged
  <2>6. mergeMonotonicProvisioningConditions(row.conditions, c.conditions)
          = row.conditions
    BY <2>4, <1>t, MergeIsIdempotent DEF Row
  <2>7. row' = [c EXCEPT !.generation = row.generation,
                         !.conditions = row.conditions]
    BY <2>2, <2>5, <2>6 DEF Stored
  <2>8. QED
    BY <2>4, <2>7, <1>t DEF Row
<1>2. CASE Delete
  BY <1>2 DEF Delete
<1>3. CASE row' = row
  BY <1>3, <1>s
<1>4. QED
  BY <1>1, <1>2, <1>3
     DEF Next, ApiStep, CallFails, WriterStep, Rename, AuthorWorkload, Rebind,
         ChangeTrust, WatchStep, Deliver, Disconnect, Reconnect, Restart,
         PassStep, StartPass, ReconcileExistingClient, CheckTrust,
         InvalidConfig, WriteInitConditions, WriteProvisioning, BeginStep,
         DoStep, CompleteStep, CompleteStepOf, FailStep, WriteFailed,
         ReturnError, WriteHealthyInProgress, WriteRouteAddress,
         updateObservedGeneration, AwaitReady, WriteFinalPhase, Teardown,
         HealthStep, HealthList, HealthWriteAddress, HealthObserve,
         PublishConsoleAddress, vars

\* A rename writes the name and nothing else, although Replace saves the
\* whole copy its handler read before the lock: enforceGatewayFieldPolicyUpdate
\* refuses a copy that any other writer has overtaken.
THEOREM RenameIsHarmless == Spec => RenameTouchesNameOnly
<1>1. TypeOK /\ [Next]_vars
      => [ call["user"] # NoRow /\ call'["user"] = NoRow
           => row' = [row EXCEPT !.name = row'.name] ]_vars
  BY RenameStep DEF vars
<1>2. QED
  BY <1>1, TypeCorrect, PTL DEF Spec, RenameTouchesNameOnly
----------------------------------------------------------------------------
(***************************************************************************)
(* The copies in flight.                                                   *)
(***************************************************************************)

Shown(phase) == phase \in {"Running", "Degraded"}

\* What a handler may have done to the desired state of the row it read.
Patched(s, spec, copy) ==
  \/ copy = spec
  \/ s = "author" /\ copy = [spec EXCEPT !.image = copy.image]
  \/ s = "rebind" /\ copy = [spec EXCEPT !.placed = TRUE]
  \/ /\ s \in {"pass", "late"} /\ Identity > 0
     /\ copy = [spec EXCEPT !.oidc = TRUE]

\* A copy of the row of this moment, as slot s sends it.
Fresh(s, copy) ==
  /\ copy.generation = row.generation
  /\ Patched(s, row.spec, copy.spec)
  /\ \/ copy.observed = row.observed
     \/ /\ s = "pass" /\ pass.pc = "ack"
        /\ copy.observed = pass.payload.generation
  /\ Shown(copy.phase) => \/ Shown(row.phase) \/ applied # NoSpec
                          \/ s = "pass" /\ pass.pc \in {"running", "degraded"}

\* A step ends calls, sends copies of the row of this moment, or leaves the
\* call of a controller that dies on its way.
CallsFresh ==
  \A s \in Slot :
    \/ call'[s] \in {NoRow, call[s]}
    \/ Fresh(s, call'[s])
    \/ s = "late" /\ call'[s] = call["pass"]

\* Every patch of a handler other than the acknowledgement and the phase
\* writes, whatever slot it is for.
LEMMA StatusIsFresh ==
  ASSUME TypeOK, NEW s \in Slot
  PROVE  /\ Fresh(s, row)
         /\ \A n \in Names : Fresh(s, [row EXCEPT !.name = n])
         /\ \A cs \in Conditions : Fresh(s, [row EXCEPT !.conditions = cs])
         /\ \A ph \in Phase \ {"Running", "Degraded"} :
              Fresh(s, [row EXCEPT !.phase = ph])
  BY DEF TypeOK, Row, Fresh, Patched, Shown

\* The patches of the desired state.
LEMMA PatchIsFresh ==
  ASSUME TypeOK
  PROVE  /\ \A i \in Images : Fresh("author", [row EXCEPT !.spec.image = i])
         /\ Fresh("rebind", [row EXCEPT !.spec.placed = TRUE])
         /\ Identity > 0 => Fresh("pass", [row EXCEPT !.spec.oidc = TRUE])
  BY DEF TypeOK, Row, Desired, Fresh, Patched, Shown

\* Send changes its own slot only.
LEMMA SendIsFresh ==
  ASSUME TypeOK, NEW s \in Slot, NEW copy, Send(s, copy), Fresh(s, copy)
  PROVE  CallsFresh
  BY DEF TypeOK, Send, CallsFresh

LEMMA QuietIsFresh ==
  ASSUME TypeOK, call' = call
  PROVE  CallsFresh
  BY DEF CallsFresh

\* No handler sends anything but its patch of the row it has just read.
LEMMA SendsAreFresh ==
  ASSUME TypeOK, StepInv, [Next]_vars, ~\E s \in Slot : Replace(s)
  PROVE  CallsFresh
<1> USE DEF controllerVars, cluster
<1>r. row \in Row /\ pass \in PassType /\ call \in [Slot -> Row]
  BY DEF TypeOK, PassType
<1>s. {"user", "author", "rebind", "pass", "health", "console", "late"} = Slot
  BY DEF Slot
<1>c. \A st \in Status : [pass.conds EXCEPT ![pass.step] = st] \in Conditions
  BY <1>r DEF PassType, Conditions
<1>w. ASSUME NEW st \in Status, NEW pc \in PassPc, Report(st, pc)
      PROVE  CallsFresh
  BY <1>w, <1>c, <1>s, StatusIsFresh, SendIsFresh DEF Report
<1>1. ASSUME NEW s \in Slot, CallFails(s)
      PROVE  CallsFresh
  BY <1>1, <1>r DEF CallFails, CallsFresh
<1>2. CASE Rename
  BY <1>2, <1>s, StatusIsFresh, SendIsFresh DEF Rename
<1>3. CASE AuthorWorkload
  BY <1>3, <1>s, PatchIsFresh, SendIsFresh DEF AuthorWorkload
<1>4. CASE Rebind
  BY <1>4, <1>s, PatchIsFresh, SendIsFresh DEF Rebind
<1>5. CASE Restart
  BY <1>5, <1>r DEF Restart, CallsFresh, Slot
<1>6. CASE WriteInitConditions
  <2>1. InitConditions \in Conditions
    BY DEF InitConditions, Conditions, Status
  <2>2. QED
    BY <1>6, <2>1, <1>s, StatusIsFresh, SendIsFresh DEF WriteInitConditions
<1>7. CASE WriteProvisioning
  BY <1>7, <1>s, StatusIsFresh, SendIsFresh
     DEF WriteProvisioning, WritePhase, Phase
<1>8. CASE BeginStep
  BY <1>8, <1>w DEF BeginStep, Status, PassPc
<1>9. CASE DoStep
  <2>1. CASE pass.step = Identity
    <3>1. Identity > 0
      BY <2>1, <1>r, StepBounds DEF PassType, Step
    <3>2. QED
      BY <1>9, <2>1, <3>1, <1>s, PatchIsFresh, SendIsFresh DEF DoStep
  <2>2. CASE pass.step # Identity
    BY <1>9, <2>2, QuietIsFresh DEF DoStep
  <2>3. QED
    BY <2>1, <2>2
<1>10. CASE CompleteStep
  BY <1>10, <1>c, <1>s, StatusIsFresh, SendIsFresh
     DEF CompleteStep, CompleteStepOf, Status
<1>11. CASE FailStep
  BY <1>11, <1>w DEF FailStep, Status, PassPc
<1>12. CASE WriteFailed
  BY <1>12, <1>s, StatusIsFresh, SendIsFresh DEF WriteFailed, WritePhase, Phase
<1>13. CASE WriteHealthyInProgress
  BY <1>13, <1>w DEF WriteHealthyInProgress, Status, PassPc
<1>14. CASE updateObservedGeneration
  <2>1. Fresh("pass", [row EXCEPT !.observed = pass.payload.generation])
    BY <1>14, <1>r DEF updateObservedGeneration, At, Fresh, Patched, Row, Shown
  <2>2. QED
    BY <1>14, <2>1, <1>s, SendIsFresh DEF updateObservedGeneration
<1>15. CASE AwaitReady
  BY <1>15, <1>w, QuietIsFresh DEF AwaitReady, Status, PassPc
<1>16. CASE WriteFinalPhase
  <2>1. /\ pass.pc \in {"running", "degraded"} =>
             \A ph \in Phase : Fresh("pass", [row EXCEPT !.phase = ph])
        /\ Fresh("pass", [row EXCEPT !.phase = "Provisioning"])
    BY <1>r DEF Fresh, Patched, Row, Shown
  <2>2. QED
    BY <1>16, <2>1, <1>s, SendIsFresh
       DEF WriteFinalPhase, WritePhase, At, Phase
<1>17. CASE HealthObserve
  <2>1. CASE UNCHANGED call
    BY <2>1, QuietIsFresh
  <2>2. ASSUME NEW d \in DesiredPhase(health.phase), NEW b \in BOOLEAN,
               HealthUpdate(d, b), applied # NoSpec
        PROVE  CallsFresh
    <3>1. \A ph, cs :
            Fresh("health", [row EXCEPT !.phase = ph, !.conditions = cs])
      BY <1>r, <2>2 DEF Fresh, Patched, Row
    <3>2. QED
      BY <2>2, <3>1, <1>s, SendIsFresh, QuietIsFresh DEF HealthUpdate
  <2>3. QED
    BY <1>17, <2>1, <2>2 DEF HealthObserve
<1>18. CASE \/ ReconcileExistingClient \/ WriteRouteAddress
            \/ HealthWriteAddress \/ PublishConsoleAddress
  BY <1>18, <1>s, StatusIsFresh, SendIsFresh, QuietIsFresh
     DEF ReconcileExistingClient, WriteRouteAddress, HealthWriteAddress,
         PublishConsoleAddress
<1>19. CASE UNCHANGED call
  BY <1>19, QuietIsFresh
<1>20. QED
  BY <1>1, <1>2, <1>3, <1>4, <1>5, <1>6, <1>7, <1>8, <1>9, <1>10, <1>11,
     <1>12, <1>13, <1>14, <1>15, <1>16, <1>17, <1>18, <1>19
     DEF Next, ApiStep, WriterStep, ChangeTrust, Delete, WatchStep, Deliver,
         Disconnect, Reconnect, PassStep, StartPass, CheckTrust,
         InvalidConfig, ReturnError, Teardown, HealthStep, HealthList, vars
----------------------------------------------------------------------------
(***************************************************************************)
(* What a step does to the row, the workload, the queued payload and the   *)
(* payload of the pass.                                                    *)
(***************************************************************************)

RowKept == row' \in {row, [row EXCEPT !.live = FALSE]}

\* Only Replace writes a field of the row other than the deletion mark.
LEMMA OnlyReplaceWrites ==
  ASSUME [Next]_vars, ~\E s \in Slot : Replace(s)
  PROVE  RowKept /\ (Delete \/ row' = row)
<1>1. CASE Delete
  BY <1>1 DEF Delete, RowKept
<1>2. CASE row' = row
  BY <1>2 DEF RowKept
<1>3. QED
  BY <1>1, <1>2
     DEF Next, ApiStep, CallFails, WriterStep, Rename, AuthorWorkload, Rebind,
         ChangeTrust, WatchStep, Deliver, Disconnect, Reconnect, Restart,
         PassStep, StartPass, ReconcileExistingClient, CheckTrust,
         InvalidConfig, WriteInitConditions, WriteProvisioning, BeginStep,
         DoStep, CompleteStep, CompleteStepOf, FailStep, WriteFailed,
         ReturnError, WriteHealthyInProgress, WriteRouteAddress,
         updateObservedGeneration, AwaitReady, WriteFinalPhase, Teardown,
         HealthStep, HealthList, HealthWriteAddress, HealthObserve,
         PublishConsoleAddress, vars

Deploys == Deploy /\ pass.pc = "work" /\ pass.step = Deployed

\* The workload is what a deploy step installs until a teardown removes it.
LEMMA OnlyDeployInstalls ==
  ASSUME [Next]_vars
  PROVE  \/ applied' = applied
         \/ Deploys
         \/ applied' = NoSpec /\ pass.pc = "teardown" /\ row' = row
<1> USE DEF cluster
<1>1. CASE DoStep
  BY <1>1 DEF DoStep, Deploys, At
<1>2. CASE FailStep
  BY <1>2 DEF FailStep, Deploys, At
<1>3. CASE Teardown
  BY <1>3 DEF Teardown, At
<1>4. CASE applied' = applied
  BY <1>4
<1>5. QED
  BY <1>1, <1>2, <1>3, <1>4
     DEF Next, ApiStep, Replace, CallFails, WriterStep, Rename,
         AuthorWorkload, Rebind, ChangeTrust, Delete, WatchStep, Deliver,
         Disconnect, Reconnect, Restart, PassStep, StartPass,
         ReconcileExistingClient, CheckTrust, InvalidConfig,
         WriteInitConditions, WriteProvisioning, BeginStep, CompleteStep,
         CompleteStepOf, WriteFailed, ReturnError, WriteHealthyInProgress,
         WriteRouteAddress, updateObservedGeneration, AwaitReady,
         WriteFinalPhase, HealthStep, HealthList, HealthWriteAddress,
         HealthObserve, PublishConsoleAddress, vars

\* The queue holds what the watch or the seed last read of a placed row.
LEMMA OnlyWatchQueues ==
  ASSUME [Next]_vars
  PROVE  \/ latest' \in {latest, NoPayload}
         \/ latest' = PayloadOf(row) /\ row.spec.placed
<1> USE DEF controllerVars
<1>1. CASE Deliver \/ Reconnect \/ Restart
  BY <1>1 DEF Deliver, Reconnect, Restart
<1>2. CASE latest' = latest
  BY <1>2
<1>3. QED
  BY <1>1, <1>2
     DEF Next, ApiStep, Replace, CallFails, WriterStep, Rename,
         AuthorWorkload, Rebind, ChangeTrust, Delete, WatchStep,
         Disconnect, PassStep, StartPass, ReconcileExistingClient,
         CheckTrust, InvalidConfig, WriteInitConditions, WriteProvisioning,
         BeginStep, DoStep, CompleteStep, CompleteStepOf, FailStep,
         WriteFailed, ReturnError, WriteHealthyInProgress,
         WriteRouteAddress, updateObservedGeneration, AwaitReady,
         WriteFinalPhase, Teardown, HealthStep, HealthList,
         HealthWriteAddress, HealthObserve, PublishConsoleAddress, vars

\* A pass works with the payload it started from.
LEMMA PayloadKept ==
  ASSUME TypeOK, [Next]_vars
  PROVE  \/ pass'.pc = "idle"
         \/ pass.pc # "idle" /\ pass'.payload = pass.payload
         \/ StartPass /\ pass'.payload = latest
<1>1. pass \in PassType /\ IdlePass.pc = "idle"
  BY DEF TypeOK, PassType, IdlePass
<1>2. CASE pass' = pass
  BY <1>2
<1>3. CASE StartPass
  BY <1>3 DEF StartPass, IdlePass
<1>4. CASE PassStep /\ ~StartPass
  <2>1. pass.pc # "idle"
    BY <1>4
       DEF PassStep, ReconcileExistingClient, CheckTrust, InvalidConfig,
           WriteInitConditions, WriteProvisioning, BeginStep, DoStep,
           CompleteStep, CompleteStepOf, FailStep, WriteFailed, ReturnError,
           WriteHealthyInProgress, WriteRouteAddress,
           updateObservedGeneration, AwaitReady, WriteFinalPhase, Teardown,
           At
  <2>2. pass' = IdlePass \/ pass'.payload = pass.payload
    BY <1>1, <1>4
       DEF PassStep, ReconcileExistingClient, CheckTrust, InvalidConfig,
           WriteInitConditions, WriteProvisioning, BeginStep, DoStep,
           CompleteStep, CompleteStepOf, FailStep, WriteFailed, ReturnError,
           WriteHealthyInProgress, WriteRouteAddress,
           updateObservedGeneration, AwaitReady, WriteFinalPhase, Teardown,
           Goto, Report, PassType
  <2>3. QED
    BY <1>1, <2>1, <2>2
<1>5. CASE Restart
  BY <1>1, <1>5 DEF Restart
<1>6. QED
  BY <1>2, <1>3, <1>4, <1>5
     DEF Next, ApiStep, Replace, CallFails, WriterStep, Rename,
         AuthorWorkload, Rebind, ChangeTrust, Delete, WatchStep, Deliver,
         Disconnect, Reconnect, HealthStep, HealthList, HealthWriteAddress,
         HealthObserve, PublishConsoleAddress, vars
----------------------------------------------------------------------------
(***************************************************************************)
(* A converged row is stable.  The argument: a copy that Replace accepts   *)
(* from a converged row acknowledges the row's generation, so it was read  *)
(* from this generation (CopyInv) and differs from the row by its own      *)
(* handler's patch; placement and identity are in place already, because   *)
(* only a placed payload is ever applied or acknowledged.                  *)
(***************************************************************************)

\* The controller is handed placed gateways only.
PlacedInv ==
  /\ latest # NoPayload => latest.spec.placed
  /\ pass.pc # "idle" => pass.payload.spec.placed
  /\ applied # NoSpec => applied.placed /\ (Identity > 0 => applied.oidc)

\* Each copy in flight is its handler's patch of the row as it was at the
\* copy's generation.
CopyInv ==
  \A s \in Slot :
    /\ call[s].generation <= row.generation
    /\ call[s].observed <= call[s].generation
    /\ call[s].generation = row.generation
       => Patched(s, row.spec, call[s].spec)

\* Acknowledging g means that the row is placed, if g is its generation.
AckPlaced(g) == g = row.generation => row.spec.placed

AckInv ==
  /\ AckPlaced(row.observed)
  /\ \A s \in Slot :
       call[s].observed <= row.observed \/ AckPlaced(call[s].observed)

StableInv == PlacedInv /\ CopyInv /\ AckInv

\* What a deploy step installs is a placed workload with its identity.
LEMMA DeployedSpec ==
  ASSUME TypeOK, PlacedInv, Deploys
  PROVE  /\ applied'.placed /\ (Identity > 0 => applied'.oidc)
         /\ applied' # NoSpec
<1>1. pass.payload.spec \in Desired /\ pass.payload.spec.placed
  BY DEF TypeOK, Deploys, PlacedInv, Payload
<1>2. applied' = Effective(pass.payload.spec)
  BY DEF Deploys, Deploy
<1>3. /\ Effective(pass.payload.spec).placed
      /\ Identity > 0 => Effective(pass.payload.spec).oidc
  BY <1>1 DEF Effective, Desired
<1>4. ~NoSpec.placed
  BY DEF NoSpec
<1>5. QED
  BY <1>2, <1>3, <1>4

LEMMA PlacedStep ==
  ASSUME TypeOK, PlacedInv, [Next]_vars
  PROVE  PlacedInv'
<1>1. (latest # NoPayload => latest.spec.placed)'
  BY OnlyWatchQueues DEF PlacedInv, PayloadOf
<1>2. (pass.pc # "idle" => pass.payload.spec.placed)'
  BY PayloadKept DEF PlacedInv, StartPass
<1>3. (applied # NoSpec => applied.placed /\ (Identity > 0 => applied.oidc))'
  BY OnlyDeployInstalls, DeployedSpec DEF PlacedInv
<1>4. QED
  BY <1>1, <1>2, <1>3 DEF PlacedInv

\* Replace empties its slot and moves the row to the copy's desired state.
LEMMA ReplaceFields ==
  ASSUME TypeOK, NEW s \in Slot, Replace(s)
  PROVE  /\ row.live /\ row'.spec = call[s].spec
         /\ row'.observed = call[s].observed /\ row'.phase = call[s].phase
         /\ row'.generation \in {row.generation, row.generation + 1}
         /\ row'.generation = row.generation <=> row'.spec = row.spec
         /\ row.observed <= row'.observed
         /\ row'.generation <= MaxGeneration
         /\ \A t \in Slot : call'[t] = IF t = s THEN NoRow ELSE call[t]
<1>1. call[s] \in Row /\ call \in [Slot -> Row]
  BY DEF TypeOK
<1>2. row' = Stored(row, call[s]) /\ NewGeneration(row, call[s]) <= MaxGeneration
      /\ call' = [call EXCEPT ![s] = NoRow]
  BY DEF Replace
<1>3. row'.generation = NewGeneration(row, call[s])
      /\ row'.phase = call[s].phase
  BY <1>1, <1>2 DEF Stored, Row
<1>4. QED
  BY <1>1, <1>2, <1>3, StoredFields

\* The numbers of a well-typed state.
LEMMA Numbers ==
  ASSUME TypeOK
  PROVE  /\ row.generation \in Nat /\ row.observed \in Nat
         /\ row.observed <= row.generation
         /\ pass.payload.generation \in Nat
         /\ \A s \in Slot : /\ call[s].generation \in Nat
                            /\ call[s].observed \in Nat
         /\ NoRow.generation = 0 /\ NoRow.observed = 0
         /\ ~NoRow.spec.placed /\ NoRow.phase = "Pending"
  BY DEF TypeOK, Row, Payload, NoRow, NoSpec

LEMMA CopyStep ==
  ASSUME Inv, TypeOK', CopyInv, [Next]_vars
  PROVE  CopyInv'
<1> SUFFICES ASSUME NEW s \in Slot
             PROVE  /\ call'[s].generation <= row'.generation
                    /\ call'[s].observed <= call'[s].generation
                    /\ call'[s].generation = row'.generation
                       => Patched(s, row'.spec, call'[s].spec)
  BY DEF CopyInv
<1>t. /\ TypeOK /\ StepInv /\ row.generation >= 1
      /\ pass.pc = "ack" => pass.payload.generation <= row.generation
  BY DEF Inv, LatchInv, SnapshotInv, SnapshotOf
<1>1. ASSUME NEW t \in Slot, Replace(t)
      PROVE  /\ call'[s].generation <= row'.generation
             /\ call'[s].observed <= call'[s].generation
             /\ call'[s].generation = row'.generation
                => Patched(s, row'.spec, call'[s].spec)
  BY <1>1, <1>t, ReplaceFields, Numbers DEF CopyInv
<1>2. CASE ~\E t \in Slot : Replace(t)
  <2>1. /\ row'.generation = row.generation /\ row'.spec = row.spec
    BY <1>2, <1>t, OnlyReplaceWrites DEF RowKept, TypeOK, Row
  <2>2. CASE call'[s] \in {NoRow, call[s]}
    BY <2>1, <2>2, <1>t, Numbers DEF CopyInv
  <2>3. CASE Fresh(s, call'[s])
    BY <2>1, <2>3, <1>t, Numbers DEF Fresh
  <2>4. CASE s = "late" /\ call'[s] = call["pass"]
    <3>1. /\ "pass" \in Slot
          /\ Patched("pass", row.spec, call["pass"].spec)
             => Patched("late", row.spec, call["pass"].spec)
      BY DEF Slot, Patched
    <3>2. QED
      BY <2>1, <2>4, <3>1 DEF CopyInv
  <2>5. QED
    BY <1>2, <1>t, <2>2, <2>3, <2>4, SendsAreFresh DEF CallsFresh
<1>3. QED
  BY <1>1, <1>2

LEMMA AckStep ==
  ASSUME Inv, TypeOK', StableInv, [Next]_vars
  PROVE  AckInv'
<1>t. /\ TypeOK /\ StepInv /\ row.generation >= 1
      /\ pass.pc = "ack" => AckPlaced(pass.payload.generation)
  BY DEF Inv, LatchInv, SnapshotInv, SnapshotOf, StableInv, PlacedInv,
         AckPlaced
<1>1. ASSUME NEW t \in Slot, Replace(t)
      PROVE  AckInv'
  <2>1. \A s \in Slot : call[s].observed <= row.generation
    BY <1>t, Numbers DEF StableInv, CopyInv
  <2>2. CASE row'.generation = row.generation
    <3>1. \A g : AckPlaced(g)' <=> AckPlaced(g)
      BY <1>1, <1>t, <2>2, ReplaceFields DEF AckPlaced
    <3>2. AckPlaced(row'.observed)
      BY <1>1, <1>t, ReplaceFields, Numbers DEF StableInv, AckInv
    <3>3. ASSUME NEW s \in Slot
          PROVE  call'[s].observed <= row'.observed
                 \/ AckPlaced(call'[s].observed)
      BY <1>1, <1>t, ReplaceFields, Numbers DEF StableInv, AckInv
    <3>4. QED
      BY <3>2, <3>3, <2>2, <1>1, <1>t, ReplaceFields DEF AckInv, AckPlaced
  <2>3. CASE row'.generation = row.generation + 1
    BY <1>1, <1>t, <2>1, <2>3, ReplaceFields, Numbers DEF AckInv, AckPlaced
  <2>4. QED
    BY <1>1, <1>t, <2>2, <2>3, ReplaceFields
<1>2. CASE ~\E t \in Slot : Replace(t)
  <2>1. /\ row'.generation = row.generation /\ row'.spec = row.spec
        /\ row'.observed = row.observed
    BY <1>2, <1>t, OnlyReplaceWrites DEF RowKept, TypeOK, Row
  <2>2. ASSUME NEW s \in Slot
        PROVE  call'[s].observed <= row.observed
               \/ AckPlaced(call'[s].observed)
    <3>1. CASE call'[s] \in {NoRow, call[s]}
      BY <3>1, <1>t, Numbers DEF StableInv, AckInv
    <3>2. CASE Fresh(s, call'[s])
      BY <3>2, <1>t, Numbers DEF Fresh
    <3>3. CASE s = "late" /\ call'[s] = call["pass"]
      BY <3>3 DEF StableInv, AckInv, Slot
    <3>4. QED
      BY <1>2, <1>t, <3>1, <3>2, <3>3, SendsAreFresh DEF CallsFresh
  <2>3. QED
    BY <2>1, <2>2 DEF StableInv, AckInv, AckPlaced
<1>3. QED
  BY <1>1, <1>2

LEMMA StableInit == Init => StableInv
<1> SUFFICES ASSUME Init
             PROVE  StableInv
  OBVIOUS
<1>1. row.generation = 1 /\ row.observed = 0
  BY NoRowType DEF Init, NoRow, Row
<1>2. \A s \in Slot : call[s].generation = 0 /\ call[s].observed = 0
  BY NoRowType DEF Init, NoRow
<1>3. latest = NoPayload /\ pass.pc = "idle" /\ applied = NoSpec
  BY DEF Init, IdlePass
<1>4. QED
  BY <1>1, <1>2, <1>3 DEF StableInv, PlacedInv, CopyInv, AckInv, AckPlaced

\* What Replace accepts from a converged row.
LEMMA ConvergedStep ==
  ASSUME Inv, StableInv, [Next]_vars, row.live, Converged(row),
         row'.spec # row.spec
  PROVE  /\ call["author"] # NoRow /\ call'["author"] = NoRow
         /\ row'.spec = [row.spec EXCEPT !.image = row'.spec.image]
<1>t. TypeOK /\ row.spec \in Desired
  BY DEF Inv, TypeOK, Row
<1>1. PICK s \in Slot : Replace(s)
  BY <1>t, OnlyReplaceWrites DEF RowKept, TypeOK, Row
<1>2. call[s].generation = row.generation
  BY <1>1, <1>t, ReplaceFields, Numbers DEF StableInv, CopyInv, Converged
<1>3. Patched(s, row.spec, row'.spec)
  BY <1>1, <1>2, <1>t, ReplaceFields DEF StableInv, CopyInv
<1>4. row.spec.placed /\ applied = row.spec
  BY DEF Inv, LatchInv, LatchSound, StableInv, AckInv, AckPlaced, Converged
<1>5. [row.spec EXCEPT !.placed = TRUE] = row.spec
  BY <1>4, <1>t DEF Desired
<1>6. Identity > 0 => [row.spec EXCEPT !.oidc = TRUE] = row.spec
  <2>1. row.spec # NoSpec
    BY <1>4 DEF NoSpec
  <2>2. Identity > 0 => row.spec.oidc = TRUE
    BY <1>4, <1>t, <2>1 DEF StableInv, PlacedInv, Desired
  <2>3. row.spec.oidc = TRUE => [row.spec EXCEPT !.oidc = TRUE] = row.spec
    BY <1>t DEF Desired
  <2>4. QED
    BY <2>2, <2>3
<1>7. s = "author" /\ row'.spec = [row.spec EXCEPT !.image = row'.spec.image]
  BY <1>3, <1>5, <1>6 DEF Patched
<1>8. call["author"] # NoRow /\ call'["author"] = NoRow
  <2>1. "author" \in Slot /\ Replace("author")
    BY <1>1, <1>7 DEF Slot
  <2>2. call["author"] # NoRow
    BY <2>1 DEF Replace
  <2>3. QED
    BY <2>1, <2>2, <1>t, ReplaceFields
<1>9. QED
  BY <1>7, <1>8

\* A converged gateway leaves convergence only through its author: no status
\* write, late answer, rename, rebind or stale whole-row copy that Replace
\* accepts alters the desired state of a converged row.
THEOREM ConvergedStaysConverged == Spec => ConvergedIsStable
<1>1. Init => Inv /\ StableInv
  BY TypeInit, LatchInit, StableInit DEF Inv
<1>2. Inv /\ StableInv /\ [Next]_vars => (Inv /\ StableInv)'
  <2> SUFFICES ASSUME Inv, StableInv, [Next]_vars
               PROVE  (Inv /\ StableInv)'
    OBVIOUS
  <2>1. Inv'
    BY TypeStep, LatchStep DEF Inv
  <2>2. PlacedInv' /\ CopyInv' /\ AckInv'
    BY <2>1, PlacedStep, CopyStep, AckStep DEF Inv, StableInv
  <2>3. QED
    BY <2>1, <2>2 DEF StableInv
<1>3. Inv /\ StableInv /\ [Next]_vars
      => [ row.live /\ Converged(row) /\ row'.spec # row.spec
           => /\ call["author"] # NoRow /\ call'["author"] = NoRow
              /\ row'.spec = [row.spec EXCEPT !.image = row'.spec.image] ]_vars
  BY ConvergedStep
<1>4. QED
  BY <1>1, <1>2, <1>3, PTL DEF Spec, ConvergedIsStable
----------------------------------------------------------------------------
(***************************************************************************)
(* A gateway shown as up has a workload.                                   *)
(***************************************************************************)

\* The workload of a live gateway exists; only a teardown removes it, and a
\* teardown works on a deleted row.
Up == row.live => applied # NoSpec

PastDeploy ==
  \/ pass.pc = "complete" /\ pass.step = Deployed
  \/ pass.pc \in {"healthy", "route", "ack", "wait", "park", "degraded",
                  "running"}

ShownInv ==
  /\ Shown(row.phase) => Up
  /\ \A s \in Slot : Shown(call[s].phase) => Up
  /\ PastDeploy => Up

LEMMA UpStaysUp ==
  ASSUME Inv, PlacedInv, [Next]_vars
  PROVE  /\ Up => Up'
         /\ Deploys => Up'
<1>1. TypeOK /\ (pass.pc = "teardown" => ~row.live)
  BY DEF Inv, LatchInv, DeadInv
<1>2. row'.live => row.live
  BY <1>1, OnlyReplaceWrites, ReplaceFields DEF RowKept, TypeOK, Row
<1>3. QED
  BY <1>1, <1>2, OnlyDeployInstalls, DeployedSpec DEF Up

\* The pass gets past the deploy step by way of the deploy step only.
LEMMA PastDeployStep ==
  ASSUME TypeOK, StepInv, [Next]_vars, PastDeploy'
  PROVE  PastDeploy \/ Deploys
<1> USE DEF controllerVars, cluster
<1>t. pass \in PassType /\ IdlePass.pc = "idle" /\ Identity # Deployed
  BY StepBounds DEF TypeOK, PassType, IdlePass
<1>1. CASE pass' = pass
  BY <1>1 DEF PastDeploy
<1>2. CASE pass' = IdlePass
  BY <1>2, <1>t DEF PastDeploy
<1>3. CASE DoStep
  BY <1>3, <1>t DEF DoStep, At, Goto, PastDeploy, PassType, Deploys
<1>4. CASE CompleteStep
  BY <1>4, <1>t
     DEF CompleteStep, CompleteStepOf, At, StepInv, PastDeploy, PassType
<1>5. CASE StartPass
  BY <1>5, <1>t DEF StartPass, IdlePass, PastDeploy
<1>6. CASE ReconcileExistingClient \/ CheckTrust \/ InvalidConfig
           \/ WriteProvisioning \/ WriteFailed \/ Teardown
  BY <1>2, <1>6, <1>t
     DEF ReconcileExistingClient, CheckTrust, InvalidConfig,
         WriteProvisioning, WriteFailed, Teardown, Goto, PastDeploy, PassType
<1>7. CASE WriteInitConditions \/ BeginStep \/ FailStep
  BY <1>7, <1>t
     DEF WriteInitConditions, BeginStep, FailStep, Report, PastDeploy,
         PassType
<1>8. CASE At("healthy") \/ At("route") \/ At("ack") \/ At("wait")
  BY <1>8 DEF At, PastDeploy
<1>9. QED
  BY <1>1, <1>2, <1>3, <1>4, <1>5, <1>6, <1>7, <1>8
     DEF Next, ApiStep, Replace, CallFails, WriterStep, Rename,
         AuthorWorkload, Rebind, ChangeTrust, Delete, WatchStep, Deliver,
         Disconnect, Reconnect, Restart, PassStep, ReturnError,
         WriteHealthyInProgress, WriteRouteAddress,
         updateObservedGeneration, AwaitReady, WriteFinalPhase, HealthStep,
         HealthList, HealthWriteAddress, HealthObserve,
         PublishConsoleAddress, vars

LEMMA ShownStep ==
  ASSUME Inv, TypeOK', PlacedInv, ShownInv, [Next]_vars
  PROVE  ShownInv'
<1>t. TypeOK /\ StepInv
  BY DEF Inv
<1>1. (PastDeploy => Up)'
  BY <1>t, UpStaysUp, PastDeployStep DEF ShownInv
<1>2. CASE \E t \in Slot : Replace(t)
  <2>1. PICK t \in Slot : Replace(t)
    BY <1>2
  <2>2. /\ row'.phase = call[t].phase
        /\ \A s \in Slot : call'[s] \in {NoRow, call[s]}
    BY <2>1, <1>t, ReplaceFields
  <2>3. \A s \in Slot : Shown(call'[s].phase) => Shown(call[s].phase)
    BY <2>2, <1>t, Numbers DEF Shown
  <2>4. QED
    BY <1>1, <2>2, <2>3, UpStaysUp DEF ShownInv
<1>3. CASE ~\E t \in Slot : Replace(t)
  <2>1. row'.phase = row.phase
    BY <1>3, <1>t, OnlyReplaceWrites DEF RowKept, TypeOK, Row
  <2>2. ASSUME NEW s \in Slot, Shown(call'[s].phase)
        PROVE  Up
    <3>1. CASE call'[s] \in {NoRow, call[s]}
      BY <2>2, <3>1, <1>t, Numbers DEF ShownInv, Shown
    <3>2. CASE Fresh(s, call'[s])
      BY <2>2, <3>2 DEF Fresh, ShownInv, Up, PastDeploy
    <3>3. CASE s = "late" /\ call'[s] = call["pass"]
      BY <2>2, <3>3 DEF ShownInv, Slot
    <3>4. QED
      BY <1>3, <1>t, <3>1, <3>2, <3>3, SendsAreFresh DEF CallsFresh
  <2>3. QED
    BY <1>1, <2>1, <2>2, UpStaysUp DEF ShownInv
<1>4. QED
  BY <1>2, <1>3

LEMMA ShownInit == Init => ShownInv
<1> SUFFICES ASSUME Init
             PROVE  ShownInv
  OBVIOUS
<1>1. row.phase = "Pending" /\ \A s \in Slot : call[s].phase = "Pending"
  BY NoRowType DEF Init, NoRow, Row
<1>2. QED
  BY <1>1 DEF Init, ShownInv, Shown, PastDeploy, IdlePass

\* A live gateway shown Running or Degraded has a workload: the pass writes
\* these phases past the deploy step only, the health loop only when it has
\* seen the workload, and every other copy carries a phase the row has had.
THEOREM ShownGatewayExists == Spec => []ShownWorkloadExists
<1>1. Init => Inv /\ PlacedInv /\ ShownInv
  BY TypeInit, LatchInit, StableInit, ShownInit DEF Inv, StableInv
<1>2. Inv /\ PlacedInv /\ ShownInv /\ [Next]_vars
      => (Inv /\ PlacedInv /\ ShownInv)'
  <2> SUFFICES ASSUME Inv, PlacedInv, ShownInv, [Next]_vars
               PROVE  (Inv /\ PlacedInv /\ ShownInv)'
    OBVIOUS
  <2>1. Inv'
    BY TypeStep, LatchStep DEF Inv
  <2>2. PlacedInv' /\ ShownInv'
    BY <2>1, PlacedStep, ShownStep DEF Inv
  <2>3. QED
    BY <2>1, <2>2
<1>3. ShownInv => ShownWorkloadExists
  BY DEF ShownInv, Shown, Up, ShownWorkloadExists
<1>4. QED
  BY <1>1, <1>2, <1>3, PTL DEF Spec
----------------------------------------------------------------------------
(***************************************************************************)
(* No generation is left without a pass.                                   *)
(***************************************************************************)

\* With no event on its way, and none dropped for a failed read, the queue
\* holds what the row says now.
SyncInv ==
  ~RpcMayFail /\ online /\ ~notify /\ row.live /\ row.spec.placed
  => latest = PayloadOf(row)

\* A pass under way works with what the queue holds, unless the queue has
\* something newer to hand out.
SamePayload ==
  ~queued /\ latest # NoPayload /\ pass.pc # "idle" => pass.payload = latest

\* Nothing but a pass can still apply the row.
Settled == online /\ ~notify /\ ~queued /\ row.live /\ row.spec.placed

\* The stages of a pass that end with an acknowledgement or an error.
Applying ==
  {"init", "provisioning", "begin", "work", "written", "complete", "failed",
   "error", "healthy", "route", "ack"}

\* The acknowledgement of the row's generation is on its way and will be
\* accepted.
AckOnItsWay ==
  /\ pass.pc = "wait" /\ call["pass"] # NoRow
  /\ Accepted("pass", row, call["pass"])
  /\ NewGeneration(row, call["pass"]) <= MaxGeneration

ApplyingInv ==
  ~RpcMayFail /\ Settled /\ ~Converged(row)
  => pass.pc \in Applying \/ AckOnItsWay

WorkInv ==
  /\ SyncInv /\ SamePayload /\ ApplyingInv
  /\ row.generation <= MaxGeneration

LEMMA SyncStep ==
  ASSUME TypeOK, SyncInv, [Next]_vars
  PROVE  SyncInv'
<1> USE DEF controllerVars
<1>1. ASSUME NEW s \in Slot, Replace(s)
      PROVE  SyncInv'
  BY <1>1 DEF Replace, SyncInv, TypeOK
<1>2. CASE Delete
  BY <1>2 DEF Delete, SyncInv, TypeOK, Row
<1>3. CASE Deliver
  BY <1>3 DEF Deliver, SyncInv
<1>4. CASE Reconnect
  BY <1>4 DEF Reconnect, SyncInv
<1>5. CASE Disconnect \/ Restart
  BY <1>5 DEF Disconnect, Restart, SyncInv
<1>6. CASE UNCHANGED <<row, online, notify, latest>>
  BY <1>6 DEF SyncInv
<1>7. QED
  BY <1>1, <1>2, <1>3, <1>4, <1>5, <1>6
     DEF Next, ApiStep, CallFails, WriterStep, Rename, AuthorWorkload,
         Rebind, ChangeTrust, WatchStep, PassStep, StartPass,
         ReconcileExistingClient, CheckTrust, InvalidConfig,
         WriteInitConditions, WriteProvisioning, BeginStep, DoStep,
         CompleteStep, CompleteStepOf, FailStep, WriteFailed, ReturnError,
         WriteHealthyInProgress, WriteRouteAddress,
         updateObservedGeneration, AwaitReady, WriteFinalPhase, Teardown,
         HealthStep, HealthList, HealthWriteAddress, HealthObserve,
         PublishConsoleAddress, vars

\* What the queue holds and whether it hands it out changes with an event, a
\* seed, a restart, the start of a pass or its failure.
LEMMA QueueStep ==
  ASSUME [Next]_vars
  PROVE  \/ UNCHANGED <<latest, queued>>
         \/ Deliver \/ Reconnect \/ Restart \/ StartPass \/ ReturnError
  BY DEF Next, ApiStep, Replace, CallFails, WriterStep, Rename,
         AuthorWorkload, Rebind, ChangeTrust, Delete, WatchStep, Disconnect,
         PassStep, ReconcileExistingClient, CheckTrust, InvalidConfig,
         WriteInitConditions, WriteProvisioning, BeginStep, DoStep,
         CompleteStep, CompleteStepOf, FailStep, WriteFailed,
         WriteHealthyInProgress, WriteRouteAddress,
         updateObservedGeneration, AwaitReady, WriteFinalPhase, Teardown,
         HealthStep, HealthList, HealthWriteAddress, HealthObserve,
         PublishConsoleAddress, controllerVars, vars

LEMMA SamePayloadStep ==
  ASSUME TypeOK, SamePayload, [Next]_vars
  PROVE  SamePayload'
<1>1. CASE UNCHANGED <<latest, queued>> /\ ~StartPass
  BY <1>1, PayloadKept DEF SamePayload
<1>2. CASE Deliver
  BY <1>2 DEF Deliver, SamePayload
<1>3. CASE Reconnect
  BY <1>3 DEF Reconnect, SamePayload
<1>4. CASE Restart \/ ReturnError
  BY <1>4 DEF Restart, ReturnError, SamePayload, IdlePass
<1>5. CASE StartPass
  BY <1>5 DEF StartPass, SamePayload, IdlePass
<1>6. QED
  BY <1>1, <1>2, <1>3, <1>4, <1>5, QueueStep

\* A step of another party leaves the pass, its call and the queue alone.
Elsewhere ==
  UNCHANGED <<row, online, notify, latest, queued, pass>>
  /\ call'["pass"] = call["pass"]

\* A step of the pass on a row nobody has changed stays among the stages that
\* apply it, or sends its acknowledgement.
LEMMA ApplyingStep ==
  ASSUME Inv, WorkInv, PassStep, ~RpcMayFail, Settled, ~Converged(row),
         pass.pc \in Applying
  PROVE  (Settled => pass.pc \in Applying \/ AckOnItsWay)'
<1> USE DEF controllerVars
<1>t. /\ TypeOK /\ StepInv /\ pass \in PassType /\ row.generation >= 1
      /\ row \in Row /\ call \in [Slot -> Row] /\ "pass" \in Slot
  BY DEF Inv, TypeOK, PassType, LatchInv, SnapshotInv, Slot
<1>p. latest = PayloadOf(row) /\ latest # NoPayload
  BY DEF WorkInv, SyncInv, Settled, PayloadOf, NoPayload, NoRow, NoSpec
<1>1. CASE ReturnError
  BY <1>1, <1>p DEF ReturnError, Settled
<1>2. CASE updateObservedGeneration
  <2>1. pass.payload.generation = row.generation
    BY <1>2, <1>p DEF updateObservedGeneration, At, WorkInv, SamePayload,
                      Settled, PayloadOf
  <2> DEFINE copy == [row EXCEPT !.observed = row.generation]
  <2>2. row' = row /\ call'["pass"] = copy /\ pass'.pc = "wait"
    BY <1>2, <1>t, <2>1
       DEF updateObservedGeneration, Send, Goto, PassType, Settled
  <2>3. /\ copy # NoRow /\ copy.spec = row.spec
        /\ copy.observed = row.generation
    BY <1>t, Numbers DEF Row
  <2>4. NewGeneration(row, copy) = row.generation
    BY <2>3 DEF NewGeneration, desiredStateChanged
  <2>5. Accepted("pass", row, copy)
    BY <1>t, <2>3, <2>4, Numbers
       DEF Accepted, FieldPolicyAllows, ObservedInRange, Settled
  <2>6. AckOnItsWay'
    BY <2>2, <2>3, <2>4, <2>5 DEF AckOnItsWay, WorkInv
  <2>7. QED
    BY <2>6
<1>3. CASE pass'.pc \in Applying
  BY <1>3
<1>4. CASE StartPass
  BY <1>4 DEF StartPass, Settled
<1>5. CASE InvalidConfig \/ WriteProvisioning \/ WriteFailed
           \/ WriteRouteAddress
  BY <1>3, <1>5, <1>t
     DEF InvalidConfig, WriteProvisioning, WriteFailed, WriteRouteAddress,
         Goto, PassType, Applying
<1>6. CASE WriteInitConditions \/ BeginStep \/ FailStep
           \/ WriteHealthyInProgress
  BY <1>3, <1>6, <1>t
     DEF WriteInitConditions, BeginStep, FailStep, WriteHealthyInProgress,
         Report, PassType, Applying
<1>7. CASE DoStep \/ CompleteStep
  BY <1>3, <1>7, <1>t
     DEF DoStep, CompleteStep, CompleteStepOf, Goto, PassType, Applying
<1>8. QED
  BY <1>1, <1>2, <1>4, <1>5, <1>6, <1>7
     DEF PassStep, ReconcileExistingClient, CheckTrust, AwaitReady,
         WriteFinalPhase, Teardown, At, Applying

LEMMA ApplyingInvStep ==
  ASSUME Inv, TypeOK', WorkInv, [Next]_vars
  PROVE  ApplyingInv'
<1> SUFFICES ASSUME ~RpcMayFail, Settled', ~Converged(row)'
             PROVE  pass'.pc \in Applying \/ AckOnItsWay'
  BY DEF ApplyingInv
<1> USE DEF controllerVars
<1>t. /\ TypeOK /\ call \in [Slot -> Row] /\ "pass" \in Slot
  BY DEF Inv, TypeOK, Slot
<1>1. ASSUME NEW s \in Slot, Replace(s)
      PROVE  FALSE
  BY <1>1 DEF Replace, Settled, TypeOK
<1>2. CASE Elsewhere
  <2>1. Settled /\ ~Converged(row)
    BY <1>2 DEF Elsewhere, Settled, Converged
  <2>2. QED
    BY <1>2, <2>1 DEF Elsewhere, WorkInv, ApplyingInv, AckOnItsWay
<1>3. ASSUME NEW s \in Slot, CallFails(s)
      PROVE  pass'.pc \in Applying \/ AckOnItsWay'
  <2>1. Settled /\ ~Converged(row) /\ pass' = pass
    BY <1>3 DEF CallFails, Settled, Converged
  <2>2. CASE s = "pass"
    <3>1. NewGeneration(row, call["pass"]) \in Nat /\ MaxGeneration \in Nat
      BY <1>t, Numbers, BoundsAssumption DEF NewGeneration
    <3>2. ~AckOnItsWay
      BY <1>3, <2>2, <3>1 DEF CallFails, AckOnItsWay
    <3>3. QED
      BY <2>1, <3>2 DEF WorkInv, ApplyingInv
  <2>3. CASE s # "pass"
    BY <1>2, <1>3, <1>t, <2>3 DEF CallFails, Elsewhere
  <2>4. QED
    BY <2>2, <2>3
<1>4. CASE Delete
  BY <1>4, <1>t DEF Delete, Settled, TypeOK, Row
<1>5. CASE Deliver
  BY <1>5 DEF Deliver, Settled
<1>6. CASE Reconnect
  BY <1>6 DEF Reconnect, Settled
<1>7. CASE Disconnect \/ Restart
  BY <1>7 DEF Disconnect, Restart, Settled
<1>8. CASE StartPass
  <2>1. row.live /\ row.spec.placed /\ online /\ ~notify /\ ~Converged(row)
    BY <1>8 DEF StartPass, Settled, Converged
  <2>2. latest.live /\ ~Converged(latest)
    BY <2>1 DEF WorkInv, SyncInv, PayloadOf, Converged
  <2>3. QED
    BY <1>8, <2>2 DEF StartPass, IdlePass, Applying
<1>9. CASE PassStep /\ ~StartPass
  <2>1. row' = row /\ online' = online /\ notify' = notify
    BY <1>9
       DEF PassStep, ReconcileExistingClient, CheckTrust, InvalidConfig,
           WriteInitConditions, WriteProvisioning, BeginStep, DoStep,
           CompleteStep, CompleteStepOf, FailStep, WriteFailed, ReturnError,
           WriteHealthyInProgress, WriteRouteAddress,
           updateObservedGeneration, AwaitReady, WriteFinalPhase, Teardown
  <2>2. CASE queued
    <3>1. CASE ReturnError
      <4>1. latest' = PayloadOf(row') /\ latest' = latest
        BY <3>1, <2>1 DEF ReturnError, WorkInv, SyncInv, Settled
      <4>2. latest # NoPayload
        BY <4>1 DEF Settled, PayloadOf, NoPayload, NoRow, NoSpec
      <4>3. QED
        BY <3>1, <4>2 DEF ReturnError, Settled
    <3>2. CASE queued' = queued
      BY <2>2, <3>2 DEF Settled
    <3>3. QED
      BY <1>9, <3>1, <3>2
         DEF PassStep, ReconcileExistingClient, CheckTrust, InvalidConfig,
             WriteInitConditions, WriteProvisioning, BeginStep, DoStep,
             CompleteStep, CompleteStepOf, FailStep, WriteFailed,
             WriteHealthyInProgress, WriteRouteAddress,
             updateObservedGeneration, AwaitReady, WriteFinalPhase, Teardown
  <2>3. CASE ~queued
    <3>1. Settled /\ ~Converged(row)
      BY <2>1, <2>3 DEF Settled, Converged
    <3>2. ~(pass.pc = "wait" /\ call["pass"] # NoRow)
      BY <1>9
         DEF PassStep, ReconcileExistingClient, CheckTrust, InvalidConfig,
             WriteInitConditions, WriteProvisioning, BeginStep, DoStep,
             CompleteStep, CompleteStepOf, FailStep, WriteFailed,
             ReturnError, WriteHealthyInProgress, WriteRouteAddress,
             updateObservedGeneration, AwaitReady, WriteFinalPhase,
             Teardown, At
    <3>3. pass.pc \in Applying
      BY <3>1, <3>2 DEF WorkInv, ApplyingInv, AckOnItsWay
    <3>4. QED
      BY <1>9, <3>1, <3>3, ApplyingStep
  <2>4. QED
    BY <2>2, <2>3
<1>10. CASE Rename \/ AuthorWorkload \/ Rebind
  BY <1>2, <1>10, <1>t
     DEF Rename, AuthorWorkload, Rebind, Send, Elsewhere, Slot
<1>11. CASE HealthStep \/ PublishConsoleAddress
  BY <1>2, <1>11, <1>t
     DEF HealthStep, HealthList, HealthWriteAddress, HealthObserve,
         HealthUpdate, PublishConsoleAddress, Send, Elsewhere, Slot
<1>12. CASE ChangeTrust \/ UNCHANGED vars
  BY <1>2, <1>12 DEF ChangeTrust, Elsewhere, vars
<1>13. QED
  BY <1>1, <1>3, <1>4, <1>5, <1>6, <1>7, <1>8, <1>9, <1>10, <1>11, <1>12
     DEF Next, ApiStep, WriterStep, WatchStep

\* A placed gateway that is not converged always has a pass under way or on
\* its way, as long as no call is lost.
THEOREM NoGenerationStranded == Spec => []NoStrandedGeneration
<1>1. Init => Inv /\ WorkInv
  <2> SUFFICES ASSUME Init
               PROVE  Inv /\ WorkInv
    OBVIOUS
  <2>1. row.generation = 1 /\ notify /\ pass.pc = "idle"
    BY NoRowType DEF Init, NoRow, Row, IdlePass
  <2>2. 1 <= MaxGeneration
    BY BoundsAssumption
  <2>3. QED
    BY <2>1, <2>2, TypeInit, LatchInit
       DEF Inv, WorkInv, SyncInv, SamePayload, ApplyingInv, Settled
<1>2. Inv /\ WorkInv /\ [Next]_vars => (Inv /\ WorkInv)'
  <2> SUFFICES ASSUME Inv, WorkInv, [Next]_vars
               PROVE  (Inv /\ WorkInv)'
    OBVIOUS
  <2>1. Inv'
    BY TypeStep, LatchStep DEF Inv
  <2>2. SyncInv' /\ SamePayload' /\ ApplyingInv'
    BY <2>1, SyncStep, SamePayloadStep, ApplyingInvStep DEF Inv, WorkInv
  <2>3. row'.generation <= MaxGeneration
    <3>1. CASE \E s \in Slot : Replace(s)
      BY <3>1, ReplaceFields DEF Inv
    <3>2. CASE ~\E s \in Slot : Replace(s)
      BY <3>2, OnlyReplaceWrites DEF RowKept, Inv, TypeOK, Row, WorkInv
    <3>3. QED
      BY <3>1, <3>2
  <2>4. QED
    BY <2>1, <2>2, <2>3 DEF WorkInv
<1>3. WorkInv => NoStrandedGeneration
  BY DEF WorkInv, ApplyingInv, Settled, AckOnItsWay, Applying, PassQuiet,
         NoStrandedGeneration
<1>4. QED
  BY <1>1, <1>2, <1>3, PTL DEF Spec
----------------------------------------------------------------------------
(***************************************************************************)
(* A deleted gateway is torn down.                                         *)
(***************************************************************************)

\* The controller keeps its stream and its memory, and no event is dropped.
Watching == ~StreamMayBreak /\ RestartUntil = 0 /\ ~RpcMayFail

\* What the queue holds is the deletion of the gateway.
DeleteHeld == latest # NoPayload /\ ~latest.live

DeletionInv ==
  /\ online
  /\ ~row.live /\ row.spec.placed => notify \/ DeleteHeld
  /\ DeleteHeld /\ ~queued
     => \/ pass.pc \in {"teardown", "error"}
        \/ pass.pc = "idle" /\ applied = NoSpec

LEMMA StaysOnline ==
  ASSUME TypeOK, Watching, online, [Next]_vars
  PROVE  online' /\ ~Restart
<1> USE DEF controllerVars
<1>1. ~Disconnect /\ ~Restart
  BY Numbers DEF Watching, Disconnect, Restart
<1>2. QED
  BY <1>1
     DEF Next, ApiStep, Replace, CallFails, WriterStep, Rename,
         AuthorWorkload, Rebind, ChangeTrust, Delete, WatchStep, Deliver,
         Reconnect, PassStep, StartPass, ReconcileExistingClient,
         CheckTrust, InvalidConfig, WriteInitConditions, WriteProvisioning,
         BeginStep, DoStep, CompleteStep, CompleteStepOf, FailStep,
         WriteFailed, ReturnError, WriteHealthyInProgress,
         WriteRouteAddress, updateObservedGeneration, AwaitReady,
         WriteFinalPhase, Teardown, HealthStep, HealthList,
         HealthWriteAddress, HealthObserve, PublishConsoleAddress, vars

\* The delete event, or what it put into the queue, is not lost.
LEMMA DeletionIsHeld ==
  ASSUME TypeOK, TypeOK', Watching, DeletionInv, [Next]_vars
  PROVE  (~row.live /\ row.spec.placed => notify \/ DeleteHeld)'
<1> USE DEF controllerVars
<1>o. online /\ online' /\ ~Restart
  BY StaysOnline DEF DeletionInv
<1>1. CASE (\E s \in Slot : Replace(s)) \/ Delete
  BY <1>1, <1>o DEF Replace, Delete
<1>2. CASE Deliver
  BY <1>2
     DEF Deliver, Watching, DeleteHeld, PayloadOf, NoPayload, NoRow, NoSpec
<1>3. CASE UNCHANGED <<row, notify, latest>>
  BY <1>3 DEF DeletionInv, DeleteHeld
<1>4. QED
  BY <1>o, <1>1, <1>2, <1>3
     DEF Next, ApiStep, CallFails, WriterStep, Rename, AuthorWorkload,
         Rebind, ChangeTrust, WatchStep, Disconnect, Reconnect, PassStep,
         StartPass, ReconcileExistingClient, CheckTrust, InvalidConfig,
         WriteInitConditions, WriteProvisioning, BeginStep, DoStep,
         CompleteStep, CompleteStepOf, FailStep, WriteFailed, ReturnError,
         WriteHealthyInProgress, WriteRouteAddress,
         updateObservedGeneration, AwaitReady, WriteFinalPhase, Teardown,
         HealthStep, HealthList, HealthWriteAddress, HealthObserve,
         PublishConsoleAddress, vars

\* A deletion that has left the queue is in a teardown, on its way back into
\* the queue, or done.
LEMMA DeletionIsDone ==
  ASSUME TypeOK, Watching, DeletionInv, [Next]_vars
  PROVE  (DeleteHeld /\ ~queued
          => \/ pass.pc \in {"teardown", "error"}
             \/ pass.pc = "idle" /\ applied = NoSpec)'
<1> USE DEF controllerVars, cluster
<1> SUFFICES ASSUME DeleteHeld', ~queued'
             PROVE  \/ pass'.pc \in {"teardown", "error"}
                    \/ pass'.pc = "idle" /\ applied' = NoSpec
  OBVIOUS
<1>o. online /\ ~Restart
  BY StaysOnline DEF DeletionInv
<1>t. pass \in PassType /\ IdlePass.pc = "idle"
  BY DEF TypeOK, PassType, IdlePass
<1>1. CASE Deliver
  <2>1. DeleteHeld /\ ~queued /\ UNCHANGED <<pass, applied>>
    BY <1>1 DEF Deliver, DeleteHeld
  <2>2. QED
    BY <2>1 DEF DeletionInv
<1>2. CASE StartPass
  BY <1>2 DEF StartPass, IdlePass, DeleteHeld
<1>3. CASE ReturnError
  BY <1>3 DEF ReturnError, DeleteHeld
<1>4. CASE UNCHANGED <<latest, queued>> /\ ~StartPass /\ ~ReturnError
  <2>1. \/ pass.pc \in {"teardown", "error"}
        \/ pass.pc = "idle" /\ applied = NoSpec
    BY <1>4 DEF DeletionInv, DeleteHeld
  <2>2. CASE Teardown
    BY <2>2, <1>t DEF Teardown, Goto, PassType
  <2>3. CASE UNCHANGED <<pass, applied>>
    BY <2>1, <2>3
  <2>4. ~PassStep \/ Teardown
    BY <1>4, <2>1
       DEF PassStep, ReconcileExistingClient, CheckTrust, InvalidConfig,
           WriteInitConditions, WriteProvisioning, BeginStep, DoStep,
           CompleteStep, CompleteStepOf, FailStep, WriteFailed,
           WriteHealthyInProgress, WriteRouteAddress,
           updateObservedGeneration, AwaitReady, WriteFinalPhase, At
  <2>5. QED
    BY <1>o, <2>2, <2>3, <2>4
       DEF Next, ApiStep, Replace, CallFails, WriterStep, Rename,
           AuthorWorkload, Rebind, ChangeTrust, Delete, WatchStep, Deliver,
           Disconnect, Reconnect, HealthStep, HealthList,
           HealthWriteAddress, HealthObserve, PublishConsoleAddress, vars
<1>5. CASE Reconnect
  BY <1>o, <1>5 DEF Reconnect
<1>6. QED
  BY <1>o, <1>1, <1>2, <1>3, <1>4, <1>5, QueueStep

\* A deleted gateway that has a cluster is torn down once the queue has
\* nothing left for it, when the controller kept its stream and its memory and
\* no call failed: the delete event reads the row it is about, a failed
\* teardown goes back into the queue, and no pass of an older payload follows
\* a teardown.
THEOREM DeletedIsTornDown == Spec => []DeletionCompletes
<1>1. CASE ~Watching
  <2>1. DeletionCompletes
    BY <1>1 DEF DeletionCompletes, Watching
  <2>2. QED
    BY <2>1, PTL
<1>2. CASE Watching
  <2>1. Init => DeletionInv
    BY NoRowType, PayloadType DEF Init, DeletionInv, DeleteHeld
  <2>2. TypeOK /\ TypeOK' /\ DeletionInv /\ [Next]_vars => DeletionInv'
    BY <1>2, StaysOnline, DeletionIsHeld, DeletionIsDone DEF DeletionInv
  <2>3. DeletionInv => DeletionCompletes
    BY DEF DeletionInv, DeleteHeld, DeletionCompletes, PassQuiet
  <2>4. QED
    BY <2>1, <2>2, <2>3, TypeCorrect, PTL DEF Spec
<1>3. QED
  BY <1>1, <1>2
=============================================================================
