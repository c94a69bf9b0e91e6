---------------------- MODULE GatewayConvergenceProofs ----------------------
(***************************************************************************)
(* Type correctness and soundness of the convergence latch, for any        *)
(* images, names, number of steps and bounds, with every failure the model *)
(* has switched on or off.                                                 *)
(***************************************************************************)
EXTENDS GatewayConvergence, TLAPS

(***************************************************************************)
(* The inductive invariant.                                                *)
(***************************************************************************)

\* The pass works on the steps before the last; the step that wrote the
\* identity configuration is the identity step.
StepInv ==
  /\ pass.pc \in {"gate", "trust", "init", "provisioning"} => pass.step = 1
  /\ pass.pc \in {"begin", "work", "complete"} => pass.step \in 1 .. Deployed
  /\ pass.pc = "written" => pass.step = Identity
  /\ pass.pc = "complete" => pass.step # Identity

\* A snapshot of the row: generations only grow, and one generation has one
\* desired state.
SnapshotOf(p) ==
  /\ p.generation <= row.generation
  /\ p.generation = row.generation => p.spec = row.spec

\* Acknowledging generation g now would be right.
Earned(g) ==
  /\ g <= row.generation
  /\ row.live /\ g = row.generation => applied = row.spec

\* No acknowledgement, made or in flight, is newer than p.
Covers(p) ==
  /\ row.observed <= p.generation
  /\ \A s \in Slot : call[s] # NoRow => call[s].observed <= p.generation

\* The pass has installed the release and not yet acknowledged it.
Installed ==
  \/ pass.pc = "complete" /\ pass.step = Deployed
  \/ pass.pc \in {"healthy", "route", "ack"}

\* Past the identity step, the row has the identity configuration unless its
\* generation has moved on.
IdentityKept == pass.payload.generation = row.generation => row.spec.oidc

IdentityInv ==
  Identity > 0 =>
    /\ pass.pc = "written" =>
         \/ call["pass"] # NoRow /\ call["pass"].spec.oidc
         \/ call["pass"] = NoRow /\ (refused \/ IdentityKept)
    /\ pass.pc # "idle" /\ pass.step > Identity => IdentityKept

SnapshotInv ==
  /\ row.generation >= 1
  /\ SnapshotOf(latest)
  /\ SnapshotOf(pass.payload)
  /\ latest # NoPayload => Covers(latest)
  /\ pass.pc # "idle" => Covers(pass.payload)
  /\ pass.pc # "idle" /\ latest # NoPayload
     => pass.payload.generation <= latest.generation

CallInv ==
  \A s \in Slot :
    call[s] # NoRow => \/ call[s].observed <= row.observed
                       \/ Earned(call[s].observed)

DeadInv ==
  /\ latest # NoPayload /\ ~latest.live => ~row.live
  /\ pass.pc = "teardown" => ~row.live

LatchInv ==
  /\ SnapshotInv /\ CallInv /\ DeadInv /\ IdentityInv /\ LatchSound
  /\ Installed => Earned(pass.payload.generation)

Inv == TypeOK /\ StepInv /\ LatchInv

----------------------------------------------------------------------------
(***************************************************************************)
(* Types.                                                                  *)
(***************************************************************************)

PassType ==
  [pc : PassPc, step : Step, payload : Payload, conds : Conditions]

\* Deployed is a step, and the identity step comes before it.
LEMMA StepBounds ==
  /\ NumSteps \in Int /\ Identity \in Int
  /\ 1 \in Step /\ Deployed \in Step /\ Healthy \in Step
  /\ Identity < Deployed
  BY StepsAssumption DEF Step, Deployed, Healthy

\* The "no row" value is a row that was never stored.
LEMMA NoRowType ==
  /\ NoRow \in Row /\ NoRow.generation = 0
  /\ NoSpec \in Desired /\ NoConditions \in Conditions
<1>1. FirstImage \in Images
  BY BoundsAssumption DEF FirstImage
<1>2. NoSpec \in Desired
  BY <1>1 DEF NoSpec, Desired
<1>3. NoConditions \in Conditions
  BY DEF NoConditions, Conditions, Status
<1>4. (CHOOSE n \in Names : TRUE) \in Names
  BY BoundsAssumption
<1>5. QED
  BY <1>2, <1>3, <1>4 DEF NoRow, Row, Phase

\* A payload copies fields of a row, so it has their types.
LEMMA PayloadType ==
  /\ \A gw \in Row : PayloadOf(gw) \in Payload
  /\ NoPayload \in Payload /\ NoPayload.generation = 0
<1>1. \A gw \in Row : PayloadOf(gw) \in Payload
  BY DEF PayloadOf, Payload, Row
<1>2. QED
  BY <1>1, NoRowType DEF NoPayload, PayloadOf

LEMMA IdleTypes ==
  /\ IdlePass \in PassType
  /\ IdleHealth \in [pc : {"idle", "listed", "observe"}, phase : Phase,
                     conditions : Conditions]
<1>1. IdlePass \in PassType
  BY NoRowType, PayloadType, StepBounds DEF IdlePass, PassType, PassPc
<1>2. QED
  BY <1>1, NoRowType DEF IdleHealth, Phase

\* Every patch a handler makes on its copy yields a row, and one that is not
\* the "no row" value when the row it read was stored.
LEMMA CopyTypes ==
  ASSUME NEW r \in Row
  PROVE  /\ \A n \in Names : [r EXCEPT !.name = n] \in Row
         /\ \A ph \in Phase : [r EXCEPT !.phase = ph] \in Row
         /\ \A cs \in Conditions : [r EXCEPT !.conditions = cs] \in Row
         /\ \A ph \in Phase, cs \in Conditions :
              [r EXCEPT !.phase = ph, !.conditions = cs] \in Row
         /\ \A g \in Nat : [r EXCEPT !.observed = g] \in Row
         /\ \A i \in Images : [r EXCEPT !.spec.image = i] \in Row
         /\ [r EXCEPT !.spec.placed = TRUE] \in Row
         /\ [r EXCEPT !.spec.oidc = TRUE] \in Row
         /\ [r EXCEPT !.live = FALSE] \in Row
  BY DEF Row, Desired

\* Send stores the copy it is given, in its own slot.
LEMMA SendTypes ==
  ASSUME TypeOK, NEW s \in Slot, NEW copy \in Row, Send(s, copy)
  PROVE  call' \in [Slot -> Row] /\ refused' \in BOOLEAN
  BY DEF TypeOK, Send

\* Replace saves a row whose acknowledgement is not ahead of its generation.
LEMMA StoredTypes ==
  ASSUME TypeOK, NEW s \in Slot, NEW copy \in Row, Accepted(s, row, copy)
  PROVE  /\ Stored(row, copy) \in Row
         /\ Stored(row, copy).observed <= Stored(row, copy).generation
<1>1. NewGeneration(row, copy) \in Nat
  BY DEF TypeOK, Row, NewGeneration
<1>2. copy.observed <= NewGeneration(row, copy)
  BY DEF TypeOK, Row, Accepted, ObservedInRange, NewGeneration
<1>3. mergeMonotonicProvisioningConditions(row.conditions, copy.conditions)
        \in Conditions
  BY DEF TypeOK, Row, Conditions, mergeMonotonicProvisioningConditions,
         pickProvisioningCondition
<1>4. QED
  BY <1>1, <1>2, <1>3, NoRowType DEF Stored, Row

\* Every step keeps the types and the pass inside its steps.
LEMMA TypeStep ==
  TypeOK /\ StepInv /\ [Next]_vars => TypeOK' /\ StepInv'
<1> SUFFICES ASSUME TypeOK, StepInv, [Next]_vars
             PROVE  TypeOK' /\ StepInv'
  OBVIOUS
<1> USE DEF controllerVars, cluster
<1>r. row \in Row /\ call \in [Slot -> Row] /\ pass \in PassType
  BY DEF TypeOK, PassType
<1>1. ASSUME NEW s \in Slot, Replace(s)
      PROVE  TypeOK' /\ StepInv'
  <2>1. row' \in Row /\ row'.observed <= row'.generation
    BY <1>1, <1>r, StoredTypes DEF Replace
  <2>2. call' \in [Slot -> Row]
    BY <1>1, <1>r, NoRowType DEF Replace
  <2>3. /\ notify' \in BOOLEAN /\ refused' \in BOOLEAN
        /\ UNCHANGED <<applied, trusted, online, latest, queued, forced, poller, pass, health>>
    BY <1>1 DEF Replace, TypeOK
  <2>4. TypeOK'
    BY <2>1, <2>2, <2>3 DEF TypeOK
  <2>5. StepInv'
    BY <2>3 DEF StepInv
  <2>6. QED
    BY <2>4, <2>5
<1>2. ASSUME NEW s \in Slot, CallFails(s)
      PROVE  TypeOK' /\ StepInv'
  BY <1>2, <1>r, NoRowType DEF CallFails, TypeOK, StepInv
<1>3. CASE Rename
  <2>1. PICK n \in Names : Send("user", [row EXCEPT !.name = n])
    BY <1>3 DEF Rename
  <2>2. call' \in [Slot -> Row] /\ refused' \in BOOLEAN
    BY <2>1, <1>r, CopyTypes, SendTypes DEF Slot
  <2>3. QED
    BY <1>3, <2>2 DEF Rename, TypeOK, StepInv
<1>4. CASE AuthorWorkload
  <2>1. PICK i \in Images : Send("author", [row EXCEPT !.spec.image = i])
    BY <1>4 DEF AuthorWorkload
  <2>2. call' \in [Slot -> Row] /\ refused' \in BOOLEAN
    BY <2>1, <1>r, CopyTypes, SendTypes DEF Slot
  <2>3. QED
    BY <1>4, <2>2 DEF AuthorWorkload, TypeOK, StepInv
<1>5. CASE Rebind
  <2>1. call' \in [Slot -> Row] /\ refused' \in BOOLEAN
    BY <1>5, <1>r, CopyTypes, SendTypes DEF Rebind, Slot
  <2>2. QED
    BY <1>5, <2>1 DEF Rebind, TypeOK, StepInv
<1>6. CASE ChangeTrust
  BY <1>6 DEF ChangeTrust, TypeOK, StepInv
<1>7. CASE Delete
  <2>1. row' \in Row /\ row'.observed <= row'.generation
    BY <1>7, <1>r, CopyTypes DEF Delete, TypeOK, Row
  <2>2. QED
    BY <1>7, <2>1 DEF Delete, TypeOK, StepInv
<1>8. CASE Deliver
  BY <1>8, <1>r, PayloadType DEF Deliver, TypeOK, StepInv
<1>9. CASE Disconnect
  BY <1>9 DEF Disconnect, TypeOK, StepInv
<1>10. CASE Reconnect
  <2>1. latest' \in Payload /\ queued' \in BOOLEAN /\ forced' \in BOOLEAN
    BY <1>10, <1>r, PayloadType DEF Reconnect, TypeOK, forceSeedRecovery
  <2>2. QED
    BY <1>10, <2>1 DEF Reconnect, TypeOK, StepInv
<1>11. CASE Restart
  <2>1. call' \in [Slot -> Row]
    BY <1>11, <1>r, NoRowType DEF Restart, Slot
  <2>2. QED
    BY <1>11, <2>1, IdleTypes, PayloadType
       DEF Restart, TypeOK, StepInv, PassType, IdlePass
<1>12. CASE StartPass
  <2>1. pass' \in PassType
    BY <1>12, <1>r, IdleTypes
       DEF StartPass, TypeOK, PassType, IdlePass, PassPc
  <2>2. pass'.step = 1
         /\ pass'.pc \in {"teardown", "init", "gate", "trust"}
    BY <1>12 DEF StartPass, IdlePass
  <2>3. QED
    BY <1>12, <2>1, <2>2 DEF StartPass, TypeOK, StepInv, PassType
<1>13. CASE ReconcileExistingClient
  <2>1. call' \in [Slot -> Row] /\ refused' \in BOOLEAN
    BY <1>13, <1>r, SendTypes DEF ReconcileExistingClient, Slot, TypeOK
  <2>2. pass' \in PassType /\ StepInv'
    BY <1>13, <1>r
       DEF ReconcileExistingClient, At, Goto, PassType, PassPc, StepInv
  <2>3. QED
    BY <1>13, <2>1, <2>2 DEF ReconcileExistingClient, TypeOK, PassType
<1>14. CASE CheckTrust
  <2>1. pass' \in PassType /\ StepInv'
    BY <1>14, <1>r, IdleTypes
       DEF CheckTrust, At, Goto, PassType, PassPc, StepInv, IdlePass
  <2>2. QED
    BY <1>14, <2>1 DEF CheckTrust, TypeOK, PassType
<1>15. CASE InvalidConfig
  <2>1. pass' \in PassType /\ StepInv'
    BY <1>15, <1>r DEF InvalidConfig, At, Goto, PassType, PassPc, StepInv
  <2>2. QED
    BY <1>15, <2>1 DEF InvalidConfig, TypeOK, PassType
<1>c. \A st \in Status : [pass.conds EXCEPT ![pass.step] = st] \in Conditions
  BY <1>r DEF PassType, Conditions
<1>16. CASE WriteInitConditions
  <2>1. InitConditions \in Conditions
    BY DEF InitConditions, Conditions, Status
  <2>2. call' \in [Slot -> Row] /\ refused' \in BOOLEAN
    BY <1>16, <1>r, <2>1, CopyTypes, SendTypes DEF WriteInitConditions, Slot
  <2>3. pass' \in PassType /\ StepInv'
    BY <1>16, <1>r, <2>1
       DEF WriteInitConditions, At, PassType, PassPc, StepInv
  <2>4. QED
    BY <1>16, <2>2, <2>3 DEF WriteInitConditions, TypeOK, PassType
<1>17. CASE WriteProvisioning
  <2>1. call' \in [Slot -> Row] /\ refused' \in BOOLEAN
    BY <1>17, <1>r, CopyTypes, SendTypes
       DEF WriteProvisioning, WritePhase, Slot, Phase
  <2>2. pass' \in PassType /\ StepInv'
    BY <1>17, <1>r, StepBounds
       DEF WriteProvisioning, At, Goto, PassType, PassPc, StepInv, Step
  <2>3. QED
    BY <1>17, <2>1, <2>2 DEF WriteProvisioning, TypeOK, PassType
<1>18. CASE BeginStep
  <2>1. call' \in [Slot -> Row] /\ refused' \in BOOLEAN
    BY <1>18, <1>r, <1>c, CopyTypes, SendTypes
       DEF BeginStep, Report, Slot, Status
  <2>2. pass' \in PassType /\ StepInv'
    BY <1>18, <1>r, <1>c, StepBounds
       DEF BeginStep, Report, At, PassType, PassPc, StepInv, Status
  <2>3. QED
    BY <1>18, <2>1, <2>2 DEF BeginStep, TypeOK, PassType
<1>19. CASE DoStep
  <2>1. call' \in [Slot -> Row] /\ refused' \in BOOLEAN
    BY <1>19, <1>r, CopyTypes, SendTypes DEF DoStep, Slot, TypeOK
  <2>2. pass' \in PassType /\ StepInv'
    BY <1>19, <1>r, StepBounds
       DEF DoStep, At, Goto, PassType, PassPc, StepInv
  <2>3. applied' \in Desired /\ trusted' \in BOOLEAN
    BY <1>19, <1>r
       DEF DoStep, Deploy, Effective, TypeOK, PassType, Payload, Desired
  <2>4. QED
    BY <1>19, <2>1, <2>2, <2>3 DEF DoStep, TypeOK, PassType
<1>20. CASE CompleteStep
  <2>1. call' \in [Slot -> Row] /\ refused' \in BOOLEAN
    BY <1>20, <1>r, <1>c, CopyTypes, SendTypes
       DEF CompleteStep, CompleteStepOf, Slot, Status
  <2>2. pass.step \in 1 .. Deployed
    BY <1>20, <1>r, StepBounds
       DEF CompleteStep, CompleteStepOf, At, StepInv, PassType, Step,
           Deployed
  <2>3. pass.step + 1 \in Step
    BY <2>2, StepBounds DEF Step, Deployed
  <2>4. pass' \in PassType
    BY <1>20, <1>r, <1>c, <2>3
       DEF CompleteStep, CompleteStepOf, PassType, PassPc, Status
  <2>5. StepInv'
    BY <1>20, <1>r, <2>2, StepBounds
       DEF CompleteStep, CompleteStepOf, PassType, StepInv, Step
  <2>6. QED
    BY <1>20, <2>1, <2>4, <2>5
       DEF CompleteStep, CompleteStepOf, TypeOK, PassType
<1>21. CASE FailStep
  <2>1. call' \in [Slot -> Row] /\ refused' \in BOOLEAN
    BY <1>21, <1>r, <1>c, CopyTypes, SendTypes
       DEF FailStep, Report, Slot, Status
  <2>2. pass' \in PassType /\ StepInv'
    BY <1>21, <1>r, <1>c
       DEF FailStep, Report, PassType, PassPc, StepInv, Status
  <2>3. applied' \in Desired /\ trusted' \in BOOLEAN
    BY <1>21, <1>r
       DEF FailStep, Deploy, Effective, TypeOK, PassType, Payload, Desired
  <2>4. QED
    BY <1>21, <2>1, <2>2, <2>3 DEF FailStep, TypeOK, PassType
<1>22. CASE WriteFailed
  <2>1. call' \in [Slot -> Row] /\ refused' \in BOOLEAN
    BY <1>22, <1>r, CopyTypes, SendTypes
       DEF WriteFailed, WritePhase, Slot, Phase
  <2>2. pass' \in PassType /\ StepInv'
    BY <1>22, <1>r DEF WriteFailed, Goto, PassType, PassPc, StepInv
  <2>3. QED
    BY <1>22, <2>1, <2>2 DEF WriteFailed, TypeOK, PassType
<1>23. CASE ReturnError
  BY <1>23, IdleTypes DEF ReturnError, TypeOK, StepInv, PassType, IdlePass
<1>24. CASE WriteHealthyInProgress
  <2>1. call' \in [Slot -> Row] /\ refused' \in BOOLEAN
    BY <1>24, <1>r, <1>c, CopyTypes, SendTypes
       DEF WriteHealthyInProgress, Report, Slot, Status
  <2>2. pass' \in PassType /\ StepInv'
    BY <1>24, <1>r, <1>c
       DEF WriteHealthyInProgress, Report, PassType, PassPc, StepInv, Status
  <2>3. QED
    BY <1>24, <2>1, <2>2 DEF WriteHealthyInProgress, TypeOK, PassType
<1>25. CASE WriteRouteAddress
  <2>1. call' \in [Slot -> Row] /\ refused' \in BOOLEAN
    BY <1>25, <1>r, SendTypes DEF WriteRouteAddress, Slot, TypeOK
  <2>2. pass' \in PassType /\ StepInv'
    BY <1>25, <1>r DEF WriteRouteAddress, Goto, PassType, PassPc, StepInv
  <2>3. QED
    BY <1>25, <2>1, <2>2 DEF WriteRouteAddress, TypeOK, PassType
<1>26. CASE updateObservedGeneration
  <2>1. pass.payload.generation \in Nat
    BY <1>r DEF PassType, Payload
  <2>2. call' \in [Slot -> Row] /\ refused' \in BOOLEAN
    BY <1>26, <1>r, <2>1, CopyTypes, SendTypes
       DEF updateObservedGeneration, Slot
  <2>3. pass' \in PassType /\ StepInv'
    BY <1>26, <1>r
       DEF updateObservedGeneration, Goto, PassType, PassPc, StepInv
  <2>4. QED
    BY <1>26, <2>2, <2>3 DEF updateObservedGeneration, TypeOK, PassType
<1>27. CASE AwaitReady
  <2>1. call' \in [Slot -> Row] /\ refused' \in BOOLEAN
    BY <1>27, <1>r, <1>c, CopyTypes, SendTypes
       DEF AwaitReady, Report, Slot, Status, TypeOK
  <2>2. pass' \in PassType /\ StepInv'
    BY <1>27, <1>r, <1>c
       DEF AwaitReady, Report, Goto, PassType, PassPc, StepInv, Status
  <2>3. QED
    BY <1>27, <2>1, <2>2 DEF AwaitReady, TypeOK, PassType
<1>28. CASE WriteFinalPhase
  <2>1. call' \in [Slot -> Row] /\ refused' \in BOOLEAN
    BY <1>28, <1>r, CopyTypes, SendTypes
       DEF WriteFinalPhase, WritePhase, Slot, Phase
  <2>2. poller' \in BOOLEAN
    BY <1>28, SwitchesAssumption DEF WriteFinalPhase, TypeOK
  <2>3. QED
    BY <1>28, <2>1, <2>2, IdleTypes
       DEF WriteFinalPhase, TypeOK, StepInv, PassType, IdlePass
<1>29. CASE Teardown
  <2>1. pass' \in PassType /\ StepInv'
    BY <1>29, <1>r, IdleTypes
       DEF Teardown, Goto, PassType, PassPc, StepInv, IdlePass
  <2>2. applied' \in Desired
    BY <1>29, NoRowType DEF Teardown, TypeOK
  <2>3. QED
    BY <1>29, <2>1, <2>2 DEF Teardown, TypeOK, PassType
<1>30. CASE HealthList
  BY <1>30, <1>r DEF HealthList, TypeOK, StepInv, Row, Phase
<1>31. CASE HealthWriteAddress
  <2>1. call' \in [Slot -> Row] /\ refused' \in BOOLEAN
    BY <1>31, <1>r, SendTypes DEF HealthWriteAddress, Slot
  <2>2. QED
    BY <1>31, <2>1 DEF HealthWriteAddress, TypeOK, StepInv
<1>32. CASE HealthObserve
  <2>1. call' \in [Slot -> Row] /\ refused' \in BOOLEAN
    <3>1. CASE UNCHANGED <<call, refused>>
      BY <3>1 DEF TypeOK
    <3>2. ASSUME NEW copy \in Row, Send("health", copy)
          PROVE  call' \in [Slot -> Row] /\ refused' \in BOOLEAN
      BY <3>2, SendTypes DEF Slot
    <3>3. ASSUME NEW d \in DesiredPhase(health.phase), NEW b \in BOOLEAN,
                 HealthUpdate(d, b)
          PROVE  \/ UNCHANGED <<call, refused>>
                 \/ \E copy \in Row : Send("health", copy)
      <4>1. d \in Phase
        BY DEF DesiredPhase, Phase
      <4>2. completedConditions(health.conditions) \in Conditions
        BY DEF completedConditions, Conditions, Status
      <4>3. row.phase \in Phase /\ row.conditions \in Conditions
        BY <1>r DEF Row
      <4>4. \A ph \in Phase, cs \in Conditions :
              [row EXCEPT !.phase = ph, !.conditions = cs] \in Row
        BY <1>r, CopyTypes
      <4>5. QED
        BY <3>3, <4>1, <4>2, <4>3, <4>4 DEF HealthUpdate
    <3>4. QED
      BY <1>32, <3>1, <3>2, <3>3 DEF HealthObserve
  <2>2. QED
    BY <1>32, <2>1, IdleTypes DEF HealthObserve, TypeOK, StepInv
<1>33. CASE PublishConsoleAddress
  <2>1. call' \in [Slot -> Row] /\ refused' \in BOOLEAN
    BY <1>33, <1>r, SendTypes DEF PublishConsoleAddress, Slot, TypeOK
  <2>2. QED
    BY <1>33, <2>1 DEF PublishConsoleAddress, TypeOK, StepInv
<1>34. CASE UNCHANGED vars
  BY <1>34 DEF vars, TypeOK, StepInv
<1>35. QED
  BY <1>1, <1>2, <1>3, <1>4, <1>5, <1>6, <1>7, <1>8, <1>9, <1>10, <1>11,
     <1>12, <1>13, <1>14, <1>15, <1>16, <1>17, <1>18, <1>19, <1>20, <1>21,
     <1>22, <1>23, <1>24, <1>25, <1>26, <1>27, <1>28, <1>29, <1>30, <1>31,
     <1>32, <1>33, <1>34
     DEF Next, ApiStep, WriterStep, WatchStep, PassStep, HealthStep

\* A created gateway is well typed.
LEMMA TypeInit == Init => TypeOK /\ StepInv
<1> SUFFICES ASSUME Init
             PROVE  TypeOK /\ StepInv
  OBVIOUS
<1>1. row \in Row /\ row.observed <= row.generation
  <2>1. [NoSpec EXCEPT !.placed = ~LateBound] \in Desired
    BY NoRowType DEF Desired
  <2>2. NoRow.spec = NoSpec /\ NoRow.observed = 0
    BY DEF NoRow
  <2>3. row = [NoRow EXCEPT !.live = TRUE, !.generation = 1,
                 !.spec = [NoSpec EXCEPT !.placed = ~LateBound]]
    BY <2>2, NoRowType DEF Init, Row
  <2>4. row \in Row
    BY <2>1, <2>3, NoRowType, Zenon DEF Row
  <2>5. row.observed = 0 /\ row.generation = 1
    BY <2>2, <2>3, NoRowType DEF Row
  <2>6. QED
    BY <2>4, <2>5
<1>2. QED
  BY <1>1, NoRowType, PayloadType, IdleTypes
     DEF Init, TypeOK, StepInv, PassType, IdlePass

\* Whatever the writers, the pass, the health loop and the stream do, the
\* variables keep their types, the acknowledged generation never passes the
\* stored one (ObservedInRange under the Replace lock), and CompleteStep
\* never runs past the last provisioning step.
THEOREM TypeCorrect == Spec => []TypeOK
<1>1. Init => TypeOK /\ StepInv
  BY TypeInit
<1>2. TypeOK /\ StepInv /\ [Next]_vars => TypeOK' /\ StepInv'
  BY TypeStep
<1>3. QED
  BY <1>1, <1>2, PTL DEF Spec
----------------------------------------------------------------------------
(***************************************************************************)
(* The latch.                                                              *)
(***************************************************************************)

\* A call in flight after the step was in flight before it, or carries the
\* acknowledgement the row has now.
CallsKept ==
  \A s \in Slot :
    call'[s] # NoRow => \/ call'[s].observed = row.observed
                        \/ \E t \in Slot : call'[s] = call[t]

\* The pass ends, goes on with the same payload without installing anything,
\* or stands still and at most learns that its call was refused.
PassKept ==
  \/ pass' = IdlePass
  \/ /\ pass.pc # "idle" /\ pass'.payload = pass.payload
     /\ pass'.step = pass.step
     /\ pass'.pc \notin {"idle", "written", "teardown"}
     /\ Installed' => Installed
  \/ /\ pass' = pass
     /\ \/ call'["pass"] = call["pass"] /\ refused' = refused
        \/ call'["pass"] = NoRow /\ refused'

\* A handler that leaves observed_generation alone sends a status write.
LEMMA StatusSend ==
  ASSUME TypeOK, NEW s \in Slot, NEW copy \in Row, Send(s, copy),
         copy.observed = row.observed
  PROVE  /\ CallsKept
         /\ s # "pass" => call'["pass"] = call["pass"] /\ refused' = refused
<1>1. CallsKept
  BY DEF Send, CallsKept, TypeOK
<1>2. s # "pass" => call'["pass"] = call["pass"]
  BY DEF Send, TypeOK, Slot
<1>3. s # "pass" => refused' = refused
  BY DEF Send, TypeOK
<1>4. QED
  BY <1>1, <1>2, <1>3

\* Nothing was ever acknowledged by a payload that is not there.
LEMMA NoSnapshot ==
  ASSUME TypeOK, row.generation >= 1
  PROVE  SnapshotOf(NoPayload)
  BY PayloadType DEF SnapshotOf, TypeOK, Row

\* A step that leaves the row and the workload alone, sends at most a status
\* write and keeps the pass on its course preserves the latch.
LEMMA StatusStep ==
  ASSUME Inv, TypeOK', CallsKept, PassKept, row' = row, applied' = applied,
         latest' \in {latest, NoPayload}
  PROVE  LatchInv'
<1> USE DEF Inv, LatchInv
<1>t. /\ row \in Row /\ call \in [Slot -> Row] /\ call' \in [Slot -> Row]
      /\ latest \in Payload /\ pass \in PassType /\ pass' \in PassType
      /\ row.generation \in Nat /\ row.observed \in Nat
      /\ \A s \in Slot : call[s].observed \in Nat
  BY DEF TypeOK, PassType, Row
<1>1. CallInv'
  BY <1>t DEF CallsKept, CallInv, Earned
<1>2. ASSUME NEW p \in Payload, Covers(p)
      PROVE  Covers(p)'
  BY <1>2, <1>t DEF Covers, CallsKept
<1>i. IdlePass.payload = NoPayload /\ IdlePass.pc = "idle"
  BY DEF IdlePass
<1>3. SnapshotInv'
  <2>1. SnapshotOf(latest)' /\ (latest # NoPayload => Covers(latest))'
    BY <1>2, <1>t, NoSnapshot DEF SnapshotInv, SnapshotOf, Covers
  <2>2. SnapshotOf(pass.payload)'
    BY <1>i, NoSnapshot DEF SnapshotInv, SnapshotOf, PassKept
  <2>3. pass'.pc # "idle" =>
          pass.pc # "idle" /\ pass'.payload = pass.payload
    BY <1>i DEF PassKept
  <2>4. (pass.pc # "idle" => Covers(pass.payload))'
    <3>1. pass.payload \in Payload
      BY <1>t DEF PassType
    <3>2. QED
      BY <1>2, <2>3, <3>1 DEF SnapshotInv, Covers
  <2>5. QED
    BY <2>1, <2>2, <2>3, <2>4 DEF SnapshotInv
<1>4. DeadInv'
  BY <1>i DEF DeadInv, PassKept
<1>5. IdentityInv'
  BY <1>i DEF IdentityInv, IdentityKept, PassKept
<1>6. LatchSound'
  BY DEF LatchSound, Converged
<1>7. (Installed => Earned(pass.payload.generation))'
  BY <1>i DEF PassKept, Installed, Earned
<1>8. QED
  BY <1>1, <1>3, <1>4, <1>5, <1>6, <1>7

\* What the stored row of an accepted call has to do with the row it replaces:
\* the generation moves exactly when the desired state does.
LEMMA StoredFields ==
  ASSUME TypeOK, NEW s \in Slot, Replace(s)
  PROVE  /\ row.live /\ row'.spec = call[s].spec
         /\ row'.observed = call[s].observed
         /\ row'.generation \in {row.generation, row.generation + 1}
         /\ row'.generation = row.generation <=> row'.spec = row.spec
         /\ row.observed <= row'.observed
<1>1. call[s] \in Row /\ row \in Row
  BY DEF TypeOK
<1>2. /\ row' = Stored(row, call[s]) /\ row.live
      /\ ObservedInRange(row, call[s])
  BY DEF Replace, Accepted
<1>3. /\ row'.spec = call[s].spec /\ row'.observed = call[s].observed
      /\ row'.generation = NewGeneration(row, call[s])
  BY <1>1, <1>2 DEF Stored, Row
<1>4. row.observed <= row'.observed
  BY <1>1, <1>2, <1>3 DEF ObservedInRange, Row
<1>5. QED
  BY <1>1, <1>2, <1>3, <1>4 DEF NewGeneration, desiredStateChanged, Row

\* Replace saves a copy that may be older than the row it replaces.  If the
\* copy changes the desired state, the generation it acknowledges is behind
\* the new one; if not, what it acknowledges was acknowledged or earned.
LEMMA ReplaceKeepsLatch ==
  ASSUME Inv, TypeOK', NEW s \in Slot, Replace(s)
  PROVE  LatchInv'
<1> USE DEF Inv, LatchInv
<1>1. /\ row.live /\ row'.spec = call[s].spec
      /\ row'.observed = call[s].observed
      /\ row'.generation \in {row.generation, row.generation + 1}
      /\ row'.generation = row.generation <=> row'.spec = row.spec
      /\ row.observed <= row'.observed
  BY StoredFields
<1>2. /\ call[s] # NoRow /\ applied' = applied /\ latest' = latest
      /\ pass' = pass
      /\ call' = [call EXCEPT ![s] = NoRow]
      /\ s # "pass" => refused' = refused
  BY DEF Replace, cluster, TypeOK
<1>t. /\ row.generation \in Nat /\ row.observed \in Nat
      /\ row.observed <= row.generation
      /\ row'.generation \in Nat /\ row'.observed \in Nat
      /\ call \in [Slot -> Row] /\ call' \in [Slot -> Row]
      /\ \A t \in Slot : call[t].observed \in Nat
      /\ latest.generation \in Nat /\ pass.payload.generation \in Nat
  BY DEF TypeOK, Row, Payload
<1>3. \A t \in Slot : call'[t] # NoRow => call'[t] = call[t]
  BY <1>2, <1>t
<1>4. ASSUME NEW g \in Nat, Earned(g)
      PROVE  Earned(g)'
  BY <1>1, <1>2, <1>4, <1>t DEF Earned
<1>5. CallInv'
  <2> SUFFICES ASSUME NEW t \in Slot, call'[t] # NoRow
               PROVE  \/ call'[t].observed <= row'.observed
                      \/ Earned(call[t].observed)'
    BY <1>3 DEF CallInv, Earned
  <2>1. CASE call[t].observed <= row.observed
    BY <2>1, <1>1, <1>3, <1>t
  <2>2. CASE Earned(call[t].observed)
    BY <2>2, <1>3, <1>4, <1>t DEF Earned
  <2>3. QED
    BY <1>3, <2>1, <2>2 DEF CallInv
<1>6. SnapshotInv'
  <2>1. ASSUME NEW p, p.generation \in Nat, SnapshotOf(p)
        PROVE  SnapshotOf(p)'
    BY <1>1, <1>t, <2>1 DEF SnapshotOf
  <2>2. ASSUME NEW p, Covers(p)
        PROVE  Covers(p)'
    BY <1>1, <1>2, <1>3, <2>2 DEF Covers
  <2>3. SnapshotOf(latest)' /\ SnapshotOf(pass.payload)'
    BY <1>2, <1>t, <2>1 DEF SnapshotInv, SnapshotOf
  <2>4. /\ (latest # NoPayload => Covers(latest))'
        /\ (pass.pc # "idle" => Covers(pass.payload))'
    BY <1>2, <2>2 DEF SnapshotInv, Covers
  <2>5. QED
    BY <1>1, <1>2, <1>t, <2>3, <2>4 DEF SnapshotInv
<1>7. DeadInv'
  BY <1>1, <1>2 DEF DeadInv
<1>8. IdentityInv'
  <2>1. IdentityKept => IdentityKept'
    BY <1>1, <1>2, <1>t DEF IdentityKept, SnapshotInv, SnapshotOf
  <2>2. s = "pass" => call'["pass"] = NoRow
    BY <1>2, <1>t
  <2>3. s # "pass" => call'["pass"] = call["pass"]
    BY <1>2, <1>t DEF Slot
  <2>4. s = "pass" /\ call["pass"].spec.oidc => IdentityKept'
    BY <1>1, <1>2 DEF IdentityKept
  <2>5. QED
    BY <1>2, <2>1, <2>2, <2>3, <2>4 DEF IdentityInv
<1>9. LatchSound'
  <2> SUFFICES ASSUME row'.observed = row'.generation
               PROVE  applied = row'.spec
    BY <1>2 DEF LatchSound, Converged
  <2>1. \/ call[s].observed <= row.observed
        \/ Earned(call[s].observed)
    BY <1>2 DEF CallInv
  <2>2. row'.generation = row.generation
    BY <1>1, <1>t, <2>1 DEF Earned
  <2>3. applied = row.spec
    BY <1>1, <1>t, <2>1, <2>2 DEF Earned, LatchSound, Converged
  <2>4. QED
    BY <1>1, <2>2, <2>3
<1>10. (Installed => Earned(pass.payload.generation))'
  <2>1. Installed' => Installed /\ Earned(pass.payload.generation)
    BY <1>2 DEF Installed
  <2>2. QED
    BY <1>2, <1>4, <1>t, <2>1 DEF Earned
<1>11. QED
  BY <1>5, <1>6, <1>7, <1>8, <1>9, <1>10

\* What the watch reads under way and the seed lists is a snapshot of the row
\* that no acknowledgement is ahead of.
LEMMA RowIsSnapshot ==
  ASSUME TypeOK, CallInv
  PROVE  SnapshotOf(PayloadOf(row)) /\ Covers(PayloadOf(row))
<1>1. PayloadOf(row).generation = row.generation
      /\ PayloadOf(row).spec = row.spec
  BY DEF PayloadOf
<1>2. row.generation \in Nat /\ row.observed <= row.generation
      /\ \A s \in Slot : call[s].observed \in Nat
  BY DEF TypeOK, Row
<1>3. QED
  BY <1>1, <1>2 DEF SnapshotOf, Covers, CallInv, Earned, TypeOK, Row

\* A watch step replaces the queued payload by a snapshot taken now, keeps it
\* or drops it.
LEMMA WatchKeepsLatch ==
  ASSUME Inv, latest' \in {latest, PayloadOf(row), NoPayload},
         row' = row, applied' = applied, call' = call, pass' = pass,
         refused' = refused
  PROVE  LatchInv'
<1> USE DEF Inv, LatchInv
<1>1. SnapshotOf(PayloadOf(row)) /\ Covers(PayloadOf(row))
  BY RowIsSnapshot
<1>2. SnapshotOf(NoPayload)
  BY NoSnapshot DEF SnapshotInv
<1>3. PayloadOf(row).generation = row.generation
      /\ PayloadOf(row).live = row.live
  BY DEF PayloadOf
<1>4. SnapshotInv'
  <2>1. SnapshotOf(latest)' /\ (latest # NoPayload => Covers(latest))'
    BY <1>1, <1>2 DEF SnapshotInv, SnapshotOf, Covers
  <2>2. SnapshotOf(pass.payload)'
        /\ (pass.pc # "idle" => Covers(pass.payload))'
    BY DEF SnapshotInv, SnapshotOf, Covers
  <2>3. QED
    BY <1>3, <2>1, <2>2 DEF SnapshotInv, SnapshotOf
<1>5. DeadInv'
  BY <1>3 DEF DeadInv
<1>6. CallInv' /\ IdentityInv' /\ LatchSound'
      /\ (Installed => Earned(pass.payload.generation))'
  BY DEF CallInv, Earned, IdentityInv, IdentityKept, LatchSound, Converged,
         Installed
<1>7. QED
  BY <1>4, <1>5, <1>6

\* The release of a pass that reached its deploy step covers every
\* acknowledgement there is: an older pass cannot install over a newer
\* acknowledged generation, because it would have been overtaken.
LEMMA DeployIsEarned ==
  ASSUME Inv, Deploy, pass.pc = "work", pass.step = Deployed, row' = row
  PROVE  \A g \in Nat : g <= row.generation /\ pass.payload.generation >= g
                        => Earned(g)'
<1> USE DEF Inv, LatchInv
<1> SUFFICES ASSUME NEW g \in Nat, g <= row.generation,
                    pass.payload.generation >= g, g = row.generation
             PROVE  applied' = row.spec
  BY DEF Earned
<1>1. pass.payload.generation = row.generation
  BY DEF SnapshotInv, SnapshotOf, TypeOK, Row, Payload
<1>2. pass.payload.spec = row.spec
  BY <1>1 DEF SnapshotInv, SnapshotOf
<1>3. Identity > 0 => row.spec.oidc
  BY <1>1, StepBounds DEF IdentityInv, IdentityKept
<1>4. row.spec \in Desired
  BY DEF TypeOK, Row
<1>5. Effective(row.spec) = row.spec
  BY <1>3, <1>4 DEF Effective, Desired
<1>6. QED
  BY <1>2, <1>5 DEF Deploy

\* The deploy step, whether it then succeeds or fails.
LEMMA DeployKeepsLatch ==
  ASSUME Inv, TypeOK', Deploy, CallsKept, pass.pc = "work",
         pass.step = Deployed, row' = row, latest' = latest,
         pass'.pc \in {"complete", "failed"}, pass'.step = pass.step,
         pass'.payload = pass.payload
  PROVE  LatchInv'
<1> USE DEF Inv, LatchInv
<1>t. /\ row.generation \in Nat /\ row.observed \in Nat
      /\ row.observed <= row.generation
      /\ call \in [Slot -> Row] /\ call' \in [Slot -> Row]
      /\ \A s \in Slot : call[s].observed \in Nat
      /\ pass.payload.generation \in Nat /\ latest.generation \in Nat
  BY DEF TypeOK, Row, Payload
<1>1. \A g \in Nat : g <= row.generation /\ pass.payload.generation >= g
                     => Earned(g)'
  BY DeployIsEarned
<1>2. Covers(pass.payload) /\ SnapshotOf(pass.payload)
  BY DEF SnapshotInv
<1>3. LatchSound'
  BY <1>1, <1>2, <1>t DEF LatchSound, Converged, Covers, Earned
<1>4. CallInv'
  <2> SUFFICES ASSUME NEW s \in Slot, call'[s] # NoRow
               PROVE  \/ call'[s].observed <= row.observed
                      \/ Earned(call[s].observed)'
    BY DEF CallInv
  <2>1. CASE call'[s].observed = row.observed
    BY <2>1, <1>t
  <2>2. ASSUME NEW t \in Slot, call'[s] = call[t]
        PROVE  \/ call'[s].observed <= row.observed
               \/ Earned(call[s].observed)'
    <3>1. \/ call[t].observed <= row.observed
          \/ call[t].observed <= row.generation
      BY <2>2 DEF CallInv, Earned
    <3>2. call[t].observed <= pass.payload.generation
      BY <2>2, <1>2 DEF Covers
    <3>3. QED
      BY <1>1, <1>t, <2>2, <3>1, <3>2 DEF Earned
  <2>3. QED
    BY <2>1, <2>2 DEF CallsKept
<1>5. ASSUME NEW p, p.generation \in Nat, Covers(p)
      PROVE  Covers(p)'
  BY <1>5, <1>t DEF Covers, CallsKept
<1>6. SnapshotInv'
  <2>1. SnapshotOf(latest)' /\ SnapshotOf(pass.payload)'
    BY DEF SnapshotInv, SnapshotOf
  <2>2. (latest # NoPayload => Covers(latest))' /\ Covers(pass.payload)'
    BY <1>2, <1>5, <1>t DEF SnapshotInv, Covers
  <2>3. QED
    BY <2>1, <2>2 DEF SnapshotInv
<1>7. DeadInv' /\ IdentityInv'
  BY DEF DeadInv, IdentityInv, IdentityKept
<1>8. (Installed => Earned(pass.payload.generation))'
  BY <1>1, <1>2, <1>t DEF SnapshotOf, Earned
<1>9. QED
  BY <1>3, <1>4, <1>6, <1>7, <1>8

\* Handle acknowledges what it installed, not what the row asks for by then.
LEMMA AcknowledgeKeepsLatch ==
  ASSUME Inv, TypeOK', updateObservedGeneration
  PROVE  LatchInv'
<1> USE DEF Inv, LatchInv
<1>1. /\ row' = row /\ applied' = applied /\ latest' = latest
      /\ pass.pc = "ack" /\ pass' = [pass EXCEPT !.pc = "wait"]
  BY DEF updateObservedGeneration, cluster, controllerVars, At, Goto
<1>t. /\ row \in Row /\ row.generation \in Nat /\ row.observed \in Nat
      /\ call \in [Slot -> Row] /\ call' \in [Slot -> Row]
      /\ \A s \in Slot : call[s].observed \in Nat
      /\ pass \in PassType
      /\ pass.payload.generation \in Nat /\ latest.generation \in Nat
  BY DEF TypeOK, Row, Payload, PassType
<1>p. /\ pass'.pc = "wait" /\ pass'.step = pass.step
      /\ pass'.payload = pass.payload
  BY <1>1, <1>t DEF PassType
<1>2. Earned(pass.payload.generation) /\ Covers(pass.payload)
  BY <1>1 DEF Installed, SnapshotInv
<1>3. \A s \in Slot : \/ call'[s] = call[s]
                      \/ call'[s].observed = pass.payload.generation
  BY <1>t DEF updateObservedGeneration, Send, Row, Slot
<1>4. CallInv'
  BY <1>1, <1>2, <1>3 DEF CallInv, Earned
<1>5. SnapshotInv'
  <2>1. SnapshotOf(latest)' /\ SnapshotOf(pass.payload)'
    BY <1>1, <1>p DEF SnapshotInv, SnapshotOf
  <2>2. Covers(pass.payload)'
    BY <1>1, <1>2, <1>3, <1>p, <1>t DEF Covers
  <2>3. (latest # NoPayload => Covers(latest))'
    BY <1>1, <1>3, <1>t DEF SnapshotInv, Covers
  <2>4. QED
    BY <1>1, <1>p, <2>1, <2>2, <2>3 DEF SnapshotInv
<1>6. DeadInv' /\ IdentityInv' /\ LatchSound'
  BY <1>1, <1>p
     DEF DeadInv, IdentityInv, IdentityKept, LatchSound, Converged
<1>7. ~Installed'
  BY <1>p DEF Installed
<1>8. QED
  BY <1>4, <1>5, <1>6, <1>7

\* A worker starts from the newest payload the queue holds.
LEMMA StartKeepsLatch ==
  ASSUME Inv, StartPass
  PROVE  LatchInv'
<1> USE DEF Inv, LatchInv
<1>1. /\ row' = row /\ applied' = applied /\ latest' = latest /\ call' = call
      /\ latest # NoPayload
  BY DEF StartPass, cluster
<1>2. /\ pass'.payload = latest /\ pass'.step = 1
      /\ pass'.pc \in {"teardown", "init", "gate", "trust"}
      /\ pass'.pc = "teardown" => ~latest.live
  BY DEF StartPass, IdlePass
<1>3. SnapshotInv'
  BY <1>1, <1>2 DEF SnapshotInv, SnapshotOf, Covers, TypeOK, Payload
<1>4. DeadInv'
  BY <1>1, <1>2 DEF DeadInv
<1>5. IdentityInv'
  BY <1>2, StepBounds DEF IdentityInv
<1>6. CallInv' /\ LatchSound' /\ ~Installed'
  BY <1>1, <1>2 DEF CallInv, Earned, LatchSound, Converged, Installed
<1>7. QED
  BY <1>3, <1>4, <1>5, <1>6

\* UpdateOIDC: the pass waits for the identity configuration it sent, or has
\* been refused because the gateway is gone.
LEMMA IdentityKeepsLatch ==
  ASSUME Inv, TypeOK', row' = row, applied' = applied, latest' = latest,
         Send("pass", [row EXCEPT !.spec.oidc = TRUE]),
         pass.pc = "work", pass' = [pass EXCEPT !.pc = "written"]
  PROVE  LatchInv'
<1> USE DEF Inv, LatchInv
<1> DEFINE copy == [row EXCEPT !.spec.oidc = TRUE]
<1>1. /\ copy \in Row /\ copy.observed = row.observed
      /\ copy.generation = row.generation /\ copy.spec.oidc
  BY CopyTypes DEF TypeOK, Row, Desired
<1>2. CallsKept
  BY <1>1, StatusSend DEF Slot
<1>p. /\ pass'.pc = "written" /\ pass'.step = pass.step
      /\ pass'.payload = pass.payload
  BY DEF TypeOK
<1>t. /\ row.generation \in Nat /\ row.observed \in Nat
      /\ call \in [Slot -> Row] /\ call' \in [Slot -> Row]
      /\ \A s \in Slot : call[s].observed \in Nat
      /\ pass.payload.generation \in Nat /\ latest.generation \in Nat
  BY DEF TypeOK, Row, Payload
<1>3. CallInv'
  BY <1>2, <1>t DEF CallsKept, CallInv, Earned
<1>4. SnapshotInv'
  <2>1. ASSUME NEW p, p.generation \in Nat, Covers(p)
        PROVE  Covers(p)'
    BY <1>2, <1>t, <2>1 DEF Covers, CallsKept
  <2>2. SnapshotOf(latest)' /\ SnapshotOf(pass.payload)'
    BY <1>p DEF SnapshotInv, SnapshotOf
  <2>3. (latest # NoPayload => Covers(latest))' /\ Covers(pass.payload)'
    BY <1>p, <1>t, <2>1 DEF SnapshotInv, Covers
  <2>4. QED
    BY <1>p, <2>2, <2>3 DEF SnapshotInv
<1>5. IdentityInv'
  <2>1. CASE row.live
    <3>1. call'["pass"] = copy
      BY <2>1, <1>t DEF Send, Slot
    <3>2. copy # NoRow
      <4>1. copy.generation # NoRow.generation
        BY <1>1, <1>t, NoRowType DEF SnapshotInv
      <4>2. QED
        BY <4>1, Zenon
    <3>3. QED
      BY <1>1, <1>p, <3>1, <3>2 DEF IdentityInv, IdentityKept
  <2>2. CASE ~row.live
    <3>1. call'["pass"] = NoRow /\ refused'
      BY <2>2 DEF Send
    <3>2. QED
      BY <1>p, <3>1 DEF IdentityInv, IdentityKept
  <2>3. QED
    BY <2>1, <2>2
<1>6. DeadInv' /\ LatchSound' /\ ~Installed'
  BY <1>p DEF DeadInv, LatchSound, Converged, Installed
<1>7. QED
  BY <1>3, <1>4, <1>5, <1>6

\* The pass moves on to the next step only past what the finished step has
\* established.
LEMMA CompleteKeepsLatch ==
  ASSUME Inv, TypeOK', CompleteStep
  PROVE  LatchInv'
<1> USE DEF Inv, LatchInv
<1> DEFINE cs == [pass.conds EXCEPT ![pass.step] = "Complete"]
<1>1. /\ row' = row /\ applied' = applied /\ latest' = latest
      /\ \/ pass.pc = "complete"
         \/ pass.pc = "written" /\ call["pass"] = NoRow /\ ~refused
      /\ Send("pass", [row EXCEPT !.conditions = cs])
      /\ pass' = [pass EXCEPT
                    !.conds = cs, !.step = @ + 1,
                    !.pc = IF pass.step = Deployed THEN "healthy"
                                                   ELSE "begin"]
  BY DEF CompleteStep, CompleteStepOf, cluster, controllerVars, At
<1>p. /\ pass'.step = pass.step + 1 /\ pass'.payload = pass.payload
      /\ pass'.pc = IF pass.step = Deployed THEN "healthy" ELSE "begin"
  BY <1>1 DEF TypeOK
<1>t. /\ row.generation \in Nat /\ row.observed \in Nat
      /\ call \in [Slot -> Row] /\ call' \in [Slot -> Row]
      /\ \A s \in Slot : call[s].observed \in Nat
      /\ pass.step \in Int
      /\ pass.payload.generation \in Nat /\ latest.generation \in Nat
  BY StepBounds DEF TypeOK, Row, Payload, Step
<1>2. CallsKept
  <2>1. cs \in Conditions
    BY DEF TypeOK, Conditions, Status
  <2>2. [row EXCEPT !.conditions = cs] \in Row
        /\ [row EXCEPT !.conditions = cs].observed = row.observed
    BY <2>1, CopyTypes DEF TypeOK, Row
  <2>3. QED
    BY <1>1, <2>2, StatusSend DEF Slot
<1>3. CallInv'
  BY <1>1, <1>2, <1>t DEF CallsKept, CallInv, Earned
<1>4. SnapshotInv'
  <2>1. ASSUME NEW p, p.generation \in Nat, Covers(p)
        PROVE  Covers(p)'
    BY <1>1, <1>2, <1>t, <2>1 DEF Covers, CallsKept
  <2>2. SnapshotOf(latest)' /\ SnapshotOf(pass.payload)'
    BY <1>1, <1>p DEF SnapshotInv, SnapshotOf
  <2>3. (latest # NoPayload => Covers(latest))' /\ Covers(pass.payload)'
    BY <1>1, <1>p, <1>t, <2>1 DEF SnapshotInv, Covers
  <2>4. QED
    BY <1>1, <1>p, <2>2, <2>3 DEF SnapshotInv
<1>5. IdentityInv'
  <2>1. pass.pc = "written" => pass.step = Identity
    BY DEF StepInv
  <2>2. pass.pc = "complete" => pass.step # Identity
    BY DEF StepInv
  <2>3. Identity > 0 /\ pass.step + 1 > Identity => IdentityKept
    BY <1>1, <1>t, <2>1, <2>2, StepBounds DEF IdentityInv
  <2>4. QED
    BY <1>1, <1>p, <2>3 DEF IdentityInv, IdentityKept
<1>6. DeadInv' /\ LatchSound'
  BY <1>1, <1>p DEF DeadInv, LatchSound, Converged
<1>7. (Installed => Earned(pass.payload.generation))'
  <2>1. Installed' => pass.step = Deployed
    BY <1>p DEF Installed
  <2>2. pass.step = Deployed => pass.pc = "complete"
    BY <1>1, StepBounds DEF StepInv
  <2>3. QED
    BY <1>1, <1>p, <2>1, <2>2 DEF Installed, Earned
<1>8. QED
  BY <1>3, <1>4, <1>5, <1>6, <1>7

\* Cleanup removes the workload of a gateway that is already deleted.
LEMMA TeardownKeepsLatch ==
  ASSUME Inv, Teardown
  PROVE  LatchInv'
<1> USE DEF Inv, LatchInv
<1>1. /\ row' = row /\ call' = call /\ latest' = latest /\ refused' = refused
      /\ pass.pc = "teardown" /\ ~row.live
      /\ pass' = IdlePass \/ pass' = [pass EXCEPT !.pc = "error"]
  BY DEF Teardown, controllerVars, At, Goto, DeadInv
<1>p. \/ pass'.pc = "idle" /\ pass'.payload = NoPayload
      \/ /\ pass'.pc = "error" /\ pass'.step = pass.step
         /\ pass'.payload = pass.payload
  BY <1>1 DEF IdlePass, TypeOK
<1>2. SnapshotInv'
  BY <1>1, <1>p, NoSnapshot DEF SnapshotInv, SnapshotOf, Covers
<1>3. CallInv' /\ LatchSound'
  BY <1>1 DEF CallInv, Earned, LatchSound
<1>4. DeadInv' /\ IdentityInv' /\ ~Installed'
  BY <1>1, <1>p DEF DeadInv, IdentityInv, IdentityKept, Installed
<1>5. QED
  BY <1>2, <1>3, <1>4

\* Delete touches the deletion mark only.
LEMMA DeleteKeepsLatch ==
  ASSUME Inv, Delete
  PROVE  LatchInv'
<1> USE DEF Inv, LatchInv
<1>1. /\ applied' = applied /\ call' = call /\ latest' = latest
      /\ pass' = pass /\ refused' = refused
      /\ row' = [row EXCEPT !.live = FALSE] /\ row \in Row
  BY DEF Delete, cluster, TypeOK
<1>2. /\ row'.spec = row.spec /\ row'.generation = row.generation
      /\ row'.observed = row.observed /\ row'.live = FALSE
  BY <1>1 DEF Row
<1>3. SnapshotInv'
  BY <1>1, <1>2 DEF SnapshotInv, SnapshotOf, Covers
<1>4. CallInv' /\ LatchSound'
  BY <1>1, <1>2 DEF CallInv, Earned, LatchSound
<1>5. DeadInv' /\ IdentityInv'
  BY <1>1, <1>2 DEF DeadInv, IdentityInv, IdentityKept
<1>6. (Installed => Earned(pass.payload.generation))'
  BY <1>1, <1>2 DEF Installed, Earned
<1>7. QED
  BY <1>3, <1>4, <1>5, <1>6

\* The handlers outside the pass that send a status write, or an authored
\* change, and leave the pass alone.
LEMMA BystanderKeepsLatch ==
  ASSUME Inv, TypeOK', NEW s \in Slot \ {"pass"},
         \/ \E copy \in Row : copy.observed = row.observed /\ Send(s, copy)
         \/ UNCHANGED <<call, refused>>,
         row' = row, applied' = applied, pass' = pass,
         latest' \in {latest, NoPayload}
  PROVE  LatchInv'
<1>1. CallsKept /\ call'["pass"] = call["pass"] /\ refused' = refused
  <2>1. CASE UNCHANGED <<call, refused>>
    BY <2>1 DEF CallsKept
  <2>2. CASE \E copy \in Row : copy.observed = row.observed /\ Send(s, copy)
    BY <2>2, StatusSend DEF Inv
  <2>3. QED
    BY <2>1, <2>2
<1>2. PassKept
  BY <1>1 DEF PassKept
<1>3. QED
  BY <1>1, <1>2, StatusStep

\* A step of the pass that writes status only.
LEMMA PassWriteKeepsLatch ==
  ASSUME Inv, TypeOK',
         \/ \E copy \in Row : copy.observed = row.observed
                              /\ Send("pass", copy)
         \/ UNCHANGED <<call, refused>>,
         row' = row, applied' = applied, latest' = latest,
         \/ pass' = IdlePass
         \/ /\ pass.pc # "idle" /\ pass'.payload = pass.payload
            /\ pass'.step = pass.step
            /\ pass'.pc \notin {"idle", "written", "teardown"}
            /\ Installed' => Installed
  PROVE  LatchInv'
<1>1. CallsKept
  <2>1. CASE UNCHANGED <<call, refused>>
    BY <2>1 DEF CallsKept
  <2>2. CASE \E copy \in Row : copy.observed = row.observed
                               /\ Send("pass", copy)
    BY <2>2, StatusSend DEF Inv, Slot
  <2>3. QED
    BY <2>1, <2>2
<1>2. PassKept
  BY DEF PassKept
<1>3. QED
  BY <1>1, <1>2, StatusStep

\* The copies of status writers acknowledge what the row they read did.
LEMMA StatusCopies ==
  ASSUME NEW r \in Row
  PROVE  /\ \A n \in Names : [r EXCEPT !.name = n].observed = r.observed
         /\ \A ph \in Phase : [r EXCEPT !.phase = ph].observed = r.observed
         /\ \A cs \in Conditions :
              [r EXCEPT !.conditions = cs].observed = r.observed
         /\ \A ph \in Phase, cs \in Conditions :
              [r EXCEPT !.phase = ph, !.conditions = cs].observed
                = r.observed
         /\ \A i \in Images : [r EXCEPT !.spec.image = i].observed
                                = r.observed
         /\ [r EXCEPT !.spec.placed = TRUE].observed = r.observed
  BY DEF Row

\* Every step preserves the latch and what makes it sound.
LEMMA LatchStep ==
  Inv /\ TypeOK' /\ [Next]_vars => LatchInv'
<1> SUFFICES ASSUME Inv, TypeOK', [Next]_vars
             PROVE  LatchInv'
  OBVIOUS
<1> USE DEF controllerVars, cluster
<1>r. TypeOK /\ row \in Row /\ pass \in PassType
  BY DEF Inv, TypeOK, PassType
<1>s. {"user", "author", "rebind", "health", "console"}
        \subseteq Slot \ {"pass"}
  BY DEF Slot
<1>c. \A st \in Status : [pass.conds EXCEPT ![pass.step] = st] \in Conditions
  BY <1>r DEF PassType, Conditions
<1>g. ASSUME NEW pc \in PassPc, Goto(pc)
      PROVE  pass'.pc = pc /\ pass'.step = pass.step
             /\ pass'.payload = pass.payload
  BY <1>g, <1>r DEF Goto, PassType
<1>w. ASSUME NEW st \in Status, NEW pc \in PassPc, Report(st, pc)
      PROVE  /\ pass'.pc = pc /\ pass'.step = pass.step
             /\ pass'.payload = pass.payload
             /\ \E copy \in Row : copy.observed = row.observed
                                  /\ Send("pass", copy)
  BY <1>w, <1>r, <1>c, CopyTypes, StatusCopies DEF Report, PassType
<1>ph. ASSUME NEW ph \in Phase, WritePhase(ph)
       PROVE  \E copy \in Row : copy.observed = row.observed
                                /\ Send("pass", copy)
  BY <1>ph, <1>r, CopyTypes, StatusCopies DEF WritePhase
<1>1. ASSUME NEW s \in Slot, Replace(s)
      PROVE  LatchInv'
  BY <1>1, ReplaceKeepsLatch
<1>2. ASSUME NEW s \in Slot, CallFails(s)
      PROVE  LatchInv'
  <2>1. call' = [call EXCEPT ![s] = NoRow]
    BY <1>2 DEF CallFails
  <2>2. CallsKept
    BY <2>1, <1>r DEF CallsKept, TypeOK
  <2>3. \/ call'["pass"] = call["pass"] /\ refused' = refused
        \/ call'["pass"] = NoRow /\ refused'
    BY <1>2, <2>1, <1>r DEF CallFails, TypeOK, Slot
  <2>4. QED
    BY <1>2, <2>2, <2>3, StatusStep DEF CallFails, PassKept
<1>3. CASE Rename
  <2>1. \E copy \in Row : copy.observed = row.observed /\ Send("user", copy)
    BY <1>3, <1>r, CopyTypes, StatusCopies DEF Rename
  <2>2. QED
    BY <1>3, <2>1, <1>s, BystanderKeepsLatch DEF Rename
<1>4. CASE AuthorWorkload
  <2>1. \E copy \in Row : copy.observed = row.observed
                          /\ Send("author", copy)
    BY <1>4, <1>r, CopyTypes, StatusCopies DEF AuthorWorkload
  <2>2. QED
    BY <1>4, <2>1, <1>s, BystanderKeepsLatch DEF AuthorWorkload
<1>5. CASE Rebind
  <2>1. \E copy \in Row : copy.observed = row.observed
                          /\ Send("rebind", copy)
    BY <1>5, <1>r, CopyTypes, StatusCopies DEF Rebind
  <2>2. QED
    BY <1>5, <2>1, <1>s, BystanderKeepsLatch DEF Rebind
<1>6. CASE ChangeTrust
  BY <1>6, <1>s, BystanderKeepsLatch DEF ChangeTrust
<1>7. CASE Delete
  BY <1>7, DeleteKeepsLatch
<1>8. CASE Deliver
  BY <1>8, WatchKeepsLatch DEF Deliver
<1>9. CASE Disconnect
  BY <1>9, WatchKeepsLatch DEF Disconnect
<1>10. CASE Reconnect
  BY <1>10, WatchKeepsLatch DEF Reconnect
<1>11. CASE Restart
  <2>1. call' = [call EXCEPT !["pass"] = NoRow, !["late"] = call["pass"]]
    BY <1>11 DEF Restart
  <2>2. CallsKept
    BY <2>1, <1>r DEF CallsKept, TypeOK, Slot
  <2>3. QED
    BY <1>11, <2>2, StatusStep DEF Restart, PassKept
<1>12. CASE StartPass
  BY <1>12, StartKeepsLatch
<1>13. CASE ReconcileExistingClient
  <2>1. \/ \E copy \in Row : copy.observed = row.observed
                             /\ Send("pass", copy)
        \/ UNCHANGED <<call, refused>>
    BY <1>13, <1>r DEF ReconcileExistingClient
  <2>2. \/ Goto("trust") \/ Goto("error") \/ Goto("marked")
    BY <1>13 DEF ReconcileExistingClient
  <2>3. /\ pass'.pc \in {"trust", "error", "marked"}
        /\ pass'.step = pass.step /\ pass'.payload = pass.payload
    BY <2>2, <1>g DEF PassPc
  <2>4. QED
    BY <1>13, <2>1, <2>3, PassWriteKeepsLatch
       DEF ReconcileExistingClient, At, Installed
<1>14. CASE CheckTrust
  <2>1. \/ pass' = IdlePass
        \/ /\ pass'.pc \in {"init", "error"}
           /\ pass'.step = pass.step /\ pass'.payload = pass.payload
    BY <1>14, <1>g DEF CheckTrust, PassPc
  <2>2. QED
    BY <1>14, <2>1, PassWriteKeepsLatch DEF CheckTrust, At, Installed
<1>15. CASE InvalidConfig
  <2>1. /\ pass'.pc = "error"
        /\ pass'.step = pass.step /\ pass'.payload = pass.payload
    BY <1>15, <1>g DEF InvalidConfig, PassPc
  <2>2. QED
    BY <1>15, <2>1, PassWriteKeepsLatch DEF InvalidConfig, At, Installed
<1>16. CASE WriteInitConditions
  <2>1. InitConditions \in Conditions
    BY DEF InitConditions, Conditions, Status
  <2>2. \E copy \in Row : copy.observed = row.observed /\ Send("pass", copy)
    BY <1>16, <1>r, <2>1, CopyTypes, StatusCopies DEF WriteInitConditions
  <2>3. /\ pass'.pc = "provisioning"
        /\ pass'.step = pass.step /\ pass'.payload = pass.payload
    BY <1>16, <1>r DEF WriteInitConditions, PassType
  <2>4. QED
    BY <1>16, <2>2, <2>3, PassWriteKeepsLatch
       DEF WriteInitConditions, At, Installed
<1>17. CASE WriteProvisioning
  <2>1. /\ pass'.pc = "begin"
        /\ pass'.step = pass.step /\ pass'.payload = pass.payload
    BY <1>17, <1>g DEF WriteProvisioning, PassPc
  <2>2. QED
    BY <1>17, <2>1, <1>ph, PassWriteKeepsLatch
       DEF WriteProvisioning, At, Installed, Phase
<1>18. CASE BeginStep
  BY <1>18, <1>w, PassWriteKeepsLatch
     DEF BeginStep, At, Installed, Status, PassPc
<1>19. CASE DoStep
  <2>1. CASE pass.step = Identity
    BY <1>19, <2>1, IdentityKeepsLatch DEF DoStep, At, Goto
  <2>2. CASE pass.step # Identity
    <3>1. /\ pass'.pc = "complete" /\ UNCHANGED <<call, refused>>
          /\ pass'.step = pass.step /\ pass'.payload = pass.payload
      BY <1>19, <2>2, <1>g DEF DoStep, PassPc
    <3>2. CASE pass.step = Deployed
      <4>1. CallsKept
        BY <3>1 DEF CallsKept
      <4>2. QED
        BY <1>19, <2>2, <3>1, <3>2, <4>1, DeployKeepsLatch DEF DoStep, At
    <3>3. CASE pass.step # Deployed
      BY <1>19, <2>2, <3>1, <3>3, PassWriteKeepsLatch
         DEF DoStep, At, Installed
    <3>4. QED
      BY <3>2, <3>3
  <2>3. QED
    BY <2>1, <2>2
<1>20. CASE CompleteStep
  BY <1>20, CompleteKeepsLatch
<1>21. CASE FailStep
  <2>1. /\ pass'.pc = "failed"
        /\ pass'.step = pass.step /\ pass'.payload = pass.payload
        /\ \E copy \in Row : copy.observed = row.observed
                             /\ Send("pass", copy)
    BY <1>21, <1>w DEF FailStep, Status, PassPc
  <2>2. CallsKept
    BY <1>r, <2>1, StatusSend DEF Slot
  <2>3. CASE UNCHANGED cluster
    BY <1>21, <2>1, <2>3, PassWriteKeepsLatch DEF FailStep, At, Installed
  <2>4. CASE pass.pc = "work" /\ pass.step = Deployed /\ Deploy
    BY <1>21, <2>1, <2>2, <2>4, DeployKeepsLatch DEF FailStep
  <2>5. QED
    BY <1>21, <2>3, <2>4 DEF FailStep, At
<1>22. CASE WriteFailed
  <2>1. /\ pass'.pc = "error"
        /\ pass'.step = pass.step /\ pass'.payload = pass.payload
    BY <1>22, <1>g DEF WriteFailed, PassPc
  <2>2. QED
    BY <1>22, <2>1, <1>ph, PassWriteKeepsLatch
       DEF WriteFailed, At, Installed, Phase
<1>23. CASE ReturnError
  BY <1>23, PassWriteKeepsLatch DEF ReturnError
<1>24. CASE WriteHealthyInProgress
  BY <1>24, <1>w, PassWriteKeepsLatch
     DEF WriteHealthyInProgress, At, Installed, Status, PassPc
<1>25. CASE WriteRouteAddress
  <2>1. \/ \E copy \in Row : copy.observed = row.observed
                             /\ Send("pass", copy)
        \/ UNCHANGED <<call, refused>>
    BY <1>25, <1>r DEF WriteRouteAddress
  <2>2. /\ pass'.pc = "ack"
        /\ pass'.step = pass.step /\ pass'.payload = pass.payload
    BY <1>25, <1>g DEF WriteRouteAddress, PassPc
  <2>3. QED
    BY <1>25, <2>1, <2>2, PassWriteKeepsLatch
       DEF WriteRouteAddress, At, Installed
<1>26. CASE updateObservedGeneration
  BY <1>26, AcknowledgeKeepsLatch
<1>27. CASE AwaitReady
  <2>1. \/ \E copy \in Row : copy.observed = row.observed
                             /\ Send("pass", copy)
        \/ UNCHANGED <<call, refused>>
    BY <1>27, <1>w DEF AwaitReady, Status, PassPc
  <2>2. /\ pass'.pc \in {"running", "degraded", "park"}
        /\ pass'.step = pass.step /\ pass'.payload = pass.payload
    BY <1>27, <1>g, <1>w DEF AwaitReady, Status, PassPc
  <2>3. QED
    BY <1>27, <2>1, <2>2, PassWriteKeepsLatch
       DEF AwaitReady, At, Installed
<1>28. CASE WriteFinalPhase
  BY <1>28, <1>ph, PassWriteKeepsLatch DEF WriteFinalPhase, Phase
<1>29. CASE Teardown
  BY <1>29, TeardownKeepsLatch
<1>30. CASE HealthList
  BY <1>30, <1>s, BystanderKeepsLatch DEF HealthList
<1>31. CASE HealthWriteAddress
  BY <1>31, <1>r, <1>s, BystanderKeepsLatch DEF HealthWriteAddress
<1>32. CASE HealthObserve
  <2>1. ASSUME NEW d \in DesiredPhase(health.phase), NEW b \in BOOLEAN,
               HealthUpdate(d, b)
        PROVE  \/ \E copy \in Row : copy.observed = row.observed
                                    /\ Send("health", copy)
               \/ UNCHANGED <<call, refused>>
    <3>1. d \in Phase
      BY DEF DesiredPhase, Phase
    <3>2. completedConditions(health.conditions) \in Conditions
      BY <1>r DEF completedConditions, Conditions, Status
    <3>3. row.phase \in Phase /\ row.conditions \in Conditions
      BY <1>r DEF Row
    <3>4. \A ph \in Phase, cs \in Conditions :
            [row EXCEPT !.phase = ph, !.conditions = cs] \in Row
      BY <1>r, CopyTypes
    <3>5. \A ph \in Phase, cs \in Conditions :
            [row EXCEPT !.phase = ph, !.conditions = cs].observed
              = row.observed
      BY <1>r, StatusCopies
    <3>6. QED
      BY <2>1, <3>1, <3>2, <3>3, <3>4, <3>5 DEF HealthUpdate
  <2>2. \/ \E copy \in Row : copy.observed = row.observed
                             /\ Send("health", copy)
        \/ UNCHANGED <<call, refused>>
    BY <1>32, <2>1 DEF HealthObserve
  <2>3. QED
    BY <1>32, <2>2, <1>s, BystanderKeepsLatch DEF HealthObserve
<1>33. CASE PublishConsoleAddress
  BY <1>33, <1>r, <1>s, BystanderKeepsLatch DEF PublishConsoleAddress
<1>34. CASE UNCHANGED vars
  BY <1>34, WatchKeepsLatch DEF vars
<1>35. QED
  BY <1>1, <1>2, <1>3, <1>4, <1>5, <1>6, <1>7, <1>8, <1>9, <1>10, <1>11,
     <1>12, <1>13, <1>14, <1>15, <1>16, <1>17, <1>18, <1>19, <1>20, <1>21,
     <1>22, <1>23, <1>24, <1>25, <1>26, <1>27, <1>28, <1>29, <1>30, <1>31,
     <1>32, <1>33, <1>34
     DEF Next, ApiStep, WriterStep, WatchStep, PassStep, HealthStep

\* A created gateway has acknowledged nothing and nobody has a call in flight.
LEMMA LatchInit == Init => LatchInv
<1> SUFFICES ASSUME Init
             PROVE  LatchInv
  OBVIOUS
<1>1. row.generation = 1 /\ row.observed = 0
  BY NoRowType DEF Init, NoRow, Row
<1>2. \A s \in Slot : call[s] = NoRow
  BY DEF Init
<1>3. /\ latest = NoPayload /\ pass.payload = NoPayload
      /\ pass.pc = "idle"
  BY DEF Init, IdlePass
<1>4. SnapshotOf(NoPayload)
  BY <1>1, PayloadType DEF SnapshotOf
<1>5. QED
  BY <1>1, <1>2, <1>3, <1>4
     DEF LatchInv, SnapshotInv, CallInv, DeadInv, IdentityInv, LatchSound,
         Converged, Installed

\* While observed_generation equals generation, the cluster runs exactly the
\* stored desired state: updateObservedGeneration acknowledges only what the
\* pass installed, and Replace moves the generation with every change of the
\* desired state, whichever whole-row copies are saved in between and
\* whatever a restarted controller's late calls do.
THEOREM LatchIsSound == Spec => []LatchSound
<1>1. Init => Inv
  BY TypeInit, LatchInit DEF Inv
<1>2. Inv /\ [Next]_vars => Inv'
  BY TypeStep, LatchStep DEF Inv
<1>3. Inv => LatchSound
  BY DEF Inv, LatchInv
<1>4. QED
  BY <1>1, <1>2, <1>3, PTL DEF Spec
=============================================================================
