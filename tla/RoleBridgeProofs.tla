------------------------- MODULE RoleBridgeProofs --------------------------
(***************************************************************************)
(* Proofs about the role bridge: its types, and GTW-ACC-15 as the model    *)
(* states it, WipeIsProven, for any number of users, tiers and bindings    *)
(* and any interleaving of passes, as long as one fault at most happens.   *)
(***************************************************************************)
EXTENDS RoleBridge, BindingStoreProofs

EventType == {"none", "updated", "deleted"}
Payload == [type : EventType, role : Tiers, dirty : BOOLEAN]
Pass == [pc : {"idle", "confirm"} \cup KcRoles, want : SUBSET KcRoles, seen : SUBSET Bindings]

-----------------------------------------------------------------------------
(* Types *)

LEMMA Constants == "owner" \in Tiers /\ NoPayload \in Payload /\ NoPass \in Pass
  BY StoreAssumption DEF NoPayload, NoPass, Payload, Pass, EventType, KcRoles

LEMMA Vocabulary == \A role : keycloakRoleMap(role) \in SUBSET KcRoles /\ keycloakRoleMap(role) # {}
  BY DEF keycloakRoleMap, KcRoles

LEMMA UnionType == \A bs : unionKcRoles(bs) \in SUBSET KcRoles
  BY Vocabulary DEF unionKcRoles

\* Only an empty list implies no role.
LEMMA UnionEmpty == \A bs : unionKcRoles(bs) = {} => bs = {}
<1> SUFFICES ASSUME NEW bs, NEW b \in bs PROVE unionKcRoles(bs) # {}
  OBVIOUS
<1>1. PICK r \in keycloakRoleMap(binding[b].role) : TRUE
  BY Vocabulary
<1>2. r \in unionKcRoles(bs)
  BY <1>1 DEF unionKcRoles
<1>3. QED
  BY <1>2

LEMMA EnqueuedType ==
  ASSUME NEW q \in [Bindings -> Payload], NEW b \in Bindings, NEW type \in EventType, NEW role \in Tiers
  PROVE  Enqueued(q, b, type, role) \in [Bindings -> Payload]
  BY DEF Enqueued, Payload

LEMMA TypeParts ==
  ASSUME TypeOK
  PROVE  /\ queue \in [Bindings -> Payload] /\ pass \in [Bindings -> Pass]
         /\ StoreTypeOK /\ binding \in [Bindings -> BindingRow]
         /\ events \in [Bindings -> EventType]
  BY DEF TypeOK, StoreTypeOK, Payload, Pass, EventType

LEMMA ListedType ==
  ASSUME TypeOK
  PROVE  /\ DOMAIN Listed \subseteq Bindings /\ \A b \in DOMAIN Listed : Listed[b] \in Tiers
         /\ DOMAIN NoSnap \subseteq Bindings /\ \A b \in DOMAIN NoSnap : NoSnap[b] \in Tiers
  BY TypeParts DEF Listed, Live, BindingRow, NoSnap

\* Fault counts up to its bound.
LEMMA FaultType ==
  ASSUME TypeOK, Fault
  PROVE  faults' \in 0..MaxFaults /\ faults' >= 1 /\ faults < MaxFaults
  BY BridgeAssumption DEF TypeOK, Fault

\* What a pass step has to show: what it leaves alone, and the counter.
LEMMA StepType ==
  ASSUME TypeOK, KeepAllButPass, UNCHANGED faults \/ Fault,
         queue' \in [Bindings -> Payload], pass' \in [Bindings -> Pass],
         kc' \in [Users -> SUBSET KcRoles]
  PROVE  TypeOK'
  BY FaultType DEF TypeOK, KeepAllButPass, storeVars, StoreTypeOK, Payload, Pass, EventType

\* What a read of the user's bindings leaves of a pass.
LEMMA SurvivingType == \A b, type : Surviving(b, type) \in SUBSET Bindings
  BY LiveOfBindings DEF Surviving

\* The shapes a Handle step can have: the pass ends, or it holds what one
\* answer implied.
Reads(b, bs) ==
    LET ev == queue[b]
        own == IF ev.type = "deleted" THEN {} ELSE keycloakRoleMap(ev.role)
        want == unionKcRoles(bs) \cup own IN
    pass' = [pass EXCEPT ![b] = [pc |-> IF want = {} THEN "confirm" ELSE "openshell-admin",
                                 want |-> want,
                                 seen |-> IF want = {} THEN Surviving(b, ev.type) ELSE {}]]

LEMMA HandleShape ==
  ASSUME NEW b \in Bindings, Handle(b)
  PROVE  /\ queue' = [queue EXCEPT ![b].dirty = FALSE] /\ UNCHANGED kc /\ KeepAllButPass
         /\ UNCHANGED faults \/ Fault
         /\ \/ EndPass(b)
            \/ Reads(b, Surviving(b, queue[b].type)) /\ UNCHANGED faults
            \/ \E bs \in SUBSET Surviving(b, queue[b].type) : Reads(b, bs) /\ Fault
  BY DEF Handle, Reads, Drop

LEMMA ReadsType ==
  ASSUME TypeOK, NEW b \in Bindings, NEW bs, Reads(b, bs)
  PROVE  pass' \in [Bindings -> Pass]
<1>1. /\ unionKcRoles(bs) \in SUBSET KcRoles /\ keycloakRoleMap(queue[b].role) \in SUBSET KcRoles
      /\ Surviving(b, queue[b].type) \in SUBSET Bindings
  BY UnionType, Vocabulary, SurvivingType
<1>2. QED
  BY <1>1, TypeParts DEF Reads, Pass, KcRoles

LEMMA EndPassType ==
  ASSUME TypeOK, NEW b \in Bindings, EndPass(b)
  PROVE  pass' \in [Bindings -> Pass]
  BY TypeParts, Constants DEF EndPass

LEMMA PcType ==
  ASSUME TypeOK, NEW b \in Bindings, NEW r \in KcRoles
  PROVE  [pass EXCEPT ![b].pc = r] \in [Bindings -> Pass]
<1>1. [pass[b] EXCEPT !.pc = r] \in Pass
  BY TypeParts DEF Pass
<1>2. QED
  BY <1>1, TypeParts

LEMMA PcMoves ==
  ASSUME TypeOK, NEW b \in Bindings, NEW r \in KcRoles, pass' = [pass EXCEPT ![b].pc = r]
  PROVE  /\ pass'[b].pc = r /\ pass'[b].seen = pass[b].seen /\ pass'[b].want = pass[b].want
         /\ \A y \in Bindings : y # b => pass'[y] = pass[y]
<1>1. pass \in [Bindings -> Pass] /\ pass[b] \in Pass
  BY TypeParts
<1>2. pass'[b] = [pass[b] EXCEPT !.pc = r] /\ \A y \in Bindings : y # b => pass'[y] = pass[y]
  BY <1>1
<1>3. QED
  BY <1>1, <1>2 DEF Pass

LEMMA DirtyType ==
  ASSUME TypeOK, NEW b \in Bindings, NEW d \in BOOLEAN
  PROVE  [queue EXCEPT ![b].dirty = d] \in [Bindings -> Payload]
<1>1. queue \in [Bindings -> Payload]
  BY TypeParts
<1>2. [queue[b] EXCEPT !.dirty = d] \in Payload
  BY <1>1 DEF Payload
<1>3. QED
  BY <1>1, <1>2

LEMMA HandleType ==
  ASSUME TypeOK, NEW b \in Bindings, Handle(b)
  PROVE  TypeOK'
<1>1. queue' \in [Bindings -> Payload]
  BY HandleShape, DirtyType
<1>2. pass' \in [Bindings -> Pass]
  BY HandleShape, ReadsType, EndPassType
<1>3. kc' \in [Users -> SUBSET KcRoles]
  BY HandleShape DEF TypeOK
<1>4. QED
  BY <1>1, <1>2, <1>3, HandleShape, StepType

\* A Confirm step ends the pass or, its second answer empty, goes on to the
\* roles.
LEMMA ConfirmShape ==
  ASSUME NEW b \in Bindings, Confirm(b)
  PROVE  /\ UNCHANGED <<queue, kc>> /\ KeepAllButPass
         /\ UNCHANGED faults \/ Fault
         /\ pass[b].pc = "confirm"
         /\ \/ EndPass(b)
            \/ /\ pass' = [pass EXCEPT ![b].pc = "openshell-admin"]
               /\ Surviving(b, "deleted") = {} \/ Fault
  BY DEF Confirm, Drop

LEMMA ConfirmType ==
  ASSUME TypeOK, NEW b \in Bindings, Confirm(b)
  PROVE  TypeOK'
<1>1. pass' \in [Bindings -> Pass]
  BY ConfirmShape, EndPassType, PcType DEF KcRoles
<1>2. queue' \in [Bindings -> Payload] /\ kc' \in [Users -> SUBSET KcRoles]
  BY ConfirmShape, TypeParts DEF TypeOK
<1>3. QED
  BY <1>1, <1>2, ConfirmShape, StepType

\* An Apply step ends the pass or goes on to the next role.
LEMMA ApplyShape ==
  ASSUME NEW b \in Bindings, Apply(b)
  PROVE  /\ KeepAllButPass
         /\ UNCHANGED faults \/ Fault
         /\ pass[b].pc \in KcRoles
         /\ \/ EndPass(b)
            \/ pass' = [pass EXCEPT ![b].pc = "openshell-user"]
  BY DEF Apply, Drop, EndPass

LEMMA ApplyType ==
  ASSUME TypeOK, NEW b \in Bindings, Apply(b)
  PROVE  TypeOK'
<1>1. pass' \in [Bindings -> Pass]
  BY ApplyShape, EndPassType, PcType DEF KcRoles
<1>2. queue' \in [Bindings -> Payload]
  <2>1. queue' = queue \/ queue' = [queue EXCEPT ![b].dirty = TRUE]
    BY DEF Apply, Drop
  <2>2. QED
    BY <2>1, DirtyType, TypeParts
<1>3. kc' \in [Users -> SUBSET KcRoles]
  <2> DEFINE u == UserOf(b)
             after == IF pass[b].pc \in pass[b].want THEN kc[u] \cup {pass[b].pc} ELSE kc[u] \ {pass[b].pc}
  <2>1. kc \in [Users -> SUBSET KcRoles]
    BY DEF TypeOK
  <2>2. kc' = kc \/ kc' = [kc EXCEPT ![u] = after]
    BY DEF Apply, Drop, WithRole
  <2>3. u \in Users => after \in SUBSET KcRoles
    <3>1. pass[b].pc \in KcRoles
      BY ApplyShape
    <3>2. QED
      BY <2>1, <3>1
  <2> HIDE DEF u, after
  <2>4. QED
    BY <2>1, <2>2, <2>3
<1>4. QED
  BY <1>1, <1>2, <1>3, ApplyShape, StepType

LEMMA DeliverType ==
  ASSUME TypeOK, NEW b \in Bindings, Deliver(b)
  PROVE  TypeOK'
<1>1. events[b] \in EventType /\ binding[b].role \in Tiers
  BY TypeParts DEF BindingRow
<1>2. queue' \in [Bindings -> Payload]
  BY <1>1, TypeParts, EnqueuedType DEF Deliver
<1>3. faults' \in 0..MaxFaults
  BY FaultType DEF Deliver, TypeOK
<1>4. QED
  BY <1>2, <1>3 DEF Deliver, TypeOK, StoreTypeOK, Payload, EventType

\* The connection, the seed and the restart do not touch the store's rows.
LEMMA WatchType ==
  ASSUME TypeOK, Disconnect \/ Restart \/ Reconnect \/ SeedList \/ SeedEnqueue
  PROVE  TypeOK'
<1>1. CASE Disconnect
  BY <1>1, FaultType, ListedType DEF Disconnect, TypeOK, storeVars, StoreTypeOK
<1>2. CASE Restart
  <2>1. queue' \in [Bindings -> Payload] /\ pass' \in [Bindings -> Pass]
    BY <1>2, Constants DEF Restart
  <2>2. QED
    BY <1>2, <2>1, FaultType, ListedType
       DEF Restart, TypeOK, storeVars, StoreTypeOK, Payload, Pass, EventType
<1>3. CASE Reconnect
  BY <1>3, ListedType DEF Reconnect, TypeOK, StoreTypeOK
<1>4. CASE SeedList
  BY <1>4, ListedType DEF SeedList, TypeOK, storeVars, StoreTypeOK
<1>5. CASE SeedEnqueue
  <2>1. ASSUME NEW b \in Bindings, b \in DOMAIN snap
        PROVE  Enqueued(queue, b, "updated", snap[b])[b] \in Payload
    BY <2>1, EnqueuedType, TypeParts DEF TypeOK, EventType
  <2>2. queue' \in [Bindings -> Payload]
    BY <1>5, <2>1, TypeParts DEF SeedEnqueue
  <2>3. QED
    BY <1>5, <2>2, ListedType DEF SeedEnqueue, TypeOK, storeVars, StoreTypeOK, Payload, EventType
<1>6. QED
  BY <1>1, <1>2, <1>3, <1>4, <1>5

LEMMA BridgeStepType == TypeOK /\ Belongs /\ [Next]_vars => TypeOK' /\ Belongs'
<1> SUFFICES ASSUME TypeOK, Belongs, [Next]_vars PROVE TypeOK' /\ Belongs'
  OBVIOUS
<1>1. CASE StoreStep
  BY <1>1, StoreNextType DEF StoreStep, TypeOK, bridgeVars
<1>2. ASSUME NEW b \in Bindings, Deliver(b) \/ PassStep(b) PROVE TypeOK' /\ UNCHANGED binding
  <2>1. CASE Deliver(b)
    BY <2>1, DeliverType DEF Deliver
  <2>2. CASE Handle(b)
    BY <2>2, HandleType, HandleShape DEF KeepAllButPass, storeVars
  <2>3. CASE Confirm(b)
    BY <2>3, ConfirmType, ConfirmShape DEF KeepAllButPass, storeVars
  <2>4. CASE Apply(b)
    BY <2>4, ApplyType, ApplyShape DEF KeepAllButPass, storeVars
  <2>5. QED
    BY <1>2, <2>1, <2>2, <2>3, <2>4 DEF PassStep
<1>3. CASE Disconnect \/ Restart \/ Reconnect \/ SeedList \/ SeedEnqueue
  BY <1>3, WatchType DEF Disconnect, Restart, Reconnect, SeedList, SeedEnqueue, storeVars, Belongs
<1>4. CASE UNCHANGED vars
  BY <1>4 DEF vars, storeVars, bridgeVars, TypeOK, StoreTypeOK, Belongs
<1>5. QED
  BY <1>1, <1>2, <1>3, <1>4 DEF Next, Belongs

LEMMA BridgeInitType == Init => TypeOK /\ Belongs
<1> SUFFICES ASSUME Init PROVE TypeOK /\ Belongs
  OBVIOUS
<1>1. StoreTypeOK /\ Belongs
  BY StoreInitType DEF Init
<1>2. queue \in [Bindings -> Payload] /\ pass \in [Bindings -> Pass]
  BY Constants DEF Init
<1>3. QED
  BY <1>1, <1>2, BridgeAssumption DEF Init, TypeOK, NoSnap, Payload, Pass, EventType

\* The bridge's state keeps its types, and no binding is ever without a user:
\* every role a pass assigns is one of the client's, for a user that exists.
THEOREM BridgeTypeCorrect == Spec => []TypeOK
<1>1. Init => TypeOK /\ Belongs
  BY BridgeInitType
<1>2. TypeOK /\ Belongs /\ [Next]_vars => TypeOK' /\ Belongs'
  BY BridgeStepType
<1>3. QED
  BY <1>1, <1>2, PTL DEF Spec

-----------------------------------------------------------------------------
(* A last role is taken away only for bindings that are gone.  The first    *)
(* answer of a pass may have missed bindings, but that took the one fault;  *)
(* the second answer is then the truth, and it is empty only when every     *)
(* binding the pass could have seen has been deleted since.                 *)

\* An id that was never used has no user.
Unowned == \A b \in Bindings : binding[b].state = "unused" => binding[b].user = None

\* The bindings a pass could have seen were used then, and are still its
\* user's; there are some only if its first answer missed them.
SeenIsMissed ==
    \A b \in Bindings : \A x \in pass[b].seen :
        /\ binding[x].state # "unused"
        /\ pass[b].pc = "confirm" =>
             /\ x # b /\ binding[x].user = binding[b].user
             /\ faults >= 1

WipeInv == TypeOK /\ Belongs /\ Unowned /\ SeenIsMissed /\ WipeIsProven

\* A commit keeps what a pass has seen, and revives nothing.
LEMMA StoreKeepsSeen ==
  ASSUME WipeInv, StoreStep
  PROVE  Unowned' /\ SeenIsMissed' /\ WipeIsProven'
<1>1. StoreTypeOK /\ [StoreNext]_storeVars /\ UNCHANGED <<pass, faults>>
  BY DEF WipeInv, TypeOK, StoreStep, bridgeVars
<1>2. \A b \in Bindings : Ages(b)
  BY <1>1, StoreAges
<1>3. \A b \in Bindings : pass[b].seen \subseteq Bindings
  BY TypeParts DEF WipeInv, Pass
<1>4. Unowned'
  BY <1>2 DEF WipeInv, Unowned, Ages
<1>5. SeenIsMissed'
  <2> SUFFICES ASSUME NEW b \in Bindings, NEW x \in pass[b].seen
               PROVE  /\ binding'[x].state # "unused"
                      /\ pass[b].pc = "confirm" =>
                           /\ x # b /\ binding'[x].user = binding'[b].user
                           /\ faults >= 1
    BY <1>1 DEF SeenIsMissed
  <2>1. x \in Bindings /\ binding[x].state # "unused" /\ Ages(x) /\ Ages(b)
    BY <1>2, <1>3 DEF WipeInv, SeenIsMissed
  <2>2. binding'[x].state # "unused" /\ binding'[x].user = binding[x].user
    BY <2>1 DEF Ages
  <2>3. ASSUME pass[b].pc = "confirm"
        PROVE  x # b /\ binding'[x].user = binding'[b].user /\ faults >= 1
    <3>1. x # b /\ binding[x].user = binding[b].user /\ faults >= 1
      BY <2>3 DEF WipeInv, SeenIsMissed
    <3>2. binding[b].state # "unused"
      BY <2>1, <3>1, StoreAssumption DEF WipeInv, Belongs, Unowned
    <3>3. QED
      BY <2>1, <2>2, <3>1, <3>2 DEF Ages
  <2>4. QED
    BY <2>2, <2>3
<1>6. WipeIsProven'
  <2> SUFFICES ASSUME NEW b \in Bindings, pass[b].pc \in KcRoles, pass[b].want = {},
                      NEW x \in pass[b].seen
               PROVE  x \in Bindings /\ binding'[x].state # "live"
    BY <1>1 DEF WipeIsProven, Live
  <2>1. x \in Bindings /\ binding[x].state # "unused" /\ Ages(x) /\ x \notin Live
    BY <1>2, <1>3 DEF WipeInv, SeenIsMissed, WipeIsProven
  <2>2. QED
    BY <2>1 DEF Live, Ages
<1>7. QED
  BY <1>4, <1>5, <1>6

\* A pass that ends has seen nothing.
LEMMA EndKeepsSeen ==
  ASSUME WipeInv, NEW b \in Bindings, EndPass(b), UNCHANGED binding, UNCHANGED faults \/ Fault
  PROVE  SeenIsMissed' /\ WipeIsProven'
<1>1. pass'[b] = NoPass /\ \A x \in Bindings : x # b => pass'[x] = pass[x]
  BY TypeParts DEF EndPass, WipeInv
<1>2. NoPass.seen = {}
  BY DEF NoPass
<1>3. faults >= 1 => faults' >= 1
  BY FaultType DEF WipeInv
<1>4. SeenIsMissed'
  BY <1>1, <1>2, <1>3 DEF SeenIsMissed, WipeInv
<1>5. Live' = Live
  BY DEF Live
<1>6. WipeIsProven'
  BY <1>1, <1>2, <1>5 DEF WipeIsProven, WipeInv
<1>7. QED
  BY <1>4, <1>6

\* An answer that implies no role has either missed bindings, by a fault, or
\* there was none to see.
LEMMA ReadKeepsSeen ==
  ASSUME WipeInv, NEW b \in Bindings, NEW bs, Reads(b, bs), UNCHANGED binding,
         \/ bs = Surviving(b, queue[b].type) /\ UNCHANGED faults
         \/ Fault
  PROVE  SeenIsMissed' /\ WipeIsProven'
<1> DEFINE own == IF queue[b].type = "deleted" THEN {} ELSE keycloakRoleMap(queue[b].role)
           want == unionKcRoles(bs) \cup own
           sees == IF want = {} THEN Surviving(b, queue[b].type) ELSE {}
<1>1. /\ pass'[b].pc = IF want = {} THEN "confirm" ELSE "openshell-admin"
      /\ pass'[b].want = want /\ pass'[b].seen = sees
      /\ \A x \in Bindings : x # b => pass'[x] = pass[x]
  BY TypeParts DEF Reads, WipeInv
<1>2. faults >= 1 => faults' >= 1
  BY FaultType DEF WipeInv
<1>3. Live' = Live
  BY DEF Live
<1>4. ASSUME NEW x \in sees
      PROVE  /\ x \in Bindings /\ binding[x].state = "live" /\ x # b
             /\ binding[x].user = binding[b].user /\ faults' >= 1
  <2>1. want = {} /\ x \in Surviving(b, queue[b].type)
    BY <1>4
  <2>2. queue[b].type = "deleted"
    BY <2>1, Vocabulary
  <2>3. bs = {}
    BY <2>1, UnionEmpty
  <2>4. faults' >= 1
    BY <2>1, <2>3, FaultType DEF WipeInv
  <2>5. QED
    BY <2>1, <2>2, <2>4 DEF Surviving, LiveOf, Live, UserOf
<1> HIDE DEF sees, own
<1>5. SeenIsMissed'
  <2> SUFFICES ASSUME NEW y \in Bindings, NEW x \in pass'[y].seen
               PROVE  /\ binding[x].state # "unused"
                      /\ pass'[y].pc = "confirm" =>
                           /\ x # y /\ binding[x].user = binding[y].user
                           /\ faults' >= 1
    BY DEF SeenIsMissed
  <2>1. CASE y = b
    BY <1>1, <1>4, <2>1
  <2>2. CASE y # b
    BY <1>1, <1>2, <2>2 DEF SeenIsMissed, WipeInv
  <2>3. QED
    BY <2>1, <2>2
<1>6. WipeIsProven'
  <2> SUFFICES ASSUME NEW y \in Bindings, pass'[y].pc \in KcRoles, pass'[y].want = {}
               PROVE  pass'[y].seen \cap Live = {}
    BY <1>3 DEF WipeIsProven
  <2>1. y # b
    BY <1>1 DEF KcRoles
  <2>2. QED
    BY <1>1, <2>1 DEF WipeIsProven, WipeInv
<1>7. QED
  BY <1>5, <1>6

\* The second answer: with the one fault spent on the first it is the truth.
LEMMA ConfirmKeepsSeen ==
  ASSUME MaxFaults <= 1, WipeInv, NEW b \in Bindings, Confirm(b)
  PROVE  SeenIsMissed' /\ WipeIsProven'
<1>0. UNCHANGED binding /\ (UNCHANGED faults \/ Fault) /\ Live' = Live
  BY ConfirmShape DEF KeepAllButPass, storeVars, Live
<1>1. CASE EndPass(b)
  BY <1>0, <1>1, EndKeepsSeen
<1>2. CASE /\ pass' = [pass EXCEPT ![b].pc = "openshell-admin"]
           /\ Surviving(b, "deleted") = {} \/ Fault
  <2>1. /\ pass'[b].pc = "openshell-admin" /\ pass'[b].seen = pass[b].seen /\ pass[b].pc = "confirm"
        /\ \A y \in Bindings : y # b => pass'[y] = pass[y]
    BY <1>2, ConfirmShape, PcMoves DEF WipeInv, KcRoles
  <2>2. faults >= 1 => faults' >= 1
    BY <1>0, FaultType DEF WipeInv
  <2>3. ASSUME NEW x \in pass[b].seen, x \in Live PROVE FALSE
    <3>1. x # b /\ binding[x].user = binding[b].user /\ faults >= 1
      BY <2>1 DEF WipeInv, SeenIsMissed
    <3>2. x \in Surviving(b, "deleted")
      BY <2>3, <3>1 DEF Surviving, LiveOf, UserOf
    <3>3. ~Fault
      BY <3>1, FaultType, BridgeAssumption DEF WipeInv, TypeOK
    <3>4. QED
      BY <1>2, <3>2, <3>3
  <2>4. SeenIsMissed'
    BY <1>0, <2>1, <2>2 DEF SeenIsMissed, WipeInv
  <2>5. WipeIsProven'
    BY <1>0, <2>1, <2>3 DEF WipeIsProven, WipeInv
  <2>6. QED
    BY <2>4, <2>5
<1>3. QED
  BY <1>1, <1>2, ConfirmShape

LEMMA ApplyKeepsSeen ==
  ASSUME WipeInv, NEW b \in Bindings, Apply(b)
  PROVE  SeenIsMissed' /\ WipeIsProven'
<1>0. UNCHANGED binding /\ (UNCHANGED faults \/ Fault) /\ Live' = Live
  BY ApplyShape DEF KeepAllButPass, storeVars, Live
<1>1. CASE EndPass(b)
  BY <1>0, <1>1, EndKeepsSeen
<1>2. CASE pass' = [pass EXCEPT ![b].pc = "openshell-user"]
  <2>1. /\ pass'[b].pc = "openshell-user" /\ pass'[b].seen = pass[b].seen
        /\ pass'[b].want = pass[b].want /\ pass[b].pc \in KcRoles
        /\ \A y \in Bindings : y # b => pass'[y] = pass[y]
    BY <1>2, ApplyShape, PcMoves DEF WipeInv, KcRoles
  <2>2. faults >= 1 => faults' >= 1
    BY <1>0, FaultType DEF WipeInv
  <2>3. SeenIsMissed'
    BY <1>0, <2>1, <2>2 DEF SeenIsMissed, WipeInv
  <2>4. WipeIsProven'
    BY <1>0, <2>1 DEF WipeIsProven, WipeInv
  <2>5. QED
    BY <2>3, <2>4
<1>3. QED
  BY <1>1, <1>2, ApplyShape

\* What touches neither the rows nor the passes, or forgets every pass.
LEMMA WatchKeepsSeen ==
  ASSUME WipeInv, UNCHANGED binding, UNCHANGED faults \/ Fault,
         UNCHANGED pass \/ pass' = [b \in Bindings |-> NoPass]
  PROVE  SeenIsMissed' /\ WipeIsProven'
<1>1. (faults >= 1 => faults' >= 1) /\ Live' = Live /\ NoPass.seen = {}
  BY FaultType DEF WipeInv, Live, NoPass
<1>2. CASE UNCHANGED pass
  BY <1>1, <1>2 DEF SeenIsMissed, WipeIsProven, WipeInv
<1>3. CASE pass' = [b \in Bindings |-> NoPass]
  BY <1>1, <1>3 DEF SeenIsMissed, WipeIsProven
<1>4. QED
  BY <1>2, <1>3

LEMMA WipeStep == ASSUME MaxFaults <= 1 PROVE WipeInv /\ [Next]_vars => WipeInv'
<1> SUFFICES ASSUME WipeInv, [Next]_vars PROVE WipeInv'
  OBVIOUS
<1>0. TypeOK' /\ Belongs'
  BY BridgeStepType DEF WipeInv
<1>1. CASE StoreStep
  BY <1>0, <1>1, StoreKeepsSeen DEF WipeInv
<1>2. ASSUME NEW b \in Bindings, Deliver(b) \/ PassStep(b)
      PROVE  UNCHANGED binding /\ SeenIsMissed' /\ WipeIsProven'
  <2>1. CASE Deliver(b)
    BY <2>1, WatchKeepsSeen DEF Deliver
  <2>2. CASE Handle(b)
    BY <2>2, HandleShape, EndKeepsSeen, ReadKeepsSeen DEF KeepAllButPass, storeVars
  <2>3. CASE Confirm(b)
    BY <2>3, ConfirmKeepsSeen, ConfirmShape DEF KeepAllButPass, storeVars
  <2>4. CASE Apply(b)
    BY <2>4, ApplyKeepsSeen, ApplyShape DEF KeepAllButPass, storeVars
  <2>5. QED
    BY <1>2, <2>1, <2>2, <2>3, <2>4 DEF PassStep
<1>3. CASE Disconnect \/ Restart \/ Reconnect \/ SeedList \/ SeedEnqueue
  <2>1. UNCHANGED binding
    BY <1>3 DEF Disconnect, Restart, Reconnect, SeedList, SeedEnqueue, storeVars
  <2>2. UNCHANGED faults \/ Fault
    BY <1>3 DEF Disconnect, Restart, Reconnect, SeedList, SeedEnqueue
  <2>3. UNCHANGED pass \/ pass' = [b \in Bindings |-> NoPass]
    BY <1>3 DEF Disconnect, Restart, Reconnect, SeedList, SeedEnqueue
  <2>4. QED
    BY <1>0, <2>1, <2>2, <2>3, WatchKeepsSeen DEF WipeInv, Unowned
<1>4. CASE UNCHANGED vars
  BY <1>0, <1>4, WatchKeepsSeen DEF vars, storeVars, bridgeVars, WipeInv, Unowned
<1>5. QED
  BY <1>0, <1>1, <1>2, <1>3, <1>4 DEF Next, WipeInv, Unowned

LEMMA WipeInit == Init => WipeInv
<1> SUFFICES ASSUME Init PROVE WipeInv
  OBVIOUS
<1>1. TypeOK /\ Belongs
  BY BridgeInitType
<1>2. Unowned
  BY DEF Init, StoreInit, NoBinding, Unowned
<1>3. SeenIsMissed /\ WipeIsProven
  BY DEF Init, NoPass, SeenIsMissed, WipeIsProven
<1>4. QED
  BY <1>1, <1>2, <1>3 DEF WipeInv

\* GTW-ACC-15: as long as a list misses bindings at most once, a pass of the
\* reconciler takes a user's last roles away only when every binding that
\* survived its first read has been deleted since, whatever passes, commits,
\* seeds, broken streams and restarts come between its two reads.
THEOREM OneMissWipesNothing == ASSUME MaxFaults <= 1 PROVE Spec => []WipeIsProven
<1>1. Init => WipeInv
  BY WipeInit
<1>2. WipeInv /\ [Next]_vars => WipeInv'
  BY WipeStep
<1>3. WipeInv => WipeIsProven
  BY DEF WipeInv
<1>4. QED
  BY <1>1, <1>2, <1>3, PTL DEF Spec

=============================================================================
