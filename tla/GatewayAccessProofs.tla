------------------------ MODULE GatewayAccessProofs ------------------------
(***************************************************************************)
(* Proofs about GatewayAccess, for any users, requests and bindings: its   *)
(* types, that it implements BindingStore, and that a gateway keeps an     *)
(* owner unless a delete went ahead on a role read too early.              *)
(***************************************************************************)
EXTENDS GatewayAccess, BindingStoreProofs, FiniteSetTheorems

\* A count above one shows two different members.
LEMMA MoreThanOne ==
  ASSUME NEW S, Cardinality(S) > 1
  PROVE  \E x, y \in S : x # y
<1>1. CASE S = {}
  BY <1>1, FS_EmptySet
<1>2. ASSUME NEW x \in S, \A y \in S : y = x PROVE FALSE
  <2>1. S = {x}
    BY <1>2
  <2>2. QED
    BY <2>1, FS_Singleton
<1>3. QED
  BY <1>1, <1>2

LEMMA OwnersBy ==
  \A u \in Users : u \in Owners <=>
    \E b \in Bindings : binding[b].state = "live" /\ binding[b].user = u /\ binding[b].role = "owner"
  BY DEF Owners, RolesOf, LiveOf, Live

-----------------------------------------------------------------------------
(* Types *)

\* Who an operation is for is known from its request on.
Targets == \A w \in Requests : op[w].pc # "idle" /\ op[w].kind # "delete" => op[w].target \in Users

TypeInv == TypeOK /\ Belongs /\ Targets

LEMMA IdleType == Idle \in Op
  BY StoreAssumption DEF Idle, Op, Bindings, Facade

LEMMA InitTypeInv == Init => TypeInv
<1> SUFFICES ASSUME Init PROVE TypeInv
  OBVIOUS
<1>1. \A w \in Requests : op[w] = Idle
  BY DEF Init
<1>2. Targets
  BY <1>1 DEF Targets, Idle
<1>3. TypeOK /\ Belongs
  BY StoreInitType, IdleType DEF Init, TypeOK
<1>4. QED
  BY <1>2, <1>3 DEF TypeInv

LEMMA BeginTypeInv ==
  ASSUME TypeInv, NEW w \in Requests, NEW pc \in {"check", "write"},
         NEW kind \in Facade \cup {"create", "delete"}, NEW c \in Users \cup {None},
         NEW t \in Users \cup {None}, NEW tier \in Tiers, NEW b \in Bindings,
         kind # "delete" => t \in Users, Begin(w, pc, kind, c, t, tier, b)
  PROVE  TypeInv'
<1>1. op' \in [Requests -> Op]
  BY DEF Begin, TypeInv, TypeOK, Op
<1>2. \A v \in Requests : op'[v] = op[v] \/ (op'[v].kind = kind /\ op'[v].target = t)
  <2>1. op'[w] = [pc |-> pc, kind |-> kind, caller |-> c, target |-> t, tier |-> tier, b |-> b]
    BY DEF Begin, TypeInv, TypeOK
  <2>2. \A v \in Requests : v # w => op'[v] = op[v]
    BY DEF Begin, TypeInv, TypeOK
  <2>3. op'[w].kind = kind /\ op'[w].target = t
    BY <2>1
  <2>4. QED
    BY <2>2, <2>3
<1>3. Targets'
  BY <1>2 DEF Targets, TypeInv
<1>4. UNCHANGED <<storeVars, lock, stale>>
  BY DEF Begin
<1>5. QED
  BY <1>1, <1>3, <1>4 DEF TypeInv, TypeOK, StoreTypeOK, Belongs, storeVars

\* The write of a request is a commit of the store, or changes nothing.
LEMMA WriteCommits ==
  ASSUME TypeInv, NEW w \in Requests, Write(w)
  PROVE  [StoreNext]_storeVars
<1> DEFINE o == op[w]
<1>1. o \in Op /\ (o.kind # "delete" => o.target \in Users)
  BY DEF TypeInv, TypeOK, Targets, Write
<1>2. UNCHANGED gateway
  BY DEF Write
<1>3. CASE o.kind \in {"grant", "change"}
  <2>1. HasId(o.target) /\ Commit(SetGatewayRole(o.target, o.tier))
    BY <1>3 DEF Write
  <2>2. o.target \in Users /\ o.tier \in Tiers
    BY <1>1, <1>3 DEF Op
  <2>3. Change(o.target)
    BY <1>2, <2>1, <2>2 DEF Change
  <2>4. QED
    BY <2>2, <2>3 DEF StoreNext
<1>4. CASE o.kind = "revoke"
  <2>1. Commit(RevokeGatewayAccess(o.target))
    BY <1>4 DEF Write
  <2>2. QED
    BY <1>1, <1>2, <1>4, <2>1 DEF Change, StoreNext
<1>5. CASE o.kind = "create"
  <2>1. Unused # {} /\ Commit(Created(o.target, o.tier))
    BY <1>5 DEF Write
  <2>2. o.target \in Users /\ o.tier \in Tiers
    BY <1>1, <1>5 DEF Op
  <2>3. QED
    BY <1>2, <2>1, <2>2 DEF Change, StoreNext
<1>6. CASE o.kind = "delete"
  <2>1. Commit(Deleted({o.b}))
    BY <1>6 DEF Write
  <2>2. CASE o.b \in Live
    <3>1. binding[o.b].user \in Users /\ o.b \in LiveOf(binding[o.b].user)
      BY <2>2 DEF TypeInv, Belongs, LiveOf, Live
    <3>2. QED
      BY <1>2, <2>1, <3>1 DEF Change, StoreNext
  <2>3. CASE o.b \notin Live
    <3>1. Deleted({o.b}) = binding
      BY <2>3 DEF Deleted, TypeInv, TypeOK, StoreTypeOK
    <3>2. events' = events
      BY <2>1, <3>1 DEF Commit, TypeInv, TypeOK, StoreTypeOK
    <3>3. QED
      BY <1>2, <2>1, <3>1, <3>2 DEF Commit, storeVars
  <2>4. QED
    BY <2>2, <2>3
<1>7. QED
  BY <1>1, <1>3, <1>4, <1>5, <1>6 DEF Op, Facade

LEMMA NextTypeInv == TypeInv /\ [Next]_vars => TypeInv'
<1> SUFFICES ASSUME TypeInv, [Next]_vars PROVE TypeInv'
  OBVIOUS
<1>1. ASSUME NEW w \in Requests, NEW c \in Users, NEW t \in Users, NEW tier \in Tiers,
             \/ RequestGrant(w, c, t, tier) \/ RequestChange(w, c, t, tier)
             \/ RequestCreate(w, c, t, tier) \/ RequestRevoke(w, c, t)
      PROVE  TypeInv'
  <2>1. 1 \in Bindings /\ "owner" \in Tiers
    BY StoreAssumption DEF Bindings
  <2>2. CASE RequestGrant(w, c, t, tier)
    BY <2>1, <2>2, BeginTypeInv DEF RequestGrant, Facade
  <2>3. CASE RequestChange(w, c, t, tier)
    BY <2>1, <2>3, BeginTypeInv DEF RequestChange, Facade
  <2>4. CASE RequestCreate(w, c, t, tier)
    BY <2>1, <2>4, BeginTypeInv DEF RequestCreate, Facade
  <2>5. CASE RequestRevoke(w, c, t)
    BY <2>1, <2>5, BeginTypeInv DEF RequestRevoke, Facade
  <2>6. QED
    BY <1>1, <2>2, <2>3, <2>4, <2>5
<1>2. ASSUME NEW w \in Requests, NEW c \in Users, NEW b \in Bindings, RequestDelete(w, c, b)
      PROVE  TypeInv'
  <2>1. binding[b].role \in Tiers
    BY DEF TypeInv, TypeOK, StoreTypeOK, BindingRow
  <2>2. QED
    BY <1>2, <2>1, BeginTypeInv DEF RequestDelete
<1>3. ASSUME NEW w \in Requests, Check(w) \/ Rollback(w) PROVE TypeInv'
  <2>1. op' \in [Requests -> Op]
    BY <1>3, IdleType DEF Check, Rollback, TypeInv, TypeOK, Op
  <2>2. \A v \in Requests : \/ op'[v].pc = "idle"
                            \/ /\ op[v].pc # "idle" /\ op'[v].kind = op[v].kind
                               /\ op'[v].target = op[v].target
                            \/ op'[v] = op[v]
    BY <1>3 DEF Check, Rollback, TypeInv, TypeOK, Op, Idle
  <2>3. lock' \in Requests \cup {None}
    BY <1>3 DEF Check, Rollback, Release, TypeInv, TypeOK
  <2>4. UNCHANGED <<storeVars, stale>>
    BY <1>3 DEF Check, Rollback
  <2>5. Targets'
    BY <2>2 DEF Targets, TypeInv
  <2>6. QED
    BY <2>1, <2>3, <2>4, <2>5 DEF TypeInv, TypeOK, StoreTypeOK, Belongs, storeVars
<1>4. ASSUME NEW w \in Requests, Write(w) PROVE TypeInv'
  <2>1. StoreTypeOK' /\ Belongs'
    BY <1>4, WriteCommits, StoreNextType DEF TypeInv, TypeOK
  <2>2. op' = [op EXCEPT ![w] = Idle]
    BY <1>4 DEF Write
  <2>3. Targets'
    BY <2>2 DEF Targets, TypeInv, TypeOK, Idle
  <2>4. stale' \in BOOLEAN /\ lock' \in Requests \cup {None}
    BY <1>4 DEF Write, Release, TypeInv, TypeOK, StaleDelete
  <2>5. QED
    BY <2>1, <2>2, <2>3, <2>4, IdleType DEF TypeInv, TypeOK
<1>5. CASE Teardown
  <2>1. StoreTypeOK' /\ Belongs'
    BY <1>5, StoreNextType DEF Teardown, StoreNext, TypeInv, TypeOK
  <2>2. QED
    BY <1>5, <2>1 DEF Teardown, TypeInv, TypeOK, Targets
<1>6. CASE UNCHANGED vars
  BY <1>6 DEF vars, storeVars, TypeInv, TypeOK, StoreTypeOK, Belongs, Targets
<1>7. QED
  BY <1>1, <1>2, <1>3, <1>4, <1>5, <1>6, StoreAssumption DEF Next

\* TypeOK of GatewayAccess, for any users, requests and bindings.
THEOREM AccessTypeCorrect == Spec => []TypeOK
<1>1. TypeInv => TypeOK
  BY DEF TypeInv
<1>2. QED
  BY <1>1, InitTypeInv, NextTypeInv, PTL DEF Spec

-----------------------------------------------------------------------------
(* Refinement *)

LEMMA StepCommits == TypeInv /\ [Next]_vars => [StoreNext]_storeVars
<1> SUFFICES ASSUME TypeInv, [Next]_vars PROVE [StoreNext]_storeVars
  OBVIOUS
<1>1. ASSUME NEW w \in Requests, NEW c \in Users, NEW t \in Users, NEW tier \in Tiers,
             \/ RequestGrant(w, c, t, tier) \/ RequestChange(w, c, t, tier)
             \/ RequestCreate(w, c, t, tier) \/ RequestRevoke(w, c, t)
      PROVE  UNCHANGED storeVars
  BY <1>1 DEF RequestGrant, RequestChange, RequestCreate, RequestRevoke, Begin
<1>2. ASSUME NEW w \in Requests, NEW c \in Users, NEW b \in Bindings, RequestDelete(w, c, b)
      PROVE  UNCHANGED storeVars
  BY <1>2 DEF RequestDelete, Begin
<1>3. ASSUME NEW w \in Requests, Check(w) \/ Rollback(w) PROVE UNCHANGED storeVars
  BY <1>3 DEF Check, Rollback
<1>4. ASSUME NEW w \in Requests, Write(w) PROVE [StoreNext]_storeVars
  BY <1>4, WriteCommits
<1>5. CASE Teardown
  BY <1>5 DEF Teardown, StoreNext
<1>6. CASE UNCHANGED vars
  BY <1>6 DEF vars
<1>7. QED
  BY <1>1, <1>2, <1>3, <1>4, <1>5, <1>6, StoreAssumption DEF Next

\* Every run of the two write paths is a run of BindingStore: each request
\* changes the bindings of one user, at once or not at all.
THEOREM AccessImplementsStore == Spec => StoreSpec
<1>1. Init => StoreInit
  BY DEF Init
<1>2. QED
  BY <1>1, InitTypeInv, NextTypeInv, StepCommits, PTL DEF Spec, StoreSpec

-----------------------------------------------------------------------------
(* The last owner.  A request that has passed its check under the lock and  *)
(* is about to take ownership away still has another owner to leave: only   *)
(* a lock holder takes owners away, but for a stale delete.                 *)

Leaves(o) ==
    IF o.kind = "delete" THEN \E u, v \in Owners : u # v
    ELSE (o.kind = "revoke" \/ o.tier # "owner") => \E u \in Owners : u # o.target

Locked(w) == op[w].pc = "write" /\ TakesLock(op[w])

OwnerInv ==
    /\ TypeInv
    /\ \A w \in Requests : Locked(w) => lock = w
    /\ OwnerKept
    /\ gateway = "present" /\ ~stale => \A w \in Requests : Locked(w) => Leaves(op[w])

LEMMA InitOwnerInv == Init => OwnerInv
<1> SUFFICES ASSUME Init PROVE OwnerInv
  OBVIOUS
<1>1. \A w \in Requests : ~Locked(w)
  BY DEF Init, Locked, Idle
<1>2. Creator \in Owners
  <2>1. 1 \in Bindings
    BY StoreAssumption DEF Bindings
  <2>2. binding[1] = [user |-> Creator, role |-> "owner", state |-> "live"]
    BY <2>1 DEF Init, StoreInit
  <2>3. QED
    BY <2>1, <2>2, OwnersBy, StoreAssumption
<1>3. QED
  BY <1>1, <1>2, InitTypeInv DEF OwnerInv, OwnerKept

\* The check lets only a request pass that leaves an owner.
LEMMA AllowedLeaves ==
  ASSUME TypeInv, NEW w \in Requests, op[w].pc = "check", TakesLock(op[w]), Allowed(op[w]),
         Owners # {}
  PROVE  Leaves(op[w])
<1> DEFINE o == op[w]
<1>1. o \in Op
  BY DEF TypeInv, TypeOK
<1>2. CASE o.kind = "delete"
  <2>1. guardLastGatewayOwner(o.tier) /\ o.tier = "owner"
    BY <1>2 DEF Allowed, TakesLock, Facade
  <2>2. Cardinality(Owners) > 1
    BY <2>1 DEF guardLastGatewayOwner
  <2>3. QED
    BY <1>2, <2>2, MoreThanOne DEF Leaves
<1>3. ASSUME o.kind \in Facade, NEW new, guardLastOwner(o.target, new), new # "owner"
      PROVE  \E u \in Owners : u # o.target
  <2>1. CASE o.target \in Owners
    <3>1. Cardinality(Owners) > 1
      BY <1>3, <2>1 DEF guardLastOwner
    <3>2. QED
      BY <3>1, MoreThanOne
  <2>2. CASE o.target \notin Owners
    BY <2>2
  <2>3. QED
    BY <2>1, <2>2
<1>4. CASE o.kind = "revoke"
  BY <1>3, <1>4 DEF Allowed, Leaves, Facade
<1>5. CASE o.kind \in {"grant", "change"}
  BY <1>3, <1>5 DEF Allowed, Leaves, Facade
<1>6. QED
  BY <1>1, <1>2, <1>4, <1>5 DEF TakesLock, Facade

Ownership(b, u) == binding[b].state = "live" /\ binding[b].user = u /\ binding[b].role = "owner"

LEMMA OwnersByNext ==
  \A u \in Users : u \in Owners' <=>
    \E b \in Bindings : binding'[b].state = "live" /\ binding'[b].user = u /\ binding'[b].role = "owner"
  BY DEF Owners, RolesOf, LiveOf, Live

\* An owner whose owner bindings are left alone stays one.
LEMMA OwnerStays ==
  ASSUME NEW u \in Owners, \A b \in Bindings : Ownership(b, u) => binding'[b] = binding[b]
  PROVE  u \in Owners'
<1>1. u \in Users
  BY DEF Owners
<1>2. PICK b \in Bindings : Ownership(b, u)
  BY <1>1, OwnersBy DEF Ownership
<1>3. binding'[b] = binding[b]
  BY <1>2
<1>4. QED
  BY <1>1, <1>2, <1>3, OwnersByNext DEF Ownership

\* The writers without the lock take no owner away.
LEMMA UnlockedWrite ==
  ASSUME TypeInv, NEW w \in Requests, Write(w), ~TakesLock(op[w]), ~StaleDelete(op[w])
  PROVE  Owners \subseteq Owners'
<1> DEFINE o == op[w]
<1>1. o \in Op /\ (o.kind # "delete" => o.target \in Users)
  BY DEF TypeInv, TypeOK, Targets, Write
<1>2. SUFFICES ASSUME NEW u \in Owners, NEW b \in Bindings, Ownership(b, u) PROVE binding'[b] = binding[b]
  BY OwnerStays
<1>3. CASE o.kind = "create"
  <2>1. Unused # {} /\ binding' = Created(o.target, o.tier)
    BY <1>3 DEF Write, Commit
  <2>2. o.target \in Users /\ o.tier \in Tiers /\ StoreTypeOK
    BY <1>1, <1>3 DEF Op, TypeInv, TypeOK
  <2>3. \E n \in Unused : \A x \in Bindings : x # n => Created(o.target, o.tier)[x] = binding[x]
    BY <2>1, <2>2, CreatedFacts
  <2>4. b \notin Unused
    BY <1>2 DEF Ownership, Unused
  <2>5. QED
    BY <2>1, <2>3, <2>4
<1>4. CASE o.kind = "delete"
  <2>1. binding' = Deleted({o.b})
    BY <1>4 DEF Write, Commit
  <2>2. o.b # b \/ o.b \notin Live
    BY <1>2, <1>4 DEF Ownership, StaleDelete, TakesLock, Facade
  <2>3. b \notin {o.b} \cap Live
    BY <2>2
  <2>4. QED
    BY <2>1, <2>3, DeletedFacts DEF TypeInv, TypeOK
<1>5. QED
  BY <1>1, <1>3, <1>4 DEF TakesLock, Op, Facade

\* A lock holder leaves an owner.
LEMMA LockedWrite ==
  ASSUME TypeInv, NEW w \in Requests, Write(w), TakesLock(op[w]), Leaves(op[w])
  PROVE  Owners' # {}
<1> DEFINE o == op[w]
<1>1. o \in Op /\ (o.kind # "delete" => o.target \in Users)
  BY DEF TypeInv, TypeOK, Targets, Write
<1>2. StoreTypeOK
  BY DEF TypeInv, TypeOK
<1>3. CASE o.kind = "delete"
  <2>1. PICK u \in Owners : u # binding[o.b].user
    BY <1>3 DEF Leaves
  <2>2. binding' = Deleted({o.b})
    BY <1>3 DEF Write, Commit
  <2>3. ASSUME NEW b \in Bindings, Ownership(b, u) PROVE binding'[b] = binding[b]
    <3>1. b \notin {o.b} \cap Live
      BY <2>1, <2>3 DEF Ownership
    <3>2. QED
      BY <1>2, <2>2, <3>1, DeletedFacts
  <2>4. QED
    BY <2>3, OwnerStays
<1>4. CASE o.kind = "revoke"
  <2>1. PICK u \in Owners : u # o.target
    BY <1>4 DEF Leaves
  <2>2. binding' = Deleted(LiveOf(o.target))
    BY <1>4 DEF Write, Commit, RevokeGatewayAccess
  <2>3. ASSUME NEW b \in Bindings, Ownership(b, u) PROVE binding'[b] = binding[b]
    <3>1. b \notin LiveOf(o.target) \cap Live
      BY <2>1, <2>3 DEF Ownership, LiveOf
    <3>2. QED
      BY <1>2, <2>2, <3>1, DeletedFacts
  <2>4. QED
    BY <2>3, OwnerStays
<1>5. CASE o.kind \in {"grant", "change"}
  <2>1. HasId(o.target) /\ binding' = SetGatewayRole(o.target, o.tier)
    BY <1>5 DEF Write, Commit
  <2>2. o.target \in Users /\ o.tier \in Tiers
    BY <1>1, <1>5 DEF Op
  <2>3. PICK n \in Bindings :
          /\ SetGatewayRole(o.target, o.tier)[n] = [user |-> o.target, role |-> o.tier, state |-> "live"]
          /\ n \in Unused \/ n \in LiveOf(o.target)
          /\ \A b \in Bindings : b # n =>
               \/ SetGatewayRole(o.target, o.tier)[b] = binding[b]
               \/ /\ b \in LiveOf(o.target)
                  /\ SetGatewayRole(o.target, o.tier)[b] = [binding[b] EXCEPT !.state = "deleted"]
    BY <1>2, <2>1, <2>2, SetFacts
  <2>4. CASE o.tier = "owner"
    <3>1. binding'[n].state = "live" /\ binding'[n].user = o.target /\ binding'[n].role = "owner"
      BY <2>1, <2>3, <2>4
    <3>2. QED
      BY <2>2, <3>1, OwnersByNext
  <2>5. CASE o.tier # "owner"
    <3>1. PICK u \in Owners : u # o.target
      BY <1>5, <2>5 DEF Leaves
    <3>2. ASSUME NEW b \in Bindings, Ownership(b, u) PROVE binding'[b] = binding[b]
      <4>1. b \notin Unused /\ b \notin LiveOf(o.target)
        BY <3>1, <3>2 DEF Ownership, Unused, LiveOf
      <4>2. QED
        BY <2>1, <2>3, <4>1
    <3>3. QED
      BY <3>2, OwnerStays
  <2>6. QED
    BY <2>4, <2>5
<1>6. QED
  BY <1>1, <1>3, <1>4, <1>5 DEF TakesLock, Facade

\* A step that leaves the bindings and the requests under the lock alone keeps
\* the invariant.
LEMMA QuietStep ==
  ASSUME OwnerInv, TypeInv', UNCHANGED <<storeVars, stale>>,
         \A v \in Requests : Locked(v)' => Locked(v) /\ op'[v] = op[v] /\ lock' = lock
  PROVE  OwnerInv'
<1>1. Owners' = Owners
  BY DEF Owners, RolesOf, LiveOf, Live, storeVars
<1>2. OwnerKept'
  BY <1>1 DEF OwnerInv, OwnerKept, storeVars
<1>3. \A v \in Requests : Locked(v)' => lock' = v
  BY DEF OwnerInv
<1>4. ASSUME NEW v \in Requests, Locked(v)', gateway = "present", ~stale PROVE Leaves(op[v])'
  <2>1. Leaves(op[v]) /\ op'[v] = op[v]
    BY <1>4 DEF OwnerInv
  <2>2. QED
    BY <1>1, <2>1 DEF Leaves
<1>5. QED
  BY <1>2, <1>3, <1>4 DEF OwnerInv, storeVars

LEMMA NextOwnerInv == OwnerInv /\ [Next]_vars => OwnerInv'
<1> SUFFICES ASSUME OwnerInv, [Next]_vars PROVE OwnerInv'
  OBVIOUS
<1>0. TypeInv /\ TypeInv' /\ op \in [Requests -> Op]
  BY NextTypeInv DEF OwnerInv, TypeInv, TypeOK
<1>1. ASSUME NEW w \in Requests, NEW pc, NEW kind, NEW c, NEW t, NEW tier, NEW b,
             Begin(w, pc, kind, c, t, tier, b), pc = "check" \/ kind = "create"
      PROVE  OwnerInv'
  <2>1. \A v \in Requests : v # w => op'[v] = op[v]
    BY <1>0, <1>1 DEF Begin
  <2>2. op'[w] = [pc |-> pc, kind |-> kind, caller |-> c, target |-> t, tier |-> tier, b |-> b]
    BY <1>0, <1>1 DEF Begin
  <2>3. ~Locked(w)'
    BY <1>1, <2>2 DEF Locked, TakesLock, Facade
  <2>4. UNCHANGED <<storeVars, lock, stale>>
    BY <1>1 DEF Begin
  <2>5. QED
    BY <1>0, <2>1, <2>3, <2>4, QuietStep DEF Locked
<1>2. ASSUME NEW w \in Requests, NEW c \in Users, NEW t \in Users, NEW tier \in Tiers,
             \/ RequestGrant(w, c, t, tier) \/ RequestChange(w, c, t, tier)
             \/ RequestCreate(w, c, t, tier) \/ RequestRevoke(w, c, t)
      PROVE  OwnerInv'
  BY <1>1, <1>2 DEF RequestGrant, RequestChange, RequestCreate, RequestRevoke
<1>3. ASSUME NEW w \in Requests, NEW c \in Users, NEW b \in Bindings, RequestDelete(w, c, b)
      PROVE  OwnerInv'
  BY <1>1, <1>3 DEF RequestDelete
<1>4. ASSUME NEW w \in Requests, Check(w) PROVE OwnerInv'
  <2>1. UNCHANGED <<storeVars, stale>> /\ \A v \in Requests : v # w => op'[v] = op[v]
    BY <1>0, <1>4 DEF Check
  <2>2. CASE ~Allowed(op[w]) \/ ~TakesLock(op[w])
    <3>1. lock' = lock
      BY <1>4, <2>2 DEF Check
    <3>2. ~Locked(w)'
      BY <1>0, <1>4, <2>2 DEF Check, Locked, TakesLock, Idle, Facade, Op
    <3>3. QED
      BY <1>0, <2>1, <3>1, <3>2, QuietStep DEF Locked
  <2>3. CASE Allowed(op[w]) /\ TakesLock(op[w])
    <3>1. lock = None /\ lock' = w /\ op[w].pc = "check"
      BY <1>4, <2>3 DEF Check
    <3>2. op'[w] = [op[w] EXCEPT !.pc = "write", !.caller = None]
      BY <1>0, <1>4, <2>3 DEF Check
    <3>3. ASSUME NEW v \in Requests, Locked(v)' PROVE v = w
      <4>1. CASE v # w
        <5>1. Locked(v)
          BY <2>1, <3>3, <4>1 DEF Locked
        <5>2. QED
          BY <3>1, <5>1, AccessAssumption DEF OwnerInv
      <4>2. QED
        BY <4>1
    <3>4. Owners' = Owners
      BY <2>1 DEF Owners, RolesOf, LiveOf, Live, storeVars
    <3>5. OwnerKept'
      BY <2>1, <3>4 DEF OwnerInv, OwnerKept, storeVars
    <3>6. ASSUME gateway = "present", ~stale PROVE Leaves(op[w])'
      <4>1. Leaves(op[w])
        BY <1>0, <2>3, <3>1, <3>6, AllowedLeaves DEF OwnerInv, OwnerKept
      <4>2. /\ op'[w].kind = op[w].kind /\ op'[w].tier = op[w].tier
            /\ op'[w].target = op[w].target
        BY <1>0, <3>2 DEF Op
      <4>3. QED
        BY <3>4, <4>1, <4>2 DEF Leaves
    <3>7. QED
      BY <1>0, <2>1, <3>1, <3>3, <3>5, <3>6 DEF OwnerInv, storeVars
  <2>4. QED
    BY <2>2, <2>3
<1>5. ASSUME NEW w \in Requests, Rollback(w) PROVE OwnerInv'
  <2>1. UNCHANGED <<storeVars, stale>> /\ \A v \in Requests : v # w => op'[v] = op[v]
    BY <1>0, <1>5 DEF Rollback
  <2>2. op'[w] = Idle
    BY <1>0, <1>5 DEF Rollback
  <2>3. ~Locked(w)'
    BY <2>2 DEF Locked, Idle
  <2>4. ASSUME NEW v \in Requests, Locked(v)' PROVE Locked(v) /\ op'[v] = op[v] /\ lock' = lock
    <3>1. v # w /\ op'[v] = op[v] /\ Locked(v)
      BY <2>1, <2>3, <2>4 DEF Locked
    <3>2. QED
      BY <1>5, <3>1 DEF OwnerInv, Rollback, Release
  <2>5. QED
    BY <1>0, <2>1, <2>4, QuietStep
<1>6. ASSUME NEW w \in Requests, Write(w) PROVE OwnerInv'
  <2>1. op'[w] = Idle /\ \A v \in Requests : v # w => op'[v] = op[v]
    BY <1>0, <1>6 DEF Write
  <2>2. ~Locked(w)' /\ gateway' = gateway /\ op[w].pc = "write"
    BY <1>6, <2>1 DEF Locked, Idle, Write
  <2>3. ASSUME NEW v \in Requests, Locked(v)'
        PROVE  v # w /\ op'[v] = op[v] /\ Locked(v) /\ lock = v /\ lock' = v /\ ~TakesLock(op[w])
    <3>1. v # w /\ op'[v] = op[v] /\ Locked(v)
      BY <2>1, <2>2, <2>3 DEF Locked
    <3>2. QED
      BY <1>6, <2>2, <3>1 DEF OwnerInv, Write, Release, Locked
  <2>4. ASSUME gateway' = "present", ~stale'
        PROVE  Owners' # {} /\ \A v \in Requests : Locked(v)' => Leaves(op[v])'
    <3>1. gateway = "present" /\ ~stale /\ ~StaleDelete(op[w]) /\ Owners # {}
      BY <1>6, <2>2, <2>4 DEF Write, OwnerInv, OwnerKept
    <3>2. CASE TakesLock(op[w])
      <4>1. Leaves(op[w])
        BY <2>2, <3>1, <3>2 DEF OwnerInv, Locked
      <4>2. QED
        BY <1>0, <1>6, <2>3, <3>2, <4>1, LockedWrite
    <3>3. CASE ~TakesLock(op[w])
      <4>1. Owners \subseteq Owners'
        BY <1>0, <1>6, <3>1, <3>3, UnlockedWrite
      <4>2. ASSUME NEW v \in Requests, Locked(v)' PROVE Leaves(op[v])'
        <5>1. op'[v] = op[v] /\ Leaves(op[v])
          BY <2>3, <3>1, <4>2 DEF OwnerInv
        <5>2. QED
          BY <4>1, <5>1 DEF Leaves
      <4>3. QED
        BY <3>1, <4>1, <4>2
    <3>4. QED
      BY <3>2, <3>3
  <2>5. QED
    BY <1>0, <2>3, <2>4 DEF OwnerInv, OwnerKept
<1>7. CASE Teardown
  BY <1>0, <1>7 DEF Teardown, DeleteGateway, OwnerInv, OwnerKept, Locked
<1>8. CASE UNCHANGED vars
  BY <1>0, <1>8, QuietStep DEF vars, Locked
<1>9. QED
  BY <1>2, <1>3, <1>4, <1>5, <1>6, <1>7, <1>8, StoreAssumption DEF Next

\* OwnerKept, for any users, requests and bindings: requests on the two paths,
\* however they overlap, leave a gateway its last owner, as long as no delete
\* went ahead without the lock on a role read before it became owner.
THEOREM LastOwnerKept == Spec => []OwnerKept
<1>1. OwnerInv => OwnerKept
  BY DEF OwnerInv
<1>2. QED
  BY <1>1, InitOwnerInv, NextOwnerInv, PTL DEF Spec

=============================================================================
