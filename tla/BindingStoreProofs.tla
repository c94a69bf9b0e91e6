------------------------ MODULE BindingStoreProofs -------------------------
(***************************************************************************)
(* Facts about the commits of BindingStore that the proofs about its       *)
(* writers and its watchers rest on: their types, and what they do to each *)
(* binding.                                                                *)
(***************************************************************************)
EXTENDS BindingStore, TLAPS, WellFoundedInduction

\* First is the least id of a set that has one.
LEMMA FirstIn ==
  ASSUME NEW S \in SUBSET Bindings, S # {}
  PROVE  First(S) \in S
<1> DEFINE R == {ss \in Nat \X Nat : ss[1] < ss[2]}
<1>1. IsWellFoundedOn(R, Nat)
  BY NatLessThanWellFounded DEF OpToRel
<1>2. S \subseteq Nat
  BY StoreAssumption DEF Bindings
<1>3. \A x, y \in Nat : y < x => <<y, x>> \in R
  OBVIOUS
<1> HIDE DEF R
<1>4. PICK m \in S : \A y \in S : ~(<<y, m>> \in R)
  BY <1>1, <1>2, WFMin, Zenon
<1>5. ASSUME NEW y \in S PROVE m <= y
  <2>1. ~(y < m)
    BY <1>2, <1>3, <1>4, Zenon
  <2>2. QED
    BY <1>2, <2>1
<1>6. QED
  BY <1>5 DEF First

LEMMA UnusedBindings == Unused \subseteq Bindings
  BY DEF Unused

LEMMA LiveOfBindings == \A u : LiveOf(u) \subseteq Bindings
  BY DEF LiveOf, Live

\* Created takes an unused id and leaves every other binding alone.
LEMMA CreatedFacts ==
  ASSUME StoreTypeOK, NEW u \in Users, NEW role \in Tiers, Unused # {}
  PROVE  /\ Created(u, role) \in [Bindings -> BindingRow]
         /\ \E n \in Unused :
              /\ Created(u, role)[n] = [user |-> u, role |-> role, state |-> "live"]
              /\ \A b \in Bindings : b # n => Created(u, role)[b] = binding[b]
<1>1. First(Unused) \in Unused
  BY FirstIn, UnusedBindings
<1>2. First(Unused) \in Bindings
  BY <1>1, UnusedBindings
<1>3. QED
  BY <1>1, <1>2 DEF Created, StoreTypeOK, BindingRow

\* Deleted changes the state of the live bindings it is given, and no more.
LEMMA DeletedFacts ==
  ASSUME StoreTypeOK, NEW bs
  PROVE  /\ Deleted(bs) \in [Bindings -> BindingRow]
         /\ \A b \in Bindings : b \in bs \cap Live =>
              Deleted(bs)[b] = [binding[b] EXCEPT !.state = "deleted"]
         /\ \A b \in Bindings : b \notin bs \cap Live => Deleted(bs)[b] = binding[b]
  BY DEF Deleted, StoreTypeOK, BindingRow

\* SetGatewayRole leaves one live binding of the user, with the role, and does
\* not touch the bindings of anyone else.
LEMMA SetFacts ==
  ASSUME StoreTypeOK, NEW u \in Users, NEW role \in Tiers, HasId(u)
  PROVE  /\ SetGatewayRole(u, role) \in [Bindings -> BindingRow]
         /\ \E n \in Bindings :
              /\ SetGatewayRole(u, role)[n] = [user |-> u, role |-> role, state |-> "live"]
              /\ n \in Unused \/ n \in LiveOf(u)
              /\ \A b \in Bindings : b # n =>
                   \/ SetGatewayRole(u, role)[b] = binding[b]
                   \/ /\ b \in LiveOf(u)
                      /\ SetGatewayRole(u, role)[b] = [binding[b] EXCEPT !.state = "deleted"]
<1>1. CASE LiveOf(u) = {}
  BY <1>1, CreatedFacts, UnusedBindings DEF HasId, SetGatewayRole
<1>2. CASE LiveOf(u) # {}
  <2> DEFINE n == First(LiveOf(u))
             gone == Deleted(LiveOf(u) \ {n})
  <2>1. n \in LiveOf(u) /\ n \in Bindings
    BY <1>2, FirstIn, LiveOfBindings
  <2>2. SetGatewayRole(u, role) = [gone EXCEPT ![n].role = role]
    BY <1>2 DEF SetGatewayRole
  <2>3. /\ gone \in [Bindings -> BindingRow]
        /\ gone[n] = binding[n]
        /\ \A b \in Bindings : \/ gone[b] = binding[b]
                               \/ b \in LiveOf(u) /\ gone[b] = [binding[b] EXCEPT !.state = "deleted"]
    BY <2>1, DeletedFacts
  <2> HIDE DEF gone, n
  <2>4. binding[n].user = u /\ binding[n].state = "live"
    BY <2>1 DEF LiveOf, Live
  <2>5. [gone EXCEPT ![n].role = role][n] = [binding[n] EXCEPT !.role = role]
    BY <2>1, <2>3
  <2>6. [binding[n] EXCEPT !.role = role] = [user |-> u, role |-> role, state |-> "live"]
    BY <2>1, <2>4 DEF StoreTypeOK, BindingRow
  <2>7. [gone EXCEPT ![n].role = role] \in [Bindings -> BindingRow]
    BY <2>1, <2>3 DEF BindingRow
  <2>8. \A b \in Bindings : b # n => [gone EXCEPT ![n].role = role][b] = gone[b]
    BY <2>3
  <2>9. QED
    BY <2>1, <2>2, <2>3, <2>5, <2>6, <2>7, <2>8
<1>3. QED
  BY <1>1, <1>2

\* A commit of well-formed rows keeps the store well-formed.
LEMMA CommitType ==
  ASSUME StoreTypeOK, NEW rows \in [Bindings -> BindingRow], Commit(rows)
  PROVE  binding' \in [Bindings -> BindingRow] /\ events' \in [Bindings -> {"none", "updated", "deleted"}]
  BY DEF StoreTypeOK, Commit

\* Every binding that was ever used belongs to a user.
Belongs == \A b \in Bindings : binding[b].state # "unused" => binding[b].user \in Users

LEMMA StoreInitType == StoreInit => StoreTypeOK /\ Belongs
  BY StoreAssumption DEF StoreInit, StoreTypeOK, Belongs, BindingRow, NoBinding, Bindings

\* What Created, SetGatewayRole and Deleted leave is well-formed again.
LEMMA RowsBelong ==
  ASSUME StoreTypeOK, Belongs, NEW u \in Users, NEW role \in Tiers, NEW bs
  PROVE  /\ Unused # {} /\ Commit(Created(u, role)) => Belongs'
         /\ HasId(u) /\ Commit(SetGatewayRole(u, role)) => Belongs'
         /\ Commit(Deleted(bs)) => Belongs'
<1>1. Unused # {} /\ Commit(Created(u, role)) => Belongs'
  <2> SUFFICES ASSUME Unused # {}, Commit(Created(u, role)) PROVE Belongs'
    OBVIOUS
  <2>1. PICK n \in Unused :
              /\ Created(u, role)[n] = [user |-> u, role |-> role, state |-> "live"]
              /\ \A b \in Bindings : b # n => Created(u, role)[b] = binding[b]
    BY CreatedFacts, Zenon
  <2>2. binding' = Created(u, role)
    BY DEF Commit
  <2>3. ASSUME NEW b \in Bindings, binding'[b].state # "unused" PROVE binding'[b].user \in Users
    BY <2>1, <2>2, <2>3 DEF Belongs
  <2>4. QED
    BY <2>3 DEF Belongs
<1>2. HasId(u) /\ Commit(SetGatewayRole(u, role)) => Belongs'
  <2> SUFFICES ASSUME HasId(u), Commit(SetGatewayRole(u, role)) PROVE Belongs'
    OBVIOUS
  <2>1. PICK n \in Bindings :
              /\ binding'[n] = [user |-> u, role |-> role, state |-> "live"]
              /\ \A b \in Bindings : b # n =>
                   \/ binding'[b] = binding[b]
                   \/ b \in LiveOf(u) /\ binding'[b] = [binding[b] EXCEPT !.state = "deleted"]
    <3>1. binding' = SetGatewayRole(u, role)
      BY DEF Commit
    <3>2. \E n \in Bindings :
              /\ SetGatewayRole(u, role)[n] = [user |-> u, role |-> role, state |-> "live"]
              /\ n \in Unused \/ n \in LiveOf(u)
              /\ \A b \in Bindings : b # n =>
                   \/ SetGatewayRole(u, role)[b] = binding[b]
                   \/ /\ b \in LiveOf(u)
                      /\ SetGatewayRole(u, role)[b] = [binding[b] EXCEPT !.state = "deleted"]
      BY SetFacts
    <3>3. QED
      BY <3>1, <3>2
  <2>2. ASSUME NEW b \in Bindings, binding'[b].state # "unused" PROVE binding'[b].user \in Users
    <3>1. b \in LiveOf(u) => binding[b].state = "live"
      BY DEF LiveOf, Live
    <3>2. [binding[b] EXCEPT !.state = "deleted"].user = binding[b].user
      BY DEF StoreTypeOK, BindingRow
    <3>3. CASE b = n
      BY <2>1, <3>3
    <3>4. CASE binding'[b] = binding[b]
      BY <2>2, <3>4 DEF Belongs
    <3>5. CASE b \in LiveOf(u) /\ binding'[b] = [binding[b] EXCEPT !.state = "deleted"]
      BY <3>1, <3>2, <3>5 DEF Belongs
    <3>6. QED
      BY <2>1, <3>3, <3>4, <3>5
  <2>3. QED
    BY <2>2 DEF Belongs
<1>3. Commit(Deleted(bs)) => Belongs'
  <2> SUFFICES ASSUME Commit(Deleted(bs)), NEW b \in Bindings, binding'[b].state # "unused"
               PROVE  binding'[b].user \in Users
    BY DEF Belongs
  <2>1. binding'[b] = binding[b] \/ (b \in Live /\ binding'[b] = [binding[b] EXCEPT !.state = "deleted"])
    BY DeletedFacts DEF Commit
  <2>2. QED
    BY <2>1 DEF Belongs, StoreTypeOK, BindingRow, Live
<1>4. QED
  BY <1>1, <1>2, <1>3

LEMMA StoreNextType == StoreTypeOK /\ Belongs /\ [StoreNext]_storeVars => StoreTypeOK' /\ Belongs'
<1> SUFFICES ASSUME StoreTypeOK, Belongs, [StoreNext]_storeVars PROVE StoreTypeOK' /\ Belongs'
  OBVIOUS
<1>1. CASE DeleteGateway
  BY <1>1, DeletedFacts, CommitType, RowsBelong, StoreAssumption DEF DeleteGateway, StoreTypeOK
<1>2. ASSUME NEW u \in Users, Change(u) PROVE StoreTypeOK' /\ Belongs'
  <2>1. ASSUME NEW tier \in Tiers, HasId(u), Commit(SetGatewayRole(u, tier))
        PROVE  StoreTypeOK' /\ Belongs'
    BY <1>2, <2>1, SetFacts, CommitType, RowsBelong DEF Change, StoreTypeOK
  <2>2. ASSUME NEW tier \in Tiers, Unused # {}, Commit(Created(u, tier))
        PROVE  StoreTypeOK' /\ Belongs'
    BY <1>2, <2>2, CreatedFacts, CommitType, RowsBelong DEF Change, StoreTypeOK
  <2>3. ASSUME NEW bs, Commit(Deleted(bs)) PROVE StoreTypeOK' /\ Belongs'
    BY <1>2, <2>3, DeletedFacts, CommitType, RowsBelong, StoreAssumption DEF Change, StoreTypeOK
  <2>4. QED
    BY <1>2, <2>1, <2>2, <2>3 DEF Change, RevokeGatewayAccess
<1>3. CASE UNCHANGED storeVars
  BY <1>3 DEF storeVars, StoreTypeOK, Belongs
<1>4. QED
  BY <1>1, <1>2, <1>3 DEF StoreNext

\* A binding that was used stays its user's, and once deleted is never live
\* again; a binding that changes is in use.
Ages(b) ==
    /\ binding[b].state # "unused" =>
         /\ binding'[b].state # "unused" /\ binding'[b].user = binding[b].user
         /\ binding[b].state # "live" => binding'[b].state # "live"
    /\ binding'[b] # binding[b] => binding'[b].state # "unused"

LEMMA DeletedAges ==
  ASSUME StoreTypeOK, NEW bs, Commit(Deleted(bs)), NEW b \in Bindings
  PROVE  Ages(b)
<1>1. \/ binding'[b] = binding[b]
      \/ b \in Live /\ binding'[b] = [binding[b] EXCEPT !.state = "deleted"]
  BY DeletedFacts DEF Commit
<1>2. binding[b] \in BindingRow
  BY DEF StoreTypeOK
<1>3. QED
  BY <1>1, <1>2 DEF Ages, BindingRow, Live

LEMMA CreatedAges ==
  ASSUME StoreTypeOK, NEW u \in Users, NEW role \in Tiers, Unused # {}, Commit(Created(u, role)),
         NEW b \in Bindings
  PROVE  Ages(b)
<1>1. PICK n \in Unused :
         /\ Created(u, role)[n] = [user |-> u, role |-> role, state |-> "live"]
         /\ \A x \in Bindings : x # n => Created(u, role)[x] = binding[x]
  BY CreatedFacts
<1>2. binding' = Created(u, role)
  BY DEF Commit
<1>3. CASE b = n
  BY <1>1, <1>2, <1>3 DEF Ages, Unused
<1>4. CASE b # n
  BY <1>1, <1>2, <1>4 DEF Ages
<1>5. QED
  BY <1>3, <1>4

LEMMA SetAges ==
  ASSUME StoreTypeOK, NEW u \in Users, NEW role \in Tiers, HasId(u), Commit(SetGatewayRole(u, role)),
         NEW b \in Bindings
  PROVE  Ages(b)
<1>1. PICK n \in Bindings :
          /\ SetGatewayRole(u, role)[n] = [user |-> u, role |-> role, state |-> "live"]
          /\ n \in Unused \/ n \in LiveOf(u)
          /\ \A x \in Bindings : x # n =>
               \/ SetGatewayRole(u, role)[x] = binding[x]
               \/ /\ x \in LiveOf(u)
                  /\ SetGatewayRole(u, role)[x] = [binding[x] EXCEPT !.state = "deleted"]
  BY SetFacts
<1>2. binding' = SetGatewayRole(u, role)
  BY DEF Commit
<1>3. CASE b = n
  BY <1>1, <1>2, <1>3 DEF Ages, Unused, LiveOf, Live
<1>4. CASE b # n
  <2>1. \/ binding'[b] = binding[b]
        \/ b \in Live /\ binding'[b] = [binding[b] EXCEPT !.state = "deleted"]
    BY <1>1, <1>2, <1>4 DEF LiveOf
  <2>2. binding[b] \in BindingRow
    BY DEF StoreTypeOK
  <2>3. QED
    BY <2>1, <2>2 DEF Ages, BindingRow, Live
<1>5. QED
  BY <1>3, <1>4

LEMMA StoreAges ==
  ASSUME StoreTypeOK, [StoreNext]_storeVars, NEW b \in Bindings
  PROVE  Ages(b)
<1>1. CASE DeleteGateway
  BY <1>1, DeletedAges DEF DeleteGateway
<1>2. ASSUME NEW u \in Users, Change(u) PROVE Ages(b)
  BY <1>2, DeletedAges, CreatedAges, SetAges DEF Change, RevokeGatewayAccess
<1>3. CASE UNCHANGED storeVars
  BY <1>3 DEF storeVars, Ages
<1>4. QED
  BY <1>1, <1>2, <1>3 DEF StoreNext

=============================================================================
