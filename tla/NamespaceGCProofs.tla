------------------------- MODULE NamespaceGCProofs -------------------------
(***************************************************************************)
(* Proofs about NamespaceGC: whatever its lists have missed, the collector *)
(* never removes the namespace of a gateway that exists.                   *)
(***************************************************************************)
EXTENDS NamespaceGC, TLAPS

\* What the patches of the collector and its moves leave behind.
LEMMA PatchTypes ==
  ASSUME TypeOK, NEW g
  PROVE  /\ ClearGCEligible(g) => ns' \in [Gateways -> Namespace]
         /\ MarkGCEligible(g) => ns' \in [Gateways -> Namespace]
         /\ Removed(g) \in [Gateways -> Namespace]
<1>1. CASE g \in Gateways
  <2>1. \A t \in Timers : [ns EXCEPT ![g].timer = t] \in [Gateways -> Namespace]
    BY <1>1 DEF TypeOK, Namespace
  <2>2. [ns EXCEPT ![g].state = "terminating"] \in [Gateways -> Namespace]
    BY <1>1 DEF TypeOK, Namespace
  <2>3. QED
    BY <2>1, <2>2 DEF TypeOK, ClearGCEligible, MarkGCEligible, Removed, Timers
<1>2. CASE g \notin Gateways
  <2>1. \A x : [ns EXCEPT ![g] = x] = ns
    BY <1>2 DEF TypeOK
  <2>2. QED
    BY <2>1 DEF TypeOK, ClearGCEligible, MarkGCEligible, Removed
<1>3. QED
  BY <1>1, <1>2

LEMMA SweepTypes ==
  ASSUME TypeOK, NEW g
  PROVE  /\ Proceed(g) => sweep' \in Sweep
         /\ IdleSweep \in Sweep
  BY DEF TypeOK, Proceed, IdleSweep, Sweep

LEMMA FaultTypes ==
  ASSUME TypeOK
  PROVE  Fault \/ NoFault => faults' \in 0..MaxFaults
  BY FaultsAssumption DEF TypeOK, Fault, NoFault

\* Init and every action keep the variables in their types.
LEMMA InitTypeOK == Init => TypeOK
  BY FaultsAssumption DEF Init, TypeOK, Absent, IdleSweep, Namespace, Sweep, Timers

LEMMA NextTypeOK == TypeOK /\ [Next]_vars => TypeOK'
<1> SUFFICES ASSUME TypeOK, [Next]_vars PROVE TypeOK'
  OBVIOUS
<1> USE PatchTypes, SweepTypes, FaultTypes DEF TypeOK
<1>1. ASSUME NEW g \in Gateways, Create(g) PROVE TypeOK'
  BY <1>1 DEF Create
<1>2. ASSUME NEW g \in Gateways, Delete(g) PROVE TypeOK'
  BY <1>2 DEF Delete
<1>3. ASSUME NEW g \in Gateways, TakePass(g) PROVE TypeOK'
  BY <1>3 DEF TakePass
<1>4. ASSUME NEW g \in Gateways, EnsureManagedNamespace(g) PROVE TypeOK'
  <2>1. [ns EXCEPT ![g].state = "active"] \in [Gateways -> Namespace]
    BY DEF Namespace
  <2>2. QED
    BY <1>4, <2>1 DEF EnsureManagedNamespace, NoFault
<1>5. ASSUME NEW g \in Gateways, HandleDelete(g) PROVE TypeOK'
  BY <1>5 DEF HandleDelete, NoFault
<1>6. ASSUME NEW g \in Gateways, Finalize(g) PROVE TypeOK'
  BY <1>6 DEF Finalize, Absent, Namespace, Timers
<1>7. ASSUME NEW g \in Gateways, Elapse(g) PROVE TypeOK'
  BY <1>7 DEF Elapse, Namespace, Timers
<1>8. CASE ListGateways
  BY <1>8 DEF ListGateways, KeepAllButSweep, IdleSweep, Sweep, Live
<1>9. CASE ListNamespaces
  <2>1. CASE sweep' = IdleSweep
    BY <1>9, <2>1 DEF ListNamespaces, KeepAllButSweep
  <2>2. CASE sweep' # IdleSweep
    <3>1. sweep' = [sweep EXCEPT !.pc = "visit",
                                 !.todo = {g \in Gateways : ns[g].state = "active"},
                                 !.marked = {g \in Gateways : ns[g].timer # "none"}]
      BY <1>9, <2>2 DEF ListNamespaces
    <3> HIDE DEF TypeOK
    <3>2. \A todo, marked \in SUBSET Gateways :
            [sweep EXCEPT !.pc = "visit", !.todo = todo, !.marked = marked] \in Sweep
      BY DEF TypeOK, Sweep
    <3>3. sweep' \in Sweep
      BY <3>1, <3>2
    <3>4. QED
      BY <1>9, <3>3 DEF ListNamespaces, KeepAllButSweep, TypeOK
  <2>3. QED
    BY <2>1, <2>2
<1>10. ASSUME NEW g \in Gateways, Visit(g) PROVE TypeOK'
  <2>1. sweep' \in Sweep
    BY <1>10 DEF Visit, Sweep
  <2>2. ns' \in [Gateways -> Namespace]
    BY <1>10 DEF Visit
  <2>3. QED
    BY <1>10, <2>1, <2>2 DEF Visit, KeepAllButSweep
<1>11. CASE Confirm
  <2>1. sweep' \in Sweep
    BY <1>11 DEF Confirm, Sweep
  <2>2. ns' \in [Gateways -> Namespace]
    BY <1>11 DEF Confirm
  <2>3. QED
    BY <1>11, <2>1, <2>2 DEF Confirm, KeepAllButSweep
<1>12. CASE Reap
  BY <1>12 DEF Reap, KeepAllButSweep
<1>13. CASE EndSweep
  BY <1>13 DEF EndSweep, KeepAllButSweep
<1>14. CASE Restart
  BY <1>14 DEF Restart
<1>15. CASE UNCHANGED vars
  BY <1>15 DEF vars
<1>16. QED
  BY <1>1, <1>2, <1>3, <1>4, <1>5, <1>6, <1>7, <1>8, <1>9, <1>10, <1>11, <1>12, <1>13, <1>14,
     <1>15 DEF Next, SweepStep

\* TypeOK of NamespaceGC, for every number of gateways and of faults.
THEOREM GCTypeCorrect == Spec => []TypeOK
  BY InitTypeOK, NextTypeOK, PTL DEF Spec

-----------------------------------------------------------------------------
(* The argument: a namespace exists only from its gateway's creation on, so *)
(* that every namespace a sweep has listed has a gateway that is live or    *)
(* gone, never one still to come.  What the re-check finds dead is          *)
(* therefore gone for good, and only such a namespace, or one whose delete  *)
(* event was read, is terminating.                                          *)

Untouched(g) == ns[g].state = "absent" /\ g \notin busy

GCInv ==
    /\ TypeOK
    /\ \A g \in Gateways : gw[g] = "new" => Untouched(g) /\ g \notin sweep.todo
    /\ \A g \in Gateways : ns[g].state = "terminating" => gw[g] = "gone"
    /\ \A g \in owed : gw[g] = "gone"
    /\ sweep.pc \in {"confirm", "reap"} => sweep.cur \in sweep.todo
    /\ sweep.pc = "reap" => gw[sweep.cur] = "gone"

\* Marking and clearing leave the phase of every namespace alone.
LEMMA PatchKeepsState ==
  ASSUME TypeOK, NEW g, ClearGCEligible(g) \/ MarkGCEligible(g)
  PROVE  \A h \in Gateways : ns'[h].state = ns[h].state
<1>1. ns' = ns \/ \E t \in Timers : ns' = [ns EXCEPT ![g].timer = t]
  BY DEF ClearGCEligible, MarkGCEligible, Timers
<1>2. ASSUME NEW t \in Timers, ns' = [ns EXCEPT ![g].timer = t], NEW h \in Gateways
      PROVE  ns'[h].state = ns[h].state
  BY <1>2 DEF TypeOK, Namespace
<1>3. QED
  BY <1>1, <1>2

\* Where the moves of the sweep lead.
LEMMA ProceedFields ==
  ASSUME sweep \in Sweep, NEW g, Proceed(g)
  PROVE  sweep'.pc = "visit" /\ sweep'.todo = sweep.todo \ {g}
  BY DEF Proceed, Sweep

LEMMA ListFields ==
  ASSUME sweep \in Sweep, ListNamespaces
  PROVE  /\ sweep'.pc \in {"idle", "visit"}
         /\ sweep'.todo \subseteq {g \in Gateways : ns[g].state = "active"}
<1> DEFINE todo == {g \in Gateways : ns[g].state = "active"}
           marked == {g \in Gateways : ns[g].timer # "none"}
<1>1. \/ sweep' = [sweep EXCEPT !.pc = "visit", !.todo = todo, !.marked = marked]
      \/ sweep' = IdleSweep
  BY Zenon DEF ListNamespaces
<1> HIDE DEF todo, marked
<1>2. CASE sweep' = [sweep EXCEPT !.pc = "visit", !.todo = todo, !.marked = marked]
  <2>1. sweep'.pc = "visit"
    BY <1>2 DEF Sweep
  <2>2. sweep'.todo = todo
    BY <1>2 DEF Sweep
  <2>3. QED
    BY <2>1, <2>2 DEF todo
<1>3. CASE sweep' = IdleSweep
  BY <1>3 DEF IdleSweep
<1>4. QED
  BY <1>1, <1>2, <1>3

LEMMA InitGCInv == Init => GCInv
  BY InitTypeOK DEF Init, GCInv, Untouched, Absent, IdleSweep

LEMMA NextGCInv == GCInv /\ [Next]_vars => GCInv'
<1> SUFFICES ASSUME GCInv, [Next]_vars PROVE GCInv'
  OBVIOUS
<1>0. TypeOK /\ TypeOK'
  BY NextTypeOK DEF GCInv
<1> USE <1>0 DEF GCInv, Untouched
<1>1. ASSUME NEW g \in Gateways, Create(g) PROVE GCInv'
  BY <1>1 DEF Create, TypeOK
<1>2. ASSUME NEW g \in Gateways, Delete(g) PROVE GCInv'
  BY <1>2 DEF Delete, TypeOK
<1>3. ASSUME NEW g \in Gateways, TakePass(g) PROVE GCInv'
  BY <1>3 DEF TakePass
<1>4. ASSUME NEW g \in Gateways, EnsureManagedNamespace(g) PROVE GCInv'
  BY <1>4 DEF EnsureManagedNamespace, TypeOK, Namespace
<1>5. ASSUME NEW g \in Gateways, HandleDelete(g) PROVE GCInv'
  BY <1>5 DEF HandleDelete, Removed, TypeOK, Namespace
<1>6. ASSUME NEW g \in Gateways, Finalize(g) PROVE GCInv'
  BY <1>6 DEF Finalize, Absent, TypeOK
<1>7. ASSUME NEW g \in Gateways, Elapse(g) PROVE GCInv'
  BY <1>7 DEF Elapse, TypeOK, Namespace
<1>8. CASE ListGateways
  BY <1>8 DEF ListGateways, KeepAllButSweep, IdleSweep
<1>9. CASE ListNamespaces
  <2>1. sweep'.todo \subseteq {g \in Gateways : ns[g].state = "active"}
    BY <1>9, ListFields DEF TypeOK
  <2>2. sweep'.pc \in {"idle", "visit"}
    BY <1>9, ListFields DEF TypeOK
  <2>3. UNCHANGED <<gw, ns, busy, owed>>
    BY <1>9 DEF ListNamespaces, KeepAllButSweep
  <2>4. QED
    BY <2>1, <2>2, <2>3
<1>10. ASSUME NEW g \in Gateways, Visit(g) PROVE GCInv'
  <2>1. \A h \in Gateways : ns'[h].state = ns[h].state
    BY <1>10, PatchKeepsState DEF Visit
  <2>2. sweep'.todo \subseteq sweep.todo /\ sweep'.pc # "reap"
    <3>1. CASE Proceed(g)
      BY <3>1, ProceedFields DEF TypeOK
    <3>2. CASE ~Proceed(g)
      BY <1>10, <3>2 DEF Visit, TypeOK, Sweep
    <3>3. QED
      BY <3>1, <3>2
  <2>3. sweep'.pc = "confirm" => sweep'.cur \in sweep'.todo
    BY <1>10 DEF Visit, Proceed, TypeOK, Sweep
  <2>4. QED
    BY <1>10, <2>1, <2>2, <2>3 DEF Visit, KeepAllButSweep
<1>11. CASE Confirm
  <2>1. \A h \in Gateways : ns'[h].state = ns[h].state
    BY <1>11, PatchKeepsState DEF Confirm
  <2>2. sweep'.todo \subseteq sweep.todo /\ sweep'.pc \in {"visit", "reap"}
    <3>1. CASE Proceed(sweep.cur)
      BY <3>1, ProceedFields DEF TypeOK
    <3>2. CASE ~Proceed(sweep.cur)
      BY <1>11, <3>2 DEF Confirm, TypeOK, Sweep
    <3>3. QED
      BY <3>1, <3>2
  <2>3. sweep'.pc = "reap" => /\ sweep'.cur \in sweep'.todo
                              /\ sweep'.cur = sweep.cur /\ sweep.cur \notin Live
    BY <1>11 DEF Confirm, Proceed, TypeOK, Sweep
  <2>4. sweep'.pc = "reap" => gw[sweep.cur] = "gone"
    BY <1>11, <2>3 DEF Confirm, Live, TypeOK, Sweep
  <2>5. QED
    BY <1>11, <2>1, <2>2, <2>3, <2>4 DEF Confirm, KeepAllButSweep
<1>12. CASE Reap
  <2>1. sweep'.todo \subseteq sweep.todo /\ sweep'.pc = "visit"
    BY <1>12 DEF Reap, Proceed, TypeOK, Sweep
  <2>2. \A h \in Gateways : ns'[h].state # ns[h].state => h = sweep.cur /\ ns[h].state = "active"
    BY <1>12 DEF Reap, Removed, TypeOK, Namespace
  <2>3. QED
    BY <1>12, <2>1, <2>2 DEF Reap, KeepAllButSweep
<1>13. CASE EndSweep
  BY <1>13 DEF EndSweep, KeepAllButSweep, IdleSweep
<1>14. CASE Restart
  BY <1>14 DEF Restart, IdleSweep
<1>15. CASE UNCHANGED vars
  BY <1>15 DEF vars
<1>16. QED
  BY <1>1, <1>2, <1>3, <1>4, <1>5, <1>6, <1>7, <1>8, <1>9, <1>10, <1>11, <1>12, <1>13, <1>14,
     <1>15 DEF Next, SweepStep

\* The namespace of a gateway that exists is never on its way out, for every
\* number of gateways and of faults: reconcileNamespace and the delete handler
\* remove only what is gone for good.
THEOREM GCNeverReapsLive == Spec => []LiveNotReaped
<1>1. GCInv => LiveNotReaped
  BY DEF GCInv, LiveNotReaped, Live
<1>2. QED
  BY <1>1, InitGCInv, NextGCInv, PTL DEF Spec

=============================================================================
