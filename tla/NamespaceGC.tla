---------------------------- MODULE NamespaceGC ----------------------------
(***************************************************************************)
(* The namespaces of the gateways of one cluster: made by a provisioning   *)
(* pass, removed by the gateway's delete event, and swept by the periodic  *)
(* garbage collector when no event did it.  A gateway's namespace is       *)
(* derived from its id, so it is live once and then never again.           *)
(*                                                                         *)
(* The sweep works on two lists, the gateways first and the namespaces     *)
(* second, and visits the namespaces one by one; gateways come and go and  *)
(* passes run on meanwhile.  The grace timer is an annotation of the       *)
(* namespace and outlives the controller.                                  *)
(***************************************************************************)
EXTENDS Naturals

CONSTANTS
    Gateways,
    MaxFaults,     \* bound on failed calls and restarts
    None

ASSUME FaultsAssumption == MaxFaults \in Nat /\ None \notin Gateways

VARIABLES
    gw,        \* the gateway record: "new", "live" or "gone"
    ns,        \* its namespace and the state of the grace timer on it
    busy,      \* gateways with a provisioning pass under way
    owed,      \* gateways with a delete event to be handled
    sweep,     \* the garbage collector: its lists and where it is
    faults

vars == <<gw, ns, busy, owed, sweep, faults>>

Timers == {"none", "running", "elapsed"}
Namespace == [state : {"absent", "active", "terminating"}, timer : Timers]
Sweep == [pc : {"idle", "listed", "visit", "confirm", "reap"}, live : SUBSET Gateways,
          todo : SUBSET Gateways, marked : SUBSET Gateways, cur : Gateways \cup {None}]

Absent == [state |-> "absent", timer |-> "none"]
IdleSweep == [pc |-> "idle", live |-> {}, todo |-> {}, marked |-> {}, cur |-> None]

Live == {g \in Gateways : gw[g] = "live"}
Exists(g) == ns[g].state # "absent"

Fault == faults < MaxFaults /\ faults' = faults + 1
NoFault == UNCHANGED faults

-----------------------------------------------------------------------------
(* Gateways, and the passes on their events *)

Create(g) ==
    /\ gw[g] = "new" /\ gw' = [gw EXCEPT ![g] = "live"]
    /\ UNCHANGED <<ns, busy, owed, sweep, faults>>

\* The delete event reaches the queue, or it is missed while the stream is
\* down: then the seed finds nothing and the key is pruned.
Delete(g) ==
    /\ gw[g] = "live" /\ gw' = [gw EXCEPT ![g] = "gone"]
    /\ owed' \in {owed, owed \cup {g}}
    /\ UNCHANGED <<ns, busy, sweep, faults>>

\* A pass works on the payload it took; the gateway may be deleted under it.
TakePass(g) ==
    /\ gw[g] = "live" /\ g \notin busy
    /\ busy' = busy \cup {g}
    /\ UNCHANGED <<gw, ns, owed, sweep, faults>>

\* EnsureManagedNamespace; a namespace that is there, terminating too, is kept.
EnsureManagedNamespace(g) ==
    /\ g \in busy /\ busy' = busy \ {g}
    /\ \/ /\ ns' = IF Exists(g) THEN ns ELSE [ns EXCEPT ![g].state = "active"]
          /\ NoFault
       \/ Fault /\ UNCHANGED ns
    /\ UNCHANGED <<gw, owed, sweep>>

Removed(g) == IF ns[g].state = "active" THEN [ns EXCEPT ![g].state = "terminating"] ELSE ns

\* The delete event is handled after the pass of the same key; an error is retried.
HandleDelete(g) ==
    /\ g \in owed /\ g \notin busy
    /\ \/ ns' = Removed(g) /\ owed' = owed \ {g} /\ NoFault
       \/ Fault /\ UNCHANGED <<ns, owed>>
    /\ UNCHANGED <<gw, busy, sweep>>

\* External: Kubernetes ends a terminating namespace.
Finalize(g) ==
    /\ ns[g].state = "terminating" /\ ns' = [ns EXCEPT ![g] = Absent]
    /\ UNCHANGED <<gw, busy, owed, sweep, faults>>

-----------------------------------------------------------------------------
(* NamespaceGCReconciler *)

KeepAllButSweep == UNCHANGED <<gw, busy, owed>>

\* On to the next namespace of the list.
Proceed(g) == sweep' = [sweep EXCEPT !.pc = "visit", !.todo = @ \ {g}, !.cur = None]

ListGateways ==
    /\ sweep.pc = "idle"
    /\ sweep' = [IdleSweep EXCEPT !.pc = "listed", !.live = Live]
    /\ UNCHANGED <<ns, faults>> /\ KeepAllButSweep

\* A failed list, of gateways or of namespaces, aborts the whole sweep.
ListNamespaces ==
    /\ sweep.pc = "listed"
    /\ \/ /\ sweep' = [sweep EXCEPT !.pc = "visit",
                                    !.todo = {g \in Gateways : ns[g].state = "active"},
                                    !.marked = {g \in Gateways : ns[g].timer # "none"}]
          /\ NoFault
       \/ Fault /\ sweep' = IdleSweep
    /\ UNCHANGED ns /\ KeepAllButSweep

EndSweep ==
    /\ sweep.pc = "visit" /\ sweep.todo = {}
    /\ sweep' = IdleSweep
    /\ UNCHANGED <<ns, faults>> /\ KeepAllButSweep

\* Mutant: the annotation is emptied and not removed.
ClearGCEligibleEmpties(g) ==
    ns' = IF g \in sweep.marked /\ Exists(g) THEN [ns EXCEPT ![g].timer = "empty"] ELSE ns

\* Both patch the namespace if it is still there; whether it has the
\* annotation is what the list said.
ClearGCEligible(g) ==
    ns' = IF g \in sweep.marked /\ Exists(g) THEN [ns EXCEPT ![g].timer = "none"] ELSE ns
MarkGCEligible(g) ==
    ns' = IF Exists(g) THEN [ns EXCEPT ![g].timer = "running"] ELSE ns

\* Mutant: the comparison with the grace period is the wrong way round.
GraceElapsedReversed(g) == ns[g].timer \in {"running", "none"}

\* The listed timestamp against the clock of now; a namespace made anew since
\* the list is judged by the old timestamp.
GraceElapsed(g) == ns[g].timer \in {"elapsed", "none"}
WithinGrace(g) == ns[g].timer \in {"running", "none"}

\* Mutant: a namespace the list does not know is reaped at once.
VisitNoGrace(g) ==
    /\ sweep.pc = "visit" /\ g \in sweep.todo
    /\ \/ g \in sweep.live /\ ClearGCEligible(g) /\ Proceed(g)
       \/ g \notin sweep.live /\ sweep' = [sweep EXCEPT !.pc = "reap", !.cur = g] /\ UNCHANGED ns
    /\ NoFault /\ KeepAllButSweep

\* reconcileNamespace, up to the re-check.
Visit(g) ==
    /\ sweep.pc = "visit" /\ g \in sweep.todo
    /\ \/ g \in sweep.live /\ ClearGCEligible(g) /\ Proceed(g) /\ NoFault
       \/ g \notin sweep.live \cup sweep.marked /\ MarkGCEligible(g) /\ Proceed(g) /\ NoFault
       \/ /\ g \in sweep.marked \ sweep.live /\ WithinGrace(g)
          /\ Proceed(g) /\ UNCHANGED ns /\ NoFault
       \/ /\ g \in sweep.marked \ sweep.live /\ GraceElapsed(g)
          /\ sweep' = [sweep EXCEPT !.pc = "confirm", !.cur = g] /\ UNCHANGED ns /\ NoFault
       \/ Fault /\ Proceed(g) /\ UNCHANGED ns
    /\ KeepAllButSweep

\* Liveness is read again; when it cannot be, the reap waits for a later sweep.
Confirm ==
    LET g == sweep.cur IN
    /\ sweep.pc = "confirm"
    /\ \/ g \in Live /\ ClearGCEligible(g) /\ Proceed(g) /\ NoFault
       \/ g \notin Live /\ sweep' = [sweep EXCEPT !.pc = "reap"] /\ UNCHANGED ns /\ NoFault
       \/ Fault /\ Proceed(g) /\ UNCHANGED ns
    /\ KeepAllButSweep

\* No reap without its Event; the summaries and the Vault mount are best effort.
Reap ==
    LET g == sweep.cur IN
    /\ sweep.pc = "reap" /\ Proceed(g)
    /\ \/ ns' = Removed(g) /\ NoFault
       \/ Fault /\ UNCHANGED ns
    /\ KeepAllButSweep

SweepStep == ListGateways \/ ListNamespaces \/ (\E g \in Gateways : Visit(g)) \/ Confirm \/ Reap \/ EndSweep

\* The clock.
Elapse(g) ==
    /\ ns[g].timer = "running" /\ ns' = [ns EXCEPT ![g].timer = "elapsed"]
    /\ UNCHANGED <<gw, busy, owed, sweep, faults>>

\* The controller dies; what it owed and its sweep are memory.
Restart ==
    /\ Fault
    /\ busy' = {} /\ owed' = {} /\ sweep' = IdleSweep
    /\ UNCHANGED <<gw, ns>>

-----------------------------------------------------------------------------
Init ==
    /\ gw = [g \in Gateways |-> "new"]
    /\ ns = [g \in Gateways |-> Absent]
    /\ busy = {} /\ owed = {}
    /\ sweep = IdleSweep
    /\ faults = 0

Next ==
    \/ \E g \in Gateways : \/ Create(g) \/ Delete(g) \/ TakePass(g) \/ EnsureManagedNamespace(g)
                           \/ HandleDelete(g) \/ Finalize(g) \/ Elapse(g)
    \/ SweepStep \/ Restart

Spec == Init /\ [][Next]_vars

\* Passes and sweeps run to their end, the ticker goes on, time passes, and
\* Kubernetes ends what is terminating.
FairSpec ==
    /\ Spec
    /\ WF_vars(SweepStep)
    /\ \A g \in Gateways : /\ WF_vars(EnsureManagedNamespace(g)) /\ WF_vars(Finalize(g))
                           /\ WF_vars(Elapse(g))

-----------------------------------------------------------------------------
TypeOK ==
    /\ gw \in [Gateways -> {"new", "live", "gone"}]
    /\ ns \in [Gateways -> Namespace]
    /\ busy \subseteq Gateways /\ owed \subseteq Gateways
    /\ sweep \in Sweep
    /\ faults \in 0..MaxFaults

\* The namespace of a gateway that exists is never on its way out, although a
\* sweep may visit it with a list from before the gateway was created.
LiveNotReaped == \A g \in Live : ns[g].state # "terminating"

\* The namespace of a deleted gateway goes and stays away: when the delete event
\* was missed, when a late pass made the namespace again, and across restarts.
OrphanReaped == \A g \in Gateways : gw[g] = "gone" ~> [](ns[g].state = "absent")

=============================================================================
