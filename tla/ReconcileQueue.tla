--------------------------- MODULE ReconcileQueue ---------------------------
(***************************************************************************)
(* The control plane's per-resource reconcile queue                        *)
(* (components/control-plane/internal/watcher/requeue.go).                 *)
(*                                                                         *)
(* Producers (the watch receiver, the reconnect seed, the release-image    *)
(* reconciler) record the latest event of a resource under the queue's     *)
(* mutex and, after unlocking, Add the key to a client-go rate-limiting    *)
(* workqueue.  Workers take keys, run the handler on the latest payload    *)
(* and, when it fails, schedule a retry after a backoff.  One step of a    *)
(* process here is one critical section, or one call on the workqueue.     *)
(*                                                                         *)
(* The workqueue is client-go's, external to the repository.  Its FIFO is  *)
(* kept as the set dirty \ processing, its delaying heap as the set        *)
(* waiting.  Time is abstract: a backoff floor is ahead or behind, and     *)
(* time passing turns the one into the other.                              *)
(***************************************************************************)
EXTENDS Integers, FiniteSets

CONSTANTS
    Key,            \* resource ids
    Worker,         \* worker goroutines (GATEWAY_RECONCILE_WORKERS)
    Producer,       \* goroutines that call enqueue / enqueueForced
    NoKey,          \* not a key: an idle producer or worker
    NoEvent,        \* not an event: no entry in the latest map
    MaxVersion,     \* bound: payload versions (updated_at) are 1..MaxVersion
    MaxGen,         \* bound: accepted payloads of one key between two prunes
    RequeueCap,     \* bound: the limiter's failure count saturates here
    MaxRetries,     \* withMaxRetries; negative means unlimited
    Versioned,      \* withVersion was given
    HasTransform,   \* withRetryTransform was given
    HasRetryIf,     \* withRetryIf was given: some errors are permanent
    Forcing,        \* some producer calls enqueueForced
    Pruning         \* the seed calls knownKeys and pruneIfNonDelete

ASSUME NoKeyAssumption == NoKey \notin Key
ASSUME BoundsAssumption ==
    /\ MaxVersion \in Nat \ {0}
    /\ MaxGen \in Nat \ {0}
    /\ RequeueCap \in Nat \ {0}
    /\ MaxRetries \in Int
    /\ MaxRetries < RequeueCap      \* so saturation decides no retry
ASSUME OptionsAssumption ==
    /\ Versioned \in BOOLEAN
    /\ HasTransform \in BOOLEAN
    /\ HasRetryIf \in BOOLEAN
    /\ Forcing \in BOOLEAN
    /\ Pruning \in BOOLEAN

EventType == {"Created", "Updated", "Deleted"}

(* An event carries a payload (full) with its version, or no payload at    *)
(* all, in which case its version reads as 0.                              *)
Event == [type : EventType, version : 0..MaxVersion, full : BOOLEAN]

Tombstone == [type |-> "Deleted", version |-> 0, full |-> FALSE]

ASSUME NoEventAssumption == NoEvent \notin Event

(* What the API server's stream and lists deliver: a payload with its      *)
(* version, or a delete whose record could no longer be loaded.            *)
InputEvent ==
    {e \in Event : e.full /\ e.version > 0} \cup {Tombstone}

VARIABLES
    latest,      \* q.latest
    forced,      \* q.forced
    preserve,    \* q.preservePayload
    notBefore,   \* q.notBefore: absent, ahead of the clock, or behind it
    gen,         \* q.gen (absent reads as 0)
    known,       \* the seed's knownKeys snapshot
    adding,      \* producer -> the key it recorded but has not yet Added
    dirty,       \* workqueue: keys that need processing
    processing,  \* workqueue: keys handed to a worker and not yet Done
    waiting,     \* workqueue: keys with an AddAfter timer
    requeues,    \* limiter: failures of the key since it was last forgotten
    shutting,    \* workqueue: ShutDown was called
    pc,          \* worker -> where it is in processNext
    key,         \* locals of processNext: the worker's key
    ev,          \*   the event it snapshotted
    evGen,       \*   the generation it snapshotted
    deferred,    \*   workers that saw force behind a preserved payload
    transformed, \*   workers whose event went through retryTransform
    marked,      \*   workers whose error asked to preserve the payload
    fresh,       \* history: workers whose snapshot is still the latest
    unhandled    \* history: keys whose latest payload no Handle has settled

queueVars == <<latest, forced, preserve, notBefore, gen>>
workqueueVars == <<dirty, processing, waiting, shutting>>
localVars == <<key, ev, evGen, deferred, transformed, marked, fresh>>
vars == <<latest, forced, preserve, notBefore, gen, known, adding, dirty,
          processing, waiting, requeues, shutting, pc, key, ev, evGen,
          deferred, transformed, marked, fresh, unhandled>>

PC == {"get", "claimed", "redefer", "snapshot", "missing", "forget",
       "handle", "failed", "retry", "giveup", "succeeded", "deferred",
       "readd", "compact", "done", "exited"}

-----------------------------------------------------------------------------
(* newReconcileQueue: empty maps, workers started.                         *)
Init ==
    /\ latest = [k \in Key |-> NoEvent]
    /\ forced = {}
    /\ preserve = {}
    /\ notBefore = [k \in Key |-> "none"]
    /\ gen = [k \in Key |-> 0]
    /\ known = [k \in Key |-> NoEvent]
    /\ adding = [p \in Producer |-> NoKey]
    /\ dirty = {}
    /\ processing = {}
    /\ waiting = {}
    /\ requeues = [k \in Key |-> 0]
    /\ shutting = FALSE
    /\ pc = [w \in Worker |-> "get"]
    /\ key = [w \in Worker |-> NoKey]
    /\ ev = [w \in Worker |-> NoEvent]
    /\ evGen = [w \in Worker |-> 0]
    /\ deferred = {}
    /\ transformed = {}
    /\ marked = {}
    /\ fresh = {}
    /\ unhandled = {}

-----------------------------------------------------------------------------
(* The workqueue's operations.  Add and AddAfter do nothing once ShutDown  *)
(* was called; Add of a key being processed only marks it dirty, and Done  *)
(* then makes it available again.                                          *)
Add(k) == dirty' = IF shutting THEN dirty ELSE dirty \cup {k}

AddAfter(k) == waiting' = IF shutting THEN waiting ELSE waiting \cup {k}

Available == dirty \ processing

-----------------------------------------------------------------------------
(* enqueueWithForce.                                                       *)

IsDelete(e) == e # NoEvent /\ e.type = "Deleted"

Older(e, prev) == Versioned /\ prev # NoEvent /\ e.version < prev.version

Holders(k) == {w \in Worker : key[w] = k}

(* Lines 409-415, and 351-352 for a delete: the event becomes the latest   *)
(* payload of k under a new generation.                                    *)
Accept(p, k, e) ==
    /\ adding[p] = NoKey
    /\ gen[k] < MaxGen
    /\ latest' = [latest EXCEPT ![k] = e]
    /\ gen' = [gen EXCEPT ![k] = @ + 1]
    /\ adding' = [adding EXCEPT ![p] = k]
    /\ unhandled' = unhandled \cup {k}
    /\ fresh' = fresh \ Holders(k)
    /\ UNCHANGED <<notBefore, known, workqueueVars, requeues, pc, key, ev,
                   evGen, deferred, transformed, marked>>

(* A delete always wins, and ends recovery of the key.                     *)
EnqueueDelete(p, k, e) ==
    /\ e.type = "Deleted"
    /\ Accept(p, k, e)
    /\ forced' = forced \ {k}
    /\ preserve' = preserve \ {k}

(* A create or update that no delete blocks and no newer payload outranks. *)
EnqueueAccepted(p, k, e, force) ==
    /\ e.type # "Deleted"
    /\ ~IsDelete(latest[k])
    /\ ~Older(e, latest[k])
    /\ Accept(p, k, e)
    /\ forced' = IF force THEN forced \cup {k} ELSE forced
    /\ UNCHANGED preserve

(* A forced event older than the retained payload is dropped, but leaves   *)
(* its mark and reschedules the key.  (An unforced one, and any create or  *)
(* update behind a delete, changes nothing: not a step.)                   *)
EnqueueOutrankedForced(p, k, e) ==
    /\ adding[p] = NoKey
    /\ e.type # "Deleted"
    /\ ~IsDelete(latest[k])
    /\ Older(e, latest[k])
    /\ forced' = forced \cup {k}
    /\ adding' = [adding EXCEPT ![p] = k]
    /\ UNCHANGED <<latest, preserve, notBefore, gen, known, workqueueVars,
                   requeues, pc, localVars, unhandled>>

(* Mutant: a producer that leaves a key in processing to its worker.       *)
ProducerAddUnlessProcessing(p) ==
    /\ adding[p] # NoKey
    /\ IF adding[p] \in processing THEN UNCHANGED dirty ELSE Add(adding[p])
    /\ adding' = [adding EXCEPT ![p] = NoKey]
    /\ UNCHANGED <<queueVars, known, processing, waiting, requeues, shutting,
                   pc, localVars, unhandled>>

(* The queue.Add after the unlock.                                         *)
ProducerAdd(p) ==
    /\ adding[p] # NoKey
    /\ Add(adding[p])
    /\ adding' = [adding EXCEPT ![p] = NoKey]
    /\ UNCHANGED <<queueVars, known, processing, waiting, requeues, shutting,
                   pc, localVars, unhandled>>

-----------------------------------------------------------------------------
(* The seed's view of absence: knownKeys copies the map; a key the API     *)
(* server answers NotFound for is pruned if its entry is still the one     *)
(* copied (by type and, when versioned, by version).                       *)
KnownKeys ==
    /\ Pruning
    /\ known' = latest
    /\ UNCHANGED <<queueVars, adding, workqueueVars, requeues, pc, localVars,
                   unhandled>>

(* Mutant: pruning does not spare a delete.                                *)
MatchesSnapshotAnyType(k) ==
    /\ known[k] # NoEvent
    /\ latest[k] # NoEvent
    /\ Versioned => latest[k].version = known[k].version
    /\ latest[k].type = known[k].type

MatchesSnapshot(k) ==
    /\ known[k] # NoEvent
    /\ latest[k] # NoEvent
    /\ ~IsDelete(latest[k])
    /\ Versioned => latest[k].version = known[k].version
    /\ latest[k].type = known[k].type

PruneIfNonDelete(k) ==
    /\ MatchesSnapshot(k)
    /\ latest' = [latest EXCEPT ![k] = NoEvent]
    /\ notBefore' = [notBefore EXCEPT ![k] = "none"]
    /\ forced' = forced \ {k}
    /\ preserve' = preserve \ {k}
    /\ gen' = [gen EXCEPT ![k] = 0]
    /\ known' = [known EXCEPT ![k] = NoEvent]     \* visited
    /\ unhandled' = unhandled \ {k}
    /\ fresh' = fresh \ Holders(k)
    /\ UNCHANGED <<adding, workqueueVars, requeues, pc, key, ev, evGen,
                   deferred, transformed, marked>>

-----------------------------------------------------------------------------
(* processNext.                                                            *)

Goto(w, l) == pc' = [pc EXCEPT ![w] = l]

(* Mutant: Done right after Get instead of deferred to the end.            *)
GetDoneAtOnce(w, k) ==
    /\ pc[w] = "get"
    /\ k \in Available
    /\ dirty' = dirty \ {k}
    /\ key' = [key EXCEPT ![w] = k]
    /\ Goto(w, "claimed")
    /\ UNCHANGED <<queueVars, known, adding, processing, waiting, requeues,
                   shutting, ev, evGen, deferred, transformed, marked, fresh,
                   unhandled>>

Get(w, k) ==
    /\ pc[w] = "get"
    /\ k \in Available
    /\ processing' = processing \cup {k}
    /\ dirty' = dirty \ {k}
    /\ key' = [key EXCEPT ![w] = k]
    /\ Goto(w, "claimed")
    /\ UNCHANGED <<queueVars, known, adding, waiting, requeues, shutting, ev,
                   evGen, deferred, transformed, marked, fresh, unhandled>>

(* Get returns shutdown once the queue is shut down and drained.           *)
Exit(w) ==
    /\ pc[w] = "get"
    /\ shutting
    /\ Available = {}
    /\ Goto(w, "exited")
    /\ UNCHANGED <<queueVars, known, adding, workqueueVars, requeues,
                   localVars, unhandled>>

(* Mutant: a re-added key is handled whatever its backoff.                 *)
ReadBackoffIgnored(w) ==
    /\ pc[w] = "claimed"
    /\ Goto(w, "snapshot")
    /\ UNCHANGED <<queueVars, known, adding, workqueueVars, requeues,
                   localVars, unhandled>>

(* Lines 523-536: read the backoff floor and compare it with the clock.    *)
ReadBackoff(w) ==
    /\ pc[w] = "claimed"
    /\ Goto(w, IF notBefore[key[w]] = "ahead" THEN "redefer"
                                                   ELSE "snapshot")
    /\ UNCHANGED <<queueVars, known, adding, workqueueVars, requeues,
                   localVars, unhandled>>

(* Lines 537-543: still backing off, so come back when the floor passes.   *)
Redefer(w) ==
    /\ pc[w] = "redefer"
    /\ AddAfter(key[w])
    /\ Goto(w, "done")
    /\ UNCHANGED <<queueVars, known, adding, dirty, processing, requeues,
                   shutting, localVars, unhandled>>

(* Mutant: force overrides the request to preserve the payload.            *)
RetryTransformedIfForced(k) ==
    /\ HasTransform
    /\ k \in forced \/ (requeues[k] > 0 /\ k \notin preserve)

(* Lines 574-585: does this attempt get the transformed payload?           *)
RetryTransformed(k) ==
    /\ HasTransform
    /\ k \notin preserve
    /\ k \in forced \/ requeues[k] > 0

(* Lines 547-585: snapshot payload, generation and retry policy.  A        *)
(* preserved payload leaves force in place; otherwise this attempt takes   *)
(* it.                                                                     *)
Snapshot(w) ==
    LET k == key[w]
        kept == k \in preserve
    IN  /\ pc[w] = "snapshot"
        /\ forced' = IF kept THEN forced ELSE forced \ {k}
        /\ ev' = [ev EXCEPT ![w] = latest[k]]
        /\ evGen' = [evGen EXCEPT ![w] = gen[k]]
        /\ deferred' = IF kept /\ k \in forced
                       THEN deferred \cup {w} ELSE deferred
        /\ transformed' = IF RetryTransformed(k)
                          THEN transformed \cup {w} ELSE transformed
        /\ fresh' = IF latest[k] = NoEvent THEN fresh ELSE fresh \cup {w}
        /\ Goto(w, IF latest[k] = NoEvent THEN "missing" ELSE "handle")
        /\ UNCHANGED <<latest, preserve, notBefore, gen, known, adding,
                       workqueueVars, requeues, key, marked, unhandled>>

(* Lines 565-569: no payload for the key any more.                         *)
DropForce(w) ==
    /\ pc[w] = "missing"
    /\ forced' = forced \ {key[w]}
    /\ Goto(w, "forget")
    /\ UNCHANGED <<latest, preserve, notBefore, gen, known, adding,
                   workqueueVars, requeues, localVars, unhandled>>

(* Mutant: Forget without clearBackoff.                                    *)
ForgetOnly(k) ==
    /\ requeues' = [requeues EXCEPT ![k] = 0]
    /\ UNCHANGED <<notBefore, preserve>>

(* queue.Forget and clearBackoff.                                          *)
ForgetBackoff(k) ==
    /\ requeues' = [requeues EXCEPT ![k] = 0]
    /\ notBefore' = [notBefore EXCEPT ![k] = "none"]
    /\ preserve' = preserve \ {k}

ForgetMissing(w) ==
    /\ pc[w] = "forget"
    /\ ForgetBackoff(key[w])
    /\ Goto(w, "done")
    /\ UNCHANGED <<latest, forced, gen, known, adding, workqueueVars,
                   localVars, unhandled>>

(* Handle returns: success, an error to retry (marked or not to preserve   *)
(* the payload), or an error retryIf rejects.                              *)
RetryAllowed(k, permanent) ==
    /\ MaxRetries < 0 \/ requeues[k] < MaxRetries
    /\ ~permanent

HandleSucceeds(w) ==
    /\ pc[w] = "handle"
    /\ Goto(w, "succeeded")
    /\ UNCHANGED <<queueVars, known, adding, workqueueVars, requeues,
                   localVars, unhandled>>

(* Mutant: a worker that retries inline instead of through the queue.      *)
HandleFailsInline(w, preserving, permanent) ==
    /\ pc[w] = "handle"
    /\ permanent => HasRetryIf
    /\ marked' = IF preserving THEN marked \cup {w} ELSE marked
    /\ Goto(w, "snapshot")
    /\ UNCHANGED <<queueVars, known, adding, workqueueVars, requeues, key,
                   ev, evGen, deferred, transformed, fresh, unhandled>>

HandleFails(w, preserving, permanent) ==
    /\ pc[w] = "handle"
    /\ permanent => HasRetryIf
    /\ marked' = IF preserving THEN marked \cup {w} ELSE marked
    /\ Goto(w, IF RetryAllowed(key[w], permanent) THEN "failed"
                                                       ELSE "giveup")
    /\ UNCHANGED <<queueVars, known, adding, workqueueVars, requeues, key,
                   ev, evGen, deferred, transformed, fresh, unhandled>>

(* Settled by this attempt, unless a newer payload arrived meanwhile.      *)
Settle(w) ==
    unhandled' = IF w \in fresh THEN unhandled \ {key[w]} ELSE unhandled

(* Lines 597-601.                                                          *)
GiveUp(w) ==
    /\ pc[w] = "giveup"
    /\ ForgetBackoff(key[w])
    /\ Settle(w)
    /\ Goto(w, "done")
    /\ UNCHANGED <<latest, forced, gen, known, adding, workqueueVars,
                   localVars>>

(* The exponential limiter stops growing at its cap.                       *)
Bumped(n) == IF n < RequeueCap THEN n + 1 ELSE n

(* Lines 612-624: bump the limiter and record the backoff floor and the    *)
(* retry policy.                                                           *)
RecordFailure(w) ==
    LET k == key[w]
    IN  /\ pc[w] = "failed"
        /\ requeues' = [requeues EXCEPT ![k] = Bumped(@)]
        /\ notBefore' = [notBefore EXCEPT ![k] = "ahead"]
        /\ preserve' = IF w \in marked THEN preserve \cup {k}
                                        ELSE preserve \ {k}
        /\ Goto(w, "retry")
        /\ UNCHANGED <<latest, forced, gen, known, adding, workqueueVars,
                       localVars, unhandled>>

(* Mutant: a failure recorded but not rescheduled.                         *)
ScheduleNothing(w) ==
    /\ pc[w] = "retry"
    /\ Goto(w, "done")
    /\ UNCHANGED <<queueVars, known, adding, workqueueVars, requeues,
                   localVars, unhandled>>

(* Line 625.                                                               *)
ScheduleRetry(w) ==
    /\ pc[w] = "retry"
    /\ AddAfter(key[w])
    /\ Goto(w, "done")
    /\ UNCHANGED <<queueVars, known, adding, dirty, processing, requeues,
                   shutting, localVars, unhandled>>

AfterSuccess(w) == IF ev[w].type = "Deleted" THEN "compact" ELSE "done"

(* Lines 638-640.                                                          *)
Succeed(w) ==
    /\ pc[w] = "succeeded"
    /\ ForgetBackoff(key[w])
    /\ Settle(w)
    /\ Goto(w, IF w \in deferred THEN "deferred" ELSE AfterSuccess(w))
    /\ UNCHANGED <<latest, forced, gen, known, adding, workqueueVars,
                   localVars>>

(* Mutant: the deferred force is left to the forced enqueue's own item.    *)
ReadDeferredForceIgnored(w) ==
    /\ pc[w] = "deferred"
    /\ Goto(w, AfterSuccess(w))
    /\ UNCHANGED <<queueVars, known, adding, workqueueVars, requeues,
                   localVars, unhandled>>

(* Lines 641-649: is the force deferred behind the preserved attempt still *)
(* wanted?  If so, Add the key for the transformed pass.                   *)
ReadDeferredForce(w) ==
    /\ pc[w] = "deferred"
    /\ Goto(w, IF key[w] \in forced THEN "readd" ELSE AfterSuccess(w))
    /\ UNCHANGED <<queueVars, known, adding, workqueueVars, requeues,
                   localVars, unhandled>>

AddDeferredForce(w) ==
    /\ pc[w] = "readd"
    /\ Add(key[w])
    /\ Goto(w, AfterSuccess(w))
    /\ UNCHANGED <<queueVars, known, adding, processing, waiting, requeues,
                   shutting, localVars, unhandled>>

(* Mutant: the compacted event's literal leaves Type out, which then reads *)
(* as the zero EventType, EventCreated (watcher.go:25).                    *)
CompactWithoutType(w) ==
    LET k == key[w]
    IN  /\ pc[w] = "compact"
        /\ latest' = IF IsDelete(latest[k]) /\ gen[k] = evGen[w]
                     THEN [latest EXCEPT ![k] = [Tombstone EXCEPT !.type = "Created"]]
                     ELSE latest
        /\ Goto(w, "done")
        /\ UNCHANGED <<forced, preserve, notBefore, gen, known, adding,
                       workqueueVars, requeues, localVars, unhandled>>

(* Mutant: compaction that does not compare generations.                   *)
CompactAny(w) ==
    LET k == key[w]
    IN  /\ pc[w] = "compact"
        /\ latest' = IF IsDelete(latest[k])
                     THEN [latest EXCEPT ![k] = Tombstone]
                     ELSE latest
        /\ Goto(w, "done")
        /\ UNCHANGED <<forced, preserve, notBefore, gen, known, adding,
                       workqueueVars, requeues, localVars, unhandled>>

(* Lines 669-675: a delete handled and not superseded keeps only its       *)
(* tombstone.                                                              *)
Compact(w) ==
    LET k == key[w]
    IN  /\ pc[w] = "compact"
        /\ latest' = IF IsDelete(latest[k]) /\ gen[k] = evGen[w]
                     THEN [latest EXCEPT ![k] = Tombstone]
                     ELSE latest
        /\ Goto(w, "done")
        /\ UNCHANGED <<forced, preserve, notBefore, gen, known, adding,
                       workqueueVars, requeues, localVars, unhandled>>

(* The deferred queue.Done.                                                *)
Done(w) ==
    /\ pc[w] = "done"
    /\ processing' = processing \ {key[w]}
    /\ key' = [key EXCEPT ![w] = NoKey]
    /\ ev' = [ev EXCEPT ![w] = NoEvent]
    /\ evGen' = [evGen EXCEPT ![w] = 0]
    /\ deferred' = deferred \ {w}
    /\ transformed' = transformed \ {w}
    /\ marked' = marked \ {w}
    /\ fresh' = fresh \ {w}
    /\ Goto(w, "get")
    /\ UNCHANGED <<queueVars, known, adding, dirty, waiting, requeues,
                   shutting, unhandled>>

-----------------------------------------------------------------------------
(* A timer of the delaying queue fires.  It may be early: the heap keeps   *)
(* the earliest of a key's timers, so one set before a later, longer       *)
(* backoff fires inside it, and one left over from before a success fires  *)
(* with nothing to do.                                                     *)
Timer(k) ==
    /\ k \in waiting
    /\ waiting' = waiting \ {k}
    /\ Add(k)
    /\ UNCHANGED <<queueVars, known, adding, processing, requeues, shutting,
                   pc, localVars, unhandled>>

BackoffElapses(k) ==
    /\ notBefore[k] = "ahead"
    /\ notBefore' = [notBefore EXCEPT ![k] = "behind"]
    /\ UNCHANGED <<latest, forced, preserve, gen, known, adding,
                   workqueueVars, requeues, pc, localVars, unhandled>>

(* stop, or the end of the watcher context: ShutDown, which also ends the  *)
(* delaying queue's loop.                                                  *)
Stop ==
    /\ ~shutting
    /\ shutting' = TRUE
    /\ waiting' = {}
    /\ UNCHANGED <<queueVars, known, adding, dirty, processing, requeues, pc,
                   localVars, unhandled>>

-----------------------------------------------------------------------------
Enqueue(p) ==
    \E k \in Key, e \in InputEvent :
        \/ EnqueueDelete(p, k, e)
        \/ EnqueueAccepted(p, k, e, FALSE)
        \/ /\ Forcing /\ e.type = "Updated"     \* seeds are Updated events
           /\ \/ EnqueueAccepted(p, k, e, TRUE)
              \/ EnqueueOutrankedForced(p, k, e)

WorkerStep(w) ==
    \/ Exit(w)
    \/ ReadBackoff(w)
    \/ Redefer(w)
    \/ Snapshot(w)
    \/ DropForce(w)
    \/ ForgetMissing(w)
    \/ HandleSucceeds(w)
    \/ \E preserving, permanent \in BOOLEAN :
           HandleFails(w, preserving, permanent)
    \/ GiveUp(w)
    \/ RecordFailure(w)
    \/ ScheduleRetry(w)
    \/ Succeed(w)
    \/ ReadDeferredForce(w)
    \/ AddDeferredForce(w)
    \/ Compact(w)
    \/ Done(w)

Next ==
    \/ \E p \in Producer : Enqueue(p) \/ ProducerAdd(p)
    \/ KnownKeys
    \/ \E k \in Key : PruneIfNonDelete(k)
    \/ \E w \in Worker, k \in Key : Get(w, k)
    \/ \E w \in Worker : WorkerStep(w)
    \/ \E k \in Key : Timer(k) \/ BackoffElapses(k)
    \/ Stop

Spec == Init /\ [][Next]_vars

(* Goroutines are scheduled and Handle returns (its calls carry contexts   *)
(* and timeouts); timers fire and time passes; the workqueue is FIFO, so a *)
(* key that keeps being available is eventually handed to a worker.        *)
Fairness ==
    /\ \A p \in Producer : WF_vars(ProducerAdd(p))
    /\ \A w \in Worker : WF_vars(WorkerStep(w))
    /\ \A k \in Key : /\ SF_vars(\E w \in Worker : Get(w, k))
                      /\ WF_vars(Timer(k))
                      /\ WF_vars(BackoffElapses(k))

FairSpec == Spec /\ Fairness

-----------------------------------------------------------------------------
(* Properties.                                                             *)

(* Every map, mark and local of the queue has its type.  What the queue    *)
(* keeps and hands to Handle is an event the stream may deliver: only a    *)
(* delete lacks a payload (requeue.go:652-673).                            *)
TypeOK ==
    /\ latest \in [Key -> InputEvent \cup {NoEvent}]
    /\ forced \in SUBSET Key
    /\ preserve \in SUBSET Key
    /\ notBefore \in [Key -> {"none", "ahead", "behind"}]
    /\ gen \in [Key -> 0..MaxGen]
    /\ known \in [Key -> InputEvent \cup {NoEvent}]
    /\ adding \in [Producer -> Key \cup {NoKey}]
    /\ dirty \in SUBSET Key
    /\ processing \in SUBSET Key
    /\ waiting \in SUBSET Key
    /\ requeues \in [Key -> 0..RequeueCap]
    /\ shutting \in BOOLEAN
    /\ pc \in [Worker -> PC]
    /\ key \in [Worker -> Key \cup {NoKey}]
    /\ ev \in [Worker -> InputEvent \cup {NoEvent}]
    /\ evGen \in [Worker -> 0..MaxGen]
    /\ deferred \in SUBSET Worker
    /\ transformed \in SUBSET Worker
    /\ marked \in SUBSET Worker
    /\ fresh \in SUBSET Worker
    /\ unhandled \in SUBSET Key

Busy(w) == pc[w] \notin {"get", "exited"}

(* The key will reach a worker without another event: it is queued, timed, *)
(* about to be Added by a producer, or held by a worker that has yet to    *)
(* read the maps or is about to schedule it.                               *)
Scheduled(k) ==
    \/ k \in dirty \cup waiting
    \/ \E p \in Producer : adding[p] = k
    \/ \E w \in Worker : /\ key[w] = k
                          /\ pc[w] \in {"claimed", "redefer", "snapshot",
                                        "failed", "retry", "readd"}

(* A worker whose attempt at the key's current payload is under way.       *)
Attempting(k) ==
    \E w \in Worker : /\ key[w] = k
                      /\ w \in fresh
                      /\ pc[w] \in {"handle", "succeeded", "giveup"}

(* "Per-resource serialization" (requeue.go:108): two workers never hold   *)
(* one key, so two Handle calls for one resource never overlap, whatever   *)
(* enqueues, timers and re-adds arrive meanwhile.                          *)
Serialized ==
    \A v, w \in Worker :
        v # w /\ Busy(v) /\ Busy(w) => key[v] # key[w]

(* No lost work (requeue.go:17-22): until some Handle has settled the      *)
(* latest payload of a key, the key is scheduled or being attempted; no    *)
(* interleaving of an enqueue with a finishing worker strands a payload.   *)
NoLostWork ==
    \A k \in unhandled : shutting \/ Scheduled(k) \/ Attempting(k)

(* A worker that will look at the force mark again after its attempt.      *)
Deferring(k) ==
    \E w \in Worker : /\ key[w] = k
                      /\ w \in deferred
                      /\ pc[w] \in {"handle", "succeeded", "deferred"}

(* A recovery mark is never stranded (requeue.go:182-185): while force is  *)
(* set a further pass over the key is certain, also when the forced        *)
(* enqueue's own queue item was spent on a preserved retry.                *)
ForceNeverStranded ==
    \A k \in forced : shutting \/ Scheduled(k) \/ Deferring(k)

(* Retry state never outlives its retry: a backoff floor or a preserve     *)
(* mark left on a key with nothing scheduled would delay or narrow some    *)
(* unrelated later attempt (requeue.go:187-192, 196-204).                  *)
BackoffHasRetry ==
    \A k \in Key :
        notBefore[k] # "none" \/ k \in preserve =>
            \/ shutting
            \/ Scheduled(k)
            \/ \E w \in Worker : key[w] = k /\ Busy(w) /\ pc[w] # "done"

(* "No spin" (requeue.go:196-203): the handler never runs inside the       *)
(* backoff of its key, however often the key is re-added.                  *)
NoHandleInBackoff ==
    \A w \in Worker :
        pc[w] \in {"snapshot", "handle"} => notBefore[key[w]] # "ahead"

(* A retry of work done behind the handler's gate stays behind it          *)
(* (requeue.go:187-192): no attempt is transformed while the key's last    *)
(* failure asked for its payload to be preserved, forced or not.           *)
PreservedNotTransformed ==
    \A w \in Worker :
        pc[w] = "handle" /\ w \in transformed => key[w] \notin preserve

(* A delete is terminal (requeue.go:361-372): no later event, seed, prune  *)
(* or compaction turns a key's delete into anything but a delete.          *)
DeleteIsTerminal ==
    [][\A k \in Key : IsDelete(latest[k]) => IsDelete(latest'[k])]_vars

(* Compaction (requeue.go:652-668) drops the payload of a delete only once *)
(* that payload's own teardown has succeeded: a replayed delete accepted   *)
(* while its predecessor was being handled keeps its payload.              *)
CompactsOnlyHandled ==
    [][\A k \in Key :
          /\ IsDelete(latest[k]) /\ latest[k].full
          /\ gen'[k] = gen[k]
          /\ latest'[k] # latest[k]
          => k \notin unhandled]_vars

(* Retries are durable (requeue.go:14-22): a payload that no Handle has    *)
(* settled is attempted again and again, through failures, backoffs and    *)
(* re-adds, until it is settled, superseded by a prune, or the queue is    *)
(* stopped.                                                                *)
RetryIsDurable ==
    \A k \in Key :
        k \in unhandled ~>
            \/ k \notin unhandled
            \/ shutting
            \/ \E w \in Worker : pc[w] = "handle" /\ key[w] = k
                                                  /\ w \in fresh

(* stop returns (requeue.go:688-693): once the queue is shut down, every   *)
(* worker drains what is queued and exits; failing keys cannot keep the    *)
(* pool alive.                                                             *)
StopDrains == shutting ~> \A w \in Worker : pc[w] = "exited"

(* Workers acting on k: from the snapshot to the end of the bookkeeping of *)
(* Handle's result.                                                        *)
Acting(k) ==
    {w \in Worker : /\ key[w] = k
                    /\ pc[w] \in {"handle", "succeeded", "failed", "giveup"}}

ActedOn(k) == {e \in Event : \E w \in Acting(k) : ev[w] = e}

Running == [k \in Key |-> ActedOn(k)]

Current == {k \in Key : Acting(k) \cap fresh # {}}

Abstract == INSTANCE DesiredStateQueue
    WITH Delete <- {e \in Event : e.type = "Deleted"},
         want <- latest, owed <- unhandled,
         running <- Running, current <- Current

(* The queue with its mutex, workqueue, timers, retries and compaction     *)
(* implements the level-triggered queue its callers rely on                *)
(* (requeue.go:99-117): one Handle per resource at a time, on the newest   *)
(* payload at its start; work owed until a Handle settles the newest       *)
(* payload; deletes terminal.                                              *)
ImplementsDesiredState == Abstract!Spec

(* What the comment on the forced field promises (requeue.go:182-183):     *)
(* "The mark is cleared when a transformed handler attempt consumes it (or *)
(* the key is pruned), never by a mere backoff re-defer"; and a delete     *)
(* clears it.                                                              *)
ForceConsumedByAttempt ==
    [][\A k \in forced \ forced' :
          \/ \E w \in Worker : /\ pc'[w] = "handle" /\ key'[w] = k
                               /\ w \in transformed'
          \/ IsDelete(latest'[k])
          \/ latest'[k] = NoEvent]_vars
=============================================================================
