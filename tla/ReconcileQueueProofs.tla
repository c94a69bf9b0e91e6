------------------------ MODULE ReconcileQueueProofs ------------------------
(***************************************************************************)
(* Proofs about ReconcileQueue for any number of keys, workers and         *)
(* producers, any version and generation bounds and any queue options.     *)
(*                                                                         *)
(* None of the safety properties is inductive by itself.  They follow from *)
(* IInv, which adds who holds which key (Held), what a payload-less key    *)
(* cannot carry (PayloadKept), what a worker past its success knows about  *)
(* its key (AfterHandle), and how the generation it snapshotted relates to *)
(* the key's current one (DeleteSnapshot).                                 *)
(***************************************************************************)
EXTENDS ReconcileQueue, TLAPS

(* A busy worker holds its key in the workqueue; an idle one holds none,   *)
(* and until its snapshot a worker has transformed nothing.                *)
Held ==
    \A w \in Worker :
        /\ Busy(w) => key[w] \in processing
        /\ ~Busy(w) => key[w] = NoKey
        /\ pc[w] \in {"get", "claimed", "snapshot"} => w \notin transformed

(* Only a key with a payload is unhandled or marked for recovery, and only *)
(* a queue with forced producers marks any.                                *)
PayloadKept ==
    /\ \A k \in unhandled \cup forced : latest[k] # NoEvent
    /\ forced # {} => Forcing

InFlight == {"handle", "failed", "giveup", "succeeded", "deferred", "readd",
             "compact"}

(* A worker in flight has an event, and one that compacts has a delete.    *)
(* Past its success the key's retry state is gone, and what it settled     *)
(* stays settled while its snapshot is fresh.                              *)
AfterHandle ==
    \A w \in Worker :
        /\ pc[w] \in InFlight => ev[w] \in Event
        /\ pc[w] = "compact" => ev[w].type = "Deleted"
        /\ pc[w] \in {"deferred", "readd", "compact"} =>
               /\ notBefore[key[w]] = "none"
               /\ key[w] \notin preserve
               /\ w \in fresh => key[w] \notin unhandled

(* While a delete is in flight its key stays deleted, generations only     *)
(* grow, and an unchanged generation means an unchanged payload.           *)
DeleteSnapshot ==
    \A w \in Worker :
        pc[w] \in InFlight /\ ev[w].type = "Deleted" =>
            /\ IsDelete(latest[key[w]])
            /\ evGen[w] <= gen[key[w]]
            /\ evGen[w] = gen[key[w]] => w \in fresh

(* A queue whose producers force recovery never gives a key up: only the   *)
(* gateway queue forces, and it takes neither withMaxRetries nor           *)
(* withRetryIf.                                                            *)
ForcingRetriesForever == Forcing => MaxRetries < 0 /\ ~HasRetryIf

(* The inductive invariant, in three groups: who holds a key, what an      *)
(* attempt knows of its key, and why a key that needs a pass will get one. *)
HoldInv == TypeOK /\ Held /\ Serialized /\ PayloadKept

AttemptInv ==
    /\ AfterHandle
    /\ DeleteSnapshot
    /\ NoHandleInBackoff
    /\ PreservedNotTransformed

ScheduleInv ==
    /\ NoLostWork
    /\ BackoffHasRetry
    /\ ForcingRetriesForever => ForceNeverStranded

IInv == HoldInv /\ AttemptInv /\ ScheduleInv

-----------------------------------------------------------------------------
(* The compacted form of a delete is itself an event (requeue.go:672-673). *)
LEMMA TombstoneIsEvent == Tombstone \in Event
<1>1. 0 \in 0..MaxVersion
  BY BoundsAssumption
<1>2. QED
  BY <1>1, Zenon DEF Tombstone, Event, EventType

(* Whatever the streams and lists deliver can be stored in the latest map. *)
LEMMA InputEvents ==
    /\ InputEvent \subseteq Event
    /\ Tombstone \in InputEvent
    /\ NoEvent \notin InputEvent
  BY TombstoneIsEvent, NoEventAssumption DEF InputEvent

(* The queue starts empty, with every worker about to call Get.            *)
LEMMA InitIInv == Init => IInv
<1> SUFFICES ASSUME Init PROVE IInv
  OBVIOUS
<1> USE NoKeyAssumption, NoEventAssumption, BoundsAssumption DEF Init
<1>1. HoldInv
  <2>1. TypeOK
    <3>1. 0 \in 0..MaxGen /\ 0 \in 0..RequeueCap
      OBVIOUS
    <3> QED
      BY <3>1, Zenon DEF TypeOK, PC
  <2>2. Held /\ Serialized /\ PayloadKept
    BY DEF Held, Serialized, Busy, PayloadKept
  <2> QED
    BY <2>1, <2>2 DEF HoldInv
<1>2. AttemptInv
  BY DEF AttemptInv, AfterHandle, InFlight, DeleteSnapshot,
         NoHandleInBackoff, PreservedNotTransformed
<1>3. ScheduleInv
  BY DEF ScheduleInv, NoLostWork, BackoffHasRetry, ForceNeverStranded
<1> QED
  BY <1>1, <1>2, <1>3 DEF IInv

(* Every step of a producer, the seed, a worker, a timer or the clock      *)
(* preserves the invariant.                                                *)
LEMMA NextIInv == IInv /\ [Next]_vars => IInv'
<1> SUFFICES ASSUME IInv, [Next]_vars PROVE IInv'
  OBVIOUS
<1> USE NoKeyAssumption, NoEventAssumption, BoundsAssumption, InputEvents
    DEF TypeOK, PC, queueVars, workqueueVars, localVars, Goto, IInv, HoldInv
<1>1. ASSUME NEW p \in Producer, NEW k \in Key, NEW e \in InputEvent,
             EnqueueDelete(p, k, e)
      PROVE  IInv'
  <2>1. HoldInv'
    BY <1>1
       DEF EnqueueDelete, Accept, Holders, Held, Serialized, Busy,
           PayloadKept
  <2>2. AttemptInv'
    BY <1>1
       DEF EnqueueDelete, Accept, Holders, AttemptInv, AfterHandle,
           InFlight, DeleteSnapshot, IsDelete, Held, Serialized, Busy,
           NoHandleInBackoff, PreservedNotTransformed
  <2>3. ScheduleInv'
    BY <1>1
       DEF EnqueueDelete, Accept, Holders, ScheduleInv, NoLostWork,
           Scheduled, Attempting, PayloadKept, ForcingRetriesForever,
           ForceNeverStranded, Deferring, BackoffHasRetry, Busy, AttemptInv,
           AfterHandle, Held, Serialized
  <2> QED
    BY <2>1, <2>2, <2>3
<1>2. ASSUME NEW p \in Producer, NEW k \in Key, NEW e \in InputEvent,
             NEW f \in BOOLEAN,
             EnqueueAccepted(p, k, e, f), f => Forcing
      PROVE  IInv'
  <2>1. HoldInv'
    BY <1>2
       DEF EnqueueAccepted, Accept, Holders, Held, Serialized, Busy,
           PayloadKept
  <2>2. AttemptInv'
    BY <1>2
       DEF EnqueueAccepted, Accept, Holders, AttemptInv, AfterHandle,
           InFlight, DeleteSnapshot, IsDelete, Held, Serialized, Busy,
           NoHandleInBackoff, PreservedNotTransformed
  <2>3. ScheduleInv'
    BY <1>2
       DEF EnqueueAccepted, Accept, Holders, ScheduleInv, NoLostWork,
           Scheduled, Attempting, PayloadKept, ForcingRetriesForever,
           ForceNeverStranded, Deferring, BackoffHasRetry, Busy, AttemptInv,
           AfterHandle, Held, Serialized
  <2> QED
    BY <2>1, <2>2, <2>3
<1>3. ASSUME NEW p \in Producer, NEW k \in Key, NEW e \in InputEvent,
             EnqueueOutrankedForced(p, k, e), Forcing
      PROVE  IInv'
  <2>1. HoldInv'
    BY <1>3
       DEF EnqueueOutrankedForced, Older, Held, Serialized, Busy,
           PayloadKept
  <2>2. AttemptInv'
    BY <1>3
       DEF EnqueueOutrankedForced, Older, AttemptInv, AfterHandle, InFlight,
           DeleteSnapshot, IsDelete, Held, Serialized, Busy,
           NoHandleInBackoff, PreservedNotTransformed
  <2>3. ScheduleInv'
    BY <1>3
       DEF EnqueueOutrankedForced, Older, ScheduleInv, NoLostWork,
           Scheduled, Attempting, PayloadKept, ForcingRetriesForever,
           ForceNeverStranded, Deferring, BackoffHasRetry, Busy, AttemptInv,
           AfterHandle, Held, Serialized
  <2> QED
    BY <2>1, <2>2, <2>3
<1>4. ASSUME NEW p \in Producer, ProducerAdd(p)
      PROVE  IInv'
  <2>1. HoldInv'
    BY <1>4 DEF ProducerAdd, Add, Held, Serialized, Busy, PayloadKept
  <2>2. AttemptInv'
    BY <1>4
       DEF ProducerAdd, Add, AttemptInv, AfterHandle, InFlight,
           DeleteSnapshot, IsDelete, Held, Serialized, Busy,
           NoHandleInBackoff, PreservedNotTransformed
  <2>3. ScheduleInv'
    BY <1>4
       DEF ProducerAdd, Add, ScheduleInv, NoLostWork, Scheduled, Attempting,
           PayloadKept, ForcingRetriesForever, ForceNeverStranded,
           Deferring, BackoffHasRetry, Busy, AttemptInv, AfterHandle, Held,
           Serialized
  <2> QED
    BY <2>1, <2>2, <2>3
<1>5. ASSUME KnownKeys
      PROVE  IInv'
  <2>1. HoldInv'
    BY <1>5 DEF KnownKeys, Held, Serialized, Busy, PayloadKept
  <2>2. AttemptInv'
    BY <1>5
       DEF KnownKeys, AttemptInv, AfterHandle, InFlight, DeleteSnapshot,
           IsDelete, Held, Serialized, Busy, NoHandleInBackoff,
           PreservedNotTransformed
  <2>3. ScheduleInv'
    BY <1>5
       DEF KnownKeys, ScheduleInv, NoLostWork, Scheduled, Attempting,
           PayloadKept, ForcingRetriesForever, ForceNeverStranded,
           Deferring, BackoffHasRetry, Busy, AttemptInv, AfterHandle, Held,
           Serialized
  <2> QED
    BY <2>1, <2>2, <2>3
<1>6. ASSUME NEW k \in Key, PruneIfNonDelete(k)
      PROVE  IInv'
  <2>1. HoldInv'
    BY <1>6
       DEF PruneIfNonDelete, MatchesSnapshot, Holders, Held, Serialized,
           Busy, PayloadKept
  <2>2. AttemptInv'
    BY <1>6
       DEF PruneIfNonDelete, MatchesSnapshot, Holders, AttemptInv,
           AfterHandle, InFlight, DeleteSnapshot, IsDelete, Held,
           Serialized, Busy, NoHandleInBackoff, PreservedNotTransformed
  <2>3. ScheduleInv'
    BY <1>6
       DEF PruneIfNonDelete, MatchesSnapshot, Holders, ScheduleInv,
           NoLostWork, Scheduled, Attempting, PayloadKept,
           ForcingRetriesForever, ForceNeverStranded, Deferring,
           BackoffHasRetry, Busy, AttemptInv, AfterHandle, Held, Serialized
  <2> QED
    BY <2>1, <2>2, <2>3
<1>7. ASSUME NEW w \in Worker, NEW k \in Key, Get(w, k)
      PROVE  IInv'
  <2>1. HoldInv'
    BY <1>7 DEF Get, Available, Held, Serialized, Busy, PayloadKept
  <2>2. AttemptInv'
    BY <1>7
       DEF Get, Available, AttemptInv, AfterHandle, InFlight,
           DeleteSnapshot, IsDelete, Held, Serialized, Busy,
           NoHandleInBackoff, PreservedNotTransformed
  <2>3. ScheduleInv'
    BY <1>7
       DEF Get, Available, ScheduleInv, NoLostWork, Scheduled, Attempting,
           PayloadKept, ForcingRetriesForever, ForceNeverStranded,
           Deferring, BackoffHasRetry, Busy, AttemptInv, AfterHandle, Held,
           Serialized
  <2> QED
    BY <2>1, <2>2, <2>3
<1>8. ASSUME NEW w \in Worker, Exit(w)
      PROVE  IInv'
  <2>1. HoldInv'
    BY <1>8 DEF Exit, Held, Serialized, Busy, PayloadKept
  <2>2. AttemptInv'
    BY <1>8
       DEF Exit, AttemptInv, AfterHandle, InFlight, DeleteSnapshot,
           IsDelete, Held, Serialized, Busy, NoHandleInBackoff,
           PreservedNotTransformed
  <2>3. ScheduleInv'
    BY <1>8
       DEF Exit, ScheduleInv, NoLostWork, Scheduled, Attempting,
           PayloadKept, ForcingRetriesForever, ForceNeverStranded,
           Deferring, BackoffHasRetry, Busy, AttemptInv, AfterHandle, Held,
           Serialized
  <2> QED
    BY <2>1, <2>2, <2>3
<1>9. ASSUME NEW w \in Worker, ReadBackoff(w)
      PROVE  IInv'
  <2>1. HoldInv'
    BY <1>9 DEF ReadBackoff, Held, Serialized, Busy, PayloadKept
  <2>2. AttemptInv'
    BY <1>9
       DEF ReadBackoff, AttemptInv, AfterHandle, InFlight, DeleteSnapshot,
           IsDelete, Held, Serialized, Busy, NoHandleInBackoff,
           PreservedNotTransformed
  <2>3. ScheduleInv'
    BY <1>9
       DEF ReadBackoff, ScheduleInv, NoLostWork, Scheduled, Attempting,
           PayloadKept, ForcingRetriesForever, ForceNeverStranded,
           Deferring, BackoffHasRetry, Busy, AttemptInv, AfterHandle, Held,
           Serialized
  <2> QED
    BY <2>1, <2>2, <2>3
<1>10. ASSUME NEW w \in Worker, Redefer(w)
      PROVE  IInv'
  <2>1. HoldInv'
    BY <1>10 DEF Redefer, AddAfter, Held, Serialized, Busy, PayloadKept
  <2>2. AttemptInv'
    BY <1>10
       DEF Redefer, AddAfter, AttemptInv, AfterHandle, InFlight,
           DeleteSnapshot, IsDelete, Held, Serialized, Busy,
           NoHandleInBackoff, PreservedNotTransformed
  <2>3. ScheduleInv'
    BY <1>10
       DEF Redefer, AddAfter, ScheduleInv, NoLostWork, Scheduled,
           Attempting, PayloadKept, ForcingRetriesForever,
           ForceNeverStranded, Deferring, BackoffHasRetry, Busy, AttemptInv,
           AfterHandle, Held, Serialized
  <2> QED
    BY <2>1, <2>2, <2>3
<1>11. ASSUME NEW w \in Worker, Snapshot(w)
      PROVE  IInv'
  <2>1. HoldInv'
    BY <1>11
       DEF Snapshot, RetryTransformed, Held, Serialized, Busy, PayloadKept
  <2>2. AttemptInv'
    BY <1>11
       DEF Snapshot, RetryTransformed, AttemptInv, AfterHandle, InFlight,
           DeleteSnapshot, IsDelete, Held, Serialized, Busy,
           NoHandleInBackoff, PreservedNotTransformed
  <2>3. ScheduleInv'
    BY <1>11
       DEF Snapshot, RetryTransformed, ScheduleInv, NoLostWork, Scheduled,
           Attempting, PayloadKept, ForcingRetriesForever,
           ForceNeverStranded, Deferring, BackoffHasRetry, Busy, AttemptInv,
           AfterHandle, Held, Serialized
  <2> QED
    BY <2>1, <2>2, <2>3
<1>12. ASSUME NEW w \in Worker, DropForce(w)
      PROVE  IInv'
  <2>1. HoldInv'
    BY <1>12 DEF DropForce, Held, Serialized, Busy, PayloadKept
  <2>2. AttemptInv'
    BY <1>12
       DEF DropForce, AttemptInv, AfterHandle, InFlight, DeleteSnapshot,
           IsDelete, Held, Serialized, Busy, NoHandleInBackoff,
           PreservedNotTransformed
  <2>3. ScheduleInv'
    BY <1>12
       DEF DropForce, ScheduleInv, NoLostWork, Scheduled, Attempting,
           PayloadKept, ForcingRetriesForever, ForceNeverStranded,
           Deferring, BackoffHasRetry, Busy, AttemptInv, AfterHandle, Held,
           Serialized
  <2> QED
    BY <2>1, <2>2, <2>3
<1>13. ASSUME NEW w \in Worker, ForgetMissing(w)
      PROVE  IInv'
  <2>1. HoldInv'
    BY <1>13
       DEF ForgetMissing, ForgetBackoff, Held, Serialized, Busy, PayloadKept
  <2>2. AttemptInv'
    BY <1>13
       DEF ForgetMissing, ForgetBackoff, AttemptInv, AfterHandle, InFlight,
           DeleteSnapshot, IsDelete, Held, Serialized, Busy,
           NoHandleInBackoff, PreservedNotTransformed
  <2>3. ScheduleInv'
    BY <1>13
       DEF ForgetMissing, ForgetBackoff, ScheduleInv, NoLostWork, Scheduled,
           Attempting, PayloadKept, ForcingRetriesForever,
           ForceNeverStranded, Deferring, BackoffHasRetry, Busy, AttemptInv,
           AfterHandle, Held, Serialized
  <2> QED
    BY <2>1, <2>2, <2>3
<1>14. ASSUME NEW w \in Worker, HandleSucceeds(w)
      PROVE  IInv'
  <2>1. HoldInv'
    BY <1>14 DEF HandleSucceeds, Held, Serialized, Busy, PayloadKept
  <2>2. AttemptInv'
    BY <1>14
       DEF HandleSucceeds, AttemptInv, AfterHandle, InFlight,
           DeleteSnapshot, IsDelete, Held, Serialized, Busy,
           NoHandleInBackoff, PreservedNotTransformed
  <2>3. ScheduleInv'
    BY <1>14
       DEF HandleSucceeds, ScheduleInv, NoLostWork, Scheduled, Attempting,
           PayloadKept, ForcingRetriesForever, ForceNeverStranded,
           Deferring, BackoffHasRetry, Busy, AttemptInv, AfterHandle, Held,
           Serialized
  <2> QED
    BY <2>1, <2>2, <2>3
<1>15. ASSUME NEW w \in Worker, NEW r \in BOOLEAN, NEW q \in BOOLEAN,
             HandleFails(w, r, q)
      PROVE  IInv'
  <2>1. HoldInv'
    BY <1>15
       DEF HandleFails, RetryAllowed, Held, Serialized, Busy, PayloadKept
  <2>2. AttemptInv'
    BY <1>15
       DEF HandleFails, RetryAllowed, AttemptInv, AfterHandle, InFlight,
           DeleteSnapshot, IsDelete, Held, Serialized, Busy,
           NoHandleInBackoff, PreservedNotTransformed
  <2>3. ScheduleInv'
    BY <1>15
       DEF HandleFails, RetryAllowed, ScheduleInv, NoLostWork, Scheduled,
           Attempting, PayloadKept, ForcingRetriesForever,
           ForceNeverStranded, Deferring, BackoffHasRetry, Busy, AttemptInv,
           AfterHandle, Held, Serialized
  <2> QED
    BY <2>1, <2>2, <2>3
<1>16. ASSUME NEW w \in Worker, GiveUp(w)
      PROVE  IInv'
  <2>1. HoldInv'
    BY <1>16
       DEF GiveUp, ForgetBackoff, Settle, Held, Serialized, Busy,
           PayloadKept
  <2>2. AttemptInv'
    BY <1>16
       DEF GiveUp, ForgetBackoff, Settle, AttemptInv, AfterHandle, InFlight,
           DeleteSnapshot, IsDelete, Held, Serialized, Busy,
           NoHandleInBackoff, PreservedNotTransformed
  <2>3. ScheduleInv'
    BY <1>16
       DEF GiveUp, ForgetBackoff, Settle, ScheduleInv, NoLostWork,
           Scheduled, Attempting, PayloadKept, ForcingRetriesForever,
           ForceNeverStranded, Deferring, BackoffHasRetry, Busy, AttemptInv,
           AfterHandle, Held, Serialized
  <2> QED
    BY <2>1, <2>2, <2>3
<1>17. ASSUME NEW w \in Worker, RecordFailure(w)
      PROVE  IInv'
  <2>1. HoldInv'
    BY <1>17 DEF RecordFailure, Bumped, Held, Serialized, Busy, PayloadKept
  <2>2. AttemptInv'
    BY <1>17
       DEF RecordFailure, Bumped, AttemptInv, AfterHandle, InFlight,
           DeleteSnapshot, IsDelete, Held, Serialized, Busy,
           NoHandleInBackoff, PreservedNotTransformed
  <2>3. ScheduleInv'
    BY <1>17
       DEF RecordFailure, Bumped, ScheduleInv, NoLostWork, Scheduled,
           Attempting, PayloadKept, ForcingRetriesForever,
           ForceNeverStranded, Deferring, BackoffHasRetry, Busy, AttemptInv,
           AfterHandle, Held, Serialized
  <2> QED
    BY <2>1, <2>2, <2>3
<1>18. ASSUME NEW w \in Worker, ScheduleRetry(w)
      PROVE  IInv'
  <2>1. HoldInv'
    BY <1>18
       DEF ScheduleRetry, AddAfter, Held, Serialized, Busy, PayloadKept
  <2>2. AttemptInv'
    BY <1>18
       DEF ScheduleRetry, AddAfter, AttemptInv, AfterHandle, InFlight,
           DeleteSnapshot, IsDelete, Held, Serialized, Busy,
           NoHandleInBackoff, PreservedNotTransformed
  <2>3. ScheduleInv'
    BY <1>18
       DEF ScheduleRetry, AddAfter, ScheduleInv, NoLostWork, Scheduled,
           Attempting, PayloadKept, ForcingRetriesForever,
           ForceNeverStranded, Deferring, BackoffHasRetry, Busy, AttemptInv,
           AfterHandle, Held, Serialized
  <2> QED
    BY <2>1, <2>2, <2>3
<1>19. ASSUME NEW w \in Worker, Succeed(w)
      PROVE  IInv'
  <2>1. HoldInv'
    BY <1>19
       DEF Succeed, ForgetBackoff, Settle, AfterSuccess, Held, Serialized,
           Busy, PayloadKept
  <2>2. AttemptInv'
    BY <1>19
       DEF Succeed, ForgetBackoff, Settle, AfterSuccess, AttemptInv,
           AfterHandle, InFlight, DeleteSnapshot, IsDelete, Held,
           Serialized, Busy, NoHandleInBackoff, PreservedNotTransformed
  <2>3. ScheduleInv'
    BY <1>19
       DEF Succeed, ForgetBackoff, Settle, AfterSuccess, ScheduleInv,
           NoLostWork, Scheduled, Attempting, PayloadKept,
           ForcingRetriesForever, ForceNeverStranded, Deferring,
           BackoffHasRetry, Busy, AttemptInv, AfterHandle, Held, Serialized
  <2> QED
    BY <2>1, <2>2, <2>3
<1>20. ASSUME NEW w \in Worker, ReadDeferredForce(w)
      PROVE  IInv'
  <2>1. HoldInv'
    BY <1>20
       DEF ReadDeferredForce, AfterSuccess, Held, Serialized, Busy,
           PayloadKept
  <2>2. AttemptInv'
    BY <1>20
       DEF ReadDeferredForce, AfterSuccess, AttemptInv, AfterHandle,
           InFlight, DeleteSnapshot, IsDelete, Held, Serialized, Busy,
           NoHandleInBackoff, PreservedNotTransformed
  <2>3. ScheduleInv'
    BY <1>20
       DEF ReadDeferredForce, AfterSuccess, ScheduleInv, NoLostWork,
           Scheduled, Attempting, PayloadKept, ForcingRetriesForever,
           ForceNeverStranded, Deferring, BackoffHasRetry, Busy, AttemptInv,
           AfterHandle, Held, Serialized
  <2> QED
    BY <2>1, <2>2, <2>3
<1>21. ASSUME NEW w \in Worker, AddDeferredForce(w)
      PROVE  IInv'
  <2>1. HoldInv'
    BY <1>21
       DEF AddDeferredForce, Add, AfterSuccess, Held, Serialized, Busy,
           PayloadKept
  <2>2. AttemptInv'
    BY <1>21
       DEF AddDeferredForce, Add, AfterSuccess, AttemptInv, AfterHandle,
           InFlight, DeleteSnapshot, IsDelete, Held, Serialized, Busy,
           NoHandleInBackoff, PreservedNotTransformed
  <2>3. ScheduleInv'
    BY <1>21
       DEF AddDeferredForce, Add, AfterSuccess, ScheduleInv, NoLostWork,
           Scheduled, Attempting, PayloadKept, ForcingRetriesForever,
           ForceNeverStranded, Deferring, BackoffHasRetry, Busy, AttemptInv,
           AfterHandle, Held, Serialized
  <2> QED
    BY <2>1, <2>2, <2>3
<1>22. ASSUME NEW w \in Worker, Compact(w)
      PROVE  IInv'
  <2>1. HoldInv'
    BY <1>22 DEF Compact, Held, Serialized, Busy, PayloadKept
  <2>2. AttemptInv'
    BY <1>22
       DEF Compact, AttemptInv, AfterHandle, InFlight, DeleteSnapshot,
           IsDelete, Held, Serialized, Busy, NoHandleInBackoff,
           PreservedNotTransformed
  <2>3. ScheduleInv'
    BY <1>22
       DEF Compact, ScheduleInv, NoLostWork, Scheduled, Attempting,
           PayloadKept, ForcingRetriesForever, ForceNeverStranded,
           Deferring, BackoffHasRetry, Busy, AttemptInv, AfterHandle, Held,
           Serialized
  <2> QED
    BY <2>1, <2>2, <2>3
<1>23. ASSUME NEW w \in Worker, Done(w)
      PROVE  IInv'
  <2>1. HoldInv'
    BY <1>23 DEF Done, Held, Serialized, Busy, PayloadKept
  <2>2. AttemptInv'
    BY <1>23
       DEF Done, AttemptInv, AfterHandle, InFlight, DeleteSnapshot,
           IsDelete, Held, Serialized, Busy, NoHandleInBackoff,
           PreservedNotTransformed
  <2>3. ScheduleInv'
    <3>1. NoLostWork'
      BY <1>23 DEF Done, ScheduleInv, NoLostWork, Scheduled, Attempting
    <3>2. BackoffHasRetry'
      BY <1>23
         DEF Done, ScheduleInv, BackoffHasRetry, Scheduled, Busy, Held,
             Serialized
    <3>3. (ForcingRetriesForever => ForceNeverStranded)'
      BY <1>23
         DEF Done, ScheduleInv, ForcingRetriesForever, ForceNeverStranded,
             Scheduled, Deferring
    <3> QED
      BY <3>1, <3>2, <3>3 DEF ScheduleInv
  <2> QED
    BY <2>1, <2>2, <2>3
<1>24. ASSUME NEW k \in Key, Timer(k)
      PROVE  IInv'
  <2>1. HoldInv'
    BY <1>24 DEF Timer, Add, Held, Serialized, Busy, PayloadKept
  <2>2. AttemptInv'
    BY <1>24
       DEF Timer, Add, AttemptInv, AfterHandle, InFlight, DeleteSnapshot,
           IsDelete, Held, Serialized, Busy, NoHandleInBackoff,
           PreservedNotTransformed
  <2>3. ScheduleInv'
    BY <1>24
       DEF Timer, Add, ScheduleInv, NoLostWork, Scheduled, Attempting,
           PayloadKept, ForcingRetriesForever, ForceNeverStranded,
           Deferring, BackoffHasRetry, Busy, AttemptInv, AfterHandle, Held,
           Serialized
  <2> QED
    BY <2>1, <2>2, <2>3
<1>25. ASSUME NEW k \in Key, BackoffElapses(k)
      PROVE  IInv'
  <2>1. HoldInv'
    BY <1>25 DEF BackoffElapses, Held, Serialized, Busy, PayloadKept
  <2>2. AttemptInv'
    BY <1>25
       DEF BackoffElapses, AttemptInv, AfterHandle, InFlight,
           DeleteSnapshot, IsDelete, Held, Serialized, Busy,
           NoHandleInBackoff, PreservedNotTransformed
  <2>3. ScheduleInv'
    BY <1>25
       DEF BackoffElapses, ScheduleInv, NoLostWork, Scheduled, Attempting,
           PayloadKept, ForcingRetriesForever, ForceNeverStranded,
           Deferring, BackoffHasRetry, Busy, AttemptInv, AfterHandle, Held,
           Serialized
  <2> QED
    BY <2>1, <2>2, <2>3
<1>26. ASSUME Stop
      PROVE  IInv'
  <2>1. HoldInv'
    BY <1>26 DEF Stop, Held, Serialized, Busy, PayloadKept
  <2>2. AttemptInv'
    BY <1>26
       DEF Stop, AttemptInv, AfterHandle, InFlight, DeleteSnapshot,
           IsDelete, Held, Serialized, Busy, NoHandleInBackoff,
           PreservedNotTransformed
  <2>3. ScheduleInv'
    BY <1>26
       DEF Stop, ScheduleInv, NoLostWork, Scheduled, Attempting,
           PayloadKept, ForcingRetriesForever, ForceNeverStranded,
           Deferring, BackoffHasRetry, Busy, AttemptInv, AfterHandle, Held,
           Serialized
  <2> QED
    BY <2>1, <2>2, <2>3
<1>27. ASSUME UNCHANGED vars
      PROVE  IInv'
  <2>1. HoldInv'
    BY <1>27 DEF vars, Held, Serialized, Busy, PayloadKept
  <2>2. AttemptInv'
    BY <1>27
       DEF vars, AttemptInv, AfterHandle, InFlight, DeleteSnapshot,
           IsDelete, Held, Serialized, Busy, NoHandleInBackoff,
           PreservedNotTransformed
  <2>3. ScheduleInv'
    BY <1>27
       DEF vars, ScheduleInv, NoLostWork, Scheduled, Attempting,
           PayloadKept, ForcingRetriesForever, ForceNeverStranded,
           Deferring, BackoffHasRetry, Busy, AttemptInv, AfterHandle, Held,
           Serialized
  <2> QED
    BY <2>1, <2>2, <2>3
<1>28. ASSUME NEW p \in Producer, Enqueue(p)
      PROVE  IInv'
  BY <1>28, <1>1, <1>2, <1>3, InputEvents, Zenon DEF Enqueue
<1>29. ASSUME NEW w \in Worker, WorkerStep(w)
      PROVE  IInv'
  BY <1>29, <1>8, <1>9, <1>10, <1>11, <1>12, <1>13, <1>14, <1>15, <1>16,
     <1>17, <1>18, <1>19, <1>20, <1>21, <1>22, <1>23, Zenon
     DEF WorkerStep
<1> QED
  BY <1>28, <1>29, <1>4, <1>5, <1>6, <1>7, <1>24, <1>25, <1>26, <1>27, Zenon
     DEF Next

(* The strengthened invariant of the reconcile queue.                      *)
THEOREM Invariance == Spec => []IInv
<1>1. Init => IInv
  BY InitIInv
<1>2. IInv /\ [Next]_vars => IInv'
  BY NextIInv
<1> QED
  BY <1>1, <1>2, PTL DEF Spec

(* Type correctness of the queue, for any instance.                        *)
THEOREM TypeCorrect == Spec => []TypeOK
<1>1. IInv => TypeOK
  BY DEF IInv, HoldInv
<1> QED
  BY <1>1, Invariance, PTL

(* Two Handle calls for one resource never overlap (processNext's Get and  *)
(* Done bracket each attempt).                                             *)
THEOREM HandleSerialized == Spec => []Serialized
<1>1. IInv => Serialized
  BY DEF IInv, HoldInv
<1> QED
  BY <1>1, Invariance, PTL

(* No accepted payload is stranded, whatever the interleaving of enqueue's *)
(* unlock-then-Add with processNext.                                       *)
THEOREM WorkNeverLost == Spec => []NoLostWork
<1>1. IInv => NoLostWork
  BY DEF IInv, ScheduleInv
<1> QED
  BY <1>1, Invariance, PTL

(* A recovery mark always has a pass coming, in a queue that retries       *)
(* without limit, as the gateway queue does.                               *)
THEOREM ForceSurvives ==
    ASSUME ForcingRetriesForever
    PROVE  Spec => []ForceNeverStranded
<1>1. IInv => ForceNeverStranded
  BY ForcingRetriesForever DEF IInv, ScheduleInv
<1> QED
  BY <1>1, Invariance, PTL

(* Backoff and preserve marks never outlive the retry they belong to.      *)
THEOREM RetryStateOwned == Spec => []BackoffHasRetry
<1>1. IInv => BackoffHasRetry
  BY DEF IInv, ScheduleInv
<1> QED
  BY <1>1, Invariance, PTL

(* Handle never runs inside its key's backoff.                             *)
THEOREM BackoffRespected == Spec => []NoHandleInBackoff
<1>1. IInv => NoHandleInBackoff
  BY DEF IInv, AttemptInv
<1> QED
  BY <1>1, Invariance, PTL

(* A preserved retry is never transformed.                                 *)
THEOREM PreserveWins == Spec => []PreservedNotTransformed
<1>1. IInv => PreservedNotTransformed
  BY DEF IInv, AttemptInv
<1> QED
  BY <1>1, Invariance, PTL

-----------------------------------------------------------------------------
(* Only an enqueue, the seed's prune and the compaction write the latest   *)
(* map.                                                                    *)
LEMMA OnlyTheseChangeLatest ==
    [Next]_vars =>
        \/ \E p \in Producer : Enqueue(p)
        \/ \E k \in Key : PruneIfNonDelete(k)
        \/ \E w \in Worker : Compact(w)
        \/ UNCHANGED latest
<1> USE DEF queueVars
<1>1. ASSUME NEW p \in Producer, ProducerAdd(p) PROVE UNCHANGED latest
  BY <1>1 DEF ProducerAdd
<1>2. ASSUME NEW w \in Worker, WorkerStep(w)
      PROVE  Compact(w) \/ UNCHANGED latest
  BY <1>2
     DEF WorkerStep, Exit, ReadBackoff, Redefer, Snapshot, DropForce,
         ForgetMissing, HandleSucceeds, HandleFails, GiveUp, RecordFailure,
         ScheduleRetry, Succeed, ReadDeferredForce, AddDeferredForce, Done
<1>3. ASSUME NEW k \in Key, NEW w \in Worker, Get(w, k) PROVE UNCHANGED latest
  BY <1>3 DEF Get
<1>4. ASSUME NEW k \in Key, Timer(k) \/ BackoffElapses(k)
      PROVE  UNCHANGED latest
  BY <1>4 DEF Timer, BackoffElapses
<1>5. KnownKeys \/ Stop \/ UNCHANGED vars => UNCHANGED latest
  BY DEF KnownKeys, Stop, vars
<1> QED
  BY <1>1, <1>2, <1>3, <1>4, <1>5 DEF Next

-----------------------------------------------------------------------------
(* Refinement of the level-triggered queue.                                *)

AbstractNext == [Abstract!Next]_(Abstract!vars)

(* Each step is a step of the level-triggered queue, or one it cannot see. *)
LEMMA NextRefines == IInv /\ [Next]_vars => AbstractNext
<1> SUFFICES ASSUME IInv, [Next]_vars PROVE AbstractNext
  OBVIOUS
<1> USE NoKeyAssumption, NoEventAssumption, BoundsAssumption, InputEvents
    DEF TypeOK, PC, queueVars, workqueueVars, localVars, Goto, IInv, HoldInv,
        AbstractNext, Abstract!vars
<1>1. ASSUME NEW p \in Producer, NEW k \in Key, NEW e \in InputEvent,
             EnqueueDelete(p, k, e)
      PROVE  AbstractNext
  <2>1. Abstract!Submit(k, e)
    BY <1>1
       DEF EnqueueDelete, Accept, Holders, Abstract!Submit, Acting, ActedOn,
           Running, Current, IsDelete
  <2> QED
    BY <2>1 DEF Abstract!Next
<1>2. ASSUME NEW p \in Producer, NEW k \in Key, NEW e \in InputEvent,
             NEW f \in BOOLEAN,
             EnqueueAccepted(p, k, e, f), f => Forcing
      PROVE  AbstractNext
  <2>1. Abstract!Submit(k, e)
    BY <1>2
       DEF EnqueueAccepted, Accept, Holders, Abstract!Submit, Acting,
           ActedOn, Running, Current, IsDelete
  <2> QED
    BY <2>1 DEF Abstract!Next
<1>3. ASSUME NEW p \in Producer, NEW k \in Key, NEW e \in InputEvent,
             EnqueueOutrankedForced(p, k, e), Forcing
      PROVE  AbstractNext
  BY <1>3
     DEF EnqueueOutrankedForced, Older, Acting, ActedOn, Running, Current
<1>4. ASSUME NEW p \in Producer, ProducerAdd(p)
      PROVE  AbstractNext
  BY <1>4 DEF ProducerAdd, Add, Acting, ActedOn, Running, Current
<1>5. ASSUME KnownKeys
      PROVE  AbstractNext
  BY <1>5 DEF KnownKeys, Acting, ActedOn, Running, Current
<1>6. ASSUME NEW k \in Key, PruneIfNonDelete(k)
      PROVE  AbstractNext
  <2>1. Abstract!Withdraw(k)
    BY <1>6
       DEF PruneIfNonDelete, MatchesSnapshot, Holders, Abstract!Withdraw,
           Acting, ActedOn, Running, Current, IsDelete
  <2> QED
    BY <2>1 DEF Abstract!Next
<1>7. ASSUME NEW w \in Worker, NEW k \in Key, Get(w, k)
      PROVE  AbstractNext
  BY <1>7 DEF Get, Available, Acting, ActedOn, Running, Current
<1>8. ASSUME NEW w \in Worker, Exit(w)
      PROVE  AbstractNext
  BY <1>8 DEF Exit, Acting, ActedOn, Running, Current
<1>9. ASSUME NEW w \in Worker, ReadBackoff(w)
      PROVE  AbstractNext
  BY <1>9 DEF ReadBackoff, Acting, ActedOn, Running, Current
<1>10. ASSUME NEW w \in Worker, Redefer(w)
      PROVE  AbstractNext
  BY <1>10 DEF Redefer, AddAfter, Acting, ActedOn, Running, Current
<1>11. ASSUME NEW w \in Worker, Snapshot(w)
      PROVE  AbstractNext
  <2>1. CASE latest[key[w]] # NoEvent
    <3>1. key[w] \in Key /\ Acting(key[w]) = {}
      BY <1>11, <2>1 DEF Snapshot, Acting, Held, Serialized, Busy
    <3>2. Acting(key[w])' = {w}
      BY <1>11, <2>1, <3>1 DEF Snapshot, Acting
    <3>3. \A k \in Key \ {key[w]} : Acting(k)' = Acting(k)
      BY <1>11, <2>1 DEF Snapshot, Acting
    <3>4. \A k \in Key :
           Running'[k] = IF k = key[w] THEN {latest[key[w]]} ELSE Running[k]
      BY <1>11, <2>1, <3>1, <3>2, <3>3
         DEF Snapshot, Running, ActedOn, Acting
    <3>5. /\ Running = [k \in Key |-> Running[k]]
          /\ Running' = [k \in Key |-> Running'[k]]
      BY DEF Running
    <3>6. Running' = [Running EXCEPT ![key[w]] = {latest[key[w]]}]
      BY <3>1, <3>4, <3>5
    <3>7. Current' = Current \cup {key[w]}
      BY <1>11, <2>1, <3>1, <3>2, <3>3 DEF Snapshot, Current, Acting
    <3>8. Running[key[w]] = {}
      BY <1>11, <2>1, <3>1
         DEF Snapshot, Running, ActedOn, AttemptInv, AfterHandle, InFlight
    <3>10. Abstract!Start(key[w])
      BY <1>11, <2>1, <3>6, <3>7, <3>8 DEF Snapshot, Abstract!Start
    <3> QED
      BY <3>1, <3>10 DEF Abstract!Next
  <2>2. CASE latest[key[w]] = NoEvent
    BY <1>11, <2>2 DEF Snapshot, Acting, ActedOn, Running, Current
  <2> QED
    BY <2>1, <2>2
<1>12. ASSUME NEW w \in Worker, DropForce(w)
      PROVE  AbstractNext
  BY <1>12 DEF DropForce, Acting, ActedOn, Running, Current
<1>13. ASSUME NEW w \in Worker, ForgetMissing(w)
      PROVE  AbstractNext
  BY <1>13
     DEF ForgetMissing, ForgetBackoff, Acting, ActedOn, Running, Current
<1>14. ASSUME NEW w \in Worker, HandleSucceeds(w)
      PROVE  AbstractNext
  BY <1>14 DEF HandleSucceeds, Acting, ActedOn, Running, Current
<1>15. ASSUME NEW w \in Worker, NEW r \in BOOLEAN, NEW q \in BOOLEAN,
             HandleFails(w, r, q)
      PROVE  AbstractNext
  BY <1>15 DEF HandleFails, RetryAllowed, Acting, ActedOn, Running, Current
<1>16. ASSUME NEW w \in Worker, GiveUp(w)
      PROVE  AbstractNext
  <2>1. key[w] \in Key /\ Acting(key[w]) = {w}
    BY <1>16 DEF GiveUp, Acting, Held, Serialized, Busy
  <2>2. Acting(key[w])' = {}
    BY <1>16, <2>1 DEF GiveUp, Acting
  <2>3. \A k \in Key \ {key[w]} : Acting(k)' = Acting(k)
    BY <1>16 DEF GiveUp, Acting
  <2>4. \A k \in Key :
         Running'[k] = IF k = key[w] THEN {} ELSE Running[k]
    BY <1>16, <2>1, <2>2, <2>3 DEF GiveUp, Running, ActedOn, Acting
  <2>5. /\ Running = [k \in Key |-> Running[k]]
        /\ Running' = [k \in Key |-> Running'[k]]
    BY DEF Running
  <2>6. Running' = [Running EXCEPT ![key[w]] = {}]
    BY <2>1, <2>4, <2>5
  <2>7. Current' = Current \ {key[w]}
    BY <1>16, <2>1, <2>2, <2>3 DEF GiveUp, Current
  <2>8. Running[key[w]] # {}
    BY <1>16, <2>1
       DEF GiveUp, Running, ActedOn, AttemptInv, AfterHandle, InFlight
  <2>9. key[w] \in Current <=> w \in fresh
    BY <2>1 DEF Current
  <2>10. Abstract!Finish(key[w])
    BY <1>16, <2>6, <2>7, <2>8, <2>9 DEF GiveUp, Settle, Abstract!Finish
  <2> QED
    BY <2>1, <2>10 DEF Abstract!Next
<1>17. ASSUME NEW w \in Worker, RecordFailure(w)
      PROVE  AbstractNext
  <2>1. key[w] \in Key /\ Acting(key[w]) = {w}
    BY <1>17 DEF RecordFailure, Acting, Held, Serialized, Busy
  <2>2. Acting(key[w])' = {}
    BY <1>17, <2>1 DEF RecordFailure, Acting
  <2>3. \A k \in Key \ {key[w]} : Acting(k)' = Acting(k)
    BY <1>17 DEF RecordFailure, Acting
  <2>4. \A k \in Key :
         Running'[k] = IF k = key[w] THEN {} ELSE Running[k]
    BY <1>17, <2>1, <2>2, <2>3 DEF RecordFailure, Running, ActedOn, Acting
  <2>5. /\ Running = [k \in Key |-> Running[k]]
        /\ Running' = [k \in Key |-> Running'[k]]
    BY DEF Running
  <2>6. Running' = [Running EXCEPT ![key[w]] = {}]
    BY <2>1, <2>4, <2>5
  <2>7. Current' = Current \ {key[w]}
    BY <1>17, <2>1, <2>2, <2>3 DEF RecordFailure, Current
  <2>8. Running[key[w]] # {}
    BY <1>17, <2>1
       DEF RecordFailure, Running, ActedOn, AttemptInv, AfterHandle,
           InFlight
  <2>10. Abstract!Fail(key[w])
    BY <1>17, <2>6, <2>7, <2>8 DEF RecordFailure, Abstract!Fail
  <2> QED
    BY <2>1, <2>10 DEF Abstract!Next
<1>18. ASSUME NEW w \in Worker, ScheduleRetry(w)
      PROVE  AbstractNext
  BY <1>18 DEF ScheduleRetry, AddAfter, Acting, ActedOn, Running, Current
<1>19. ASSUME NEW w \in Worker, Succeed(w)
      PROVE  AbstractNext
  <2>1. key[w] \in Key /\ Acting(key[w]) = {w}
    BY <1>19 DEF Succeed, AfterSuccess, Acting, Held, Serialized, Busy
  <2>2. Acting(key[w])' = {}
    BY <1>19, <2>1 DEF Succeed, AfterSuccess, Acting
  <2>3. \A k \in Key \ {key[w]} : Acting(k)' = Acting(k)
    BY <1>19 DEF Succeed, AfterSuccess, Acting
  <2>4. \A k \in Key :
         Running'[k] = IF k = key[w] THEN {} ELSE Running[k]
    BY <1>19, <2>1, <2>2, <2>3 DEF Succeed, Running, ActedOn, Acting
  <2>5. /\ Running = [k \in Key |-> Running[k]]
        /\ Running' = [k \in Key |-> Running'[k]]
    BY DEF Running
  <2>6. Running' = [Running EXCEPT ![key[w]] = {}]
    BY <2>1, <2>4, <2>5
  <2>7. Current' = Current \ {key[w]}
    BY <1>19, <2>1, <2>2, <2>3 DEF Succeed, Current
  <2>8. Running[key[w]] # {}
    BY <1>19, <2>1
       DEF Succeed, Running, ActedOn, AttemptInv, AfterHandle, InFlight
  <2>9. key[w] \in Current <=> w \in fresh
    BY <2>1 DEF Current
  <2>10. Abstract!Finish(key[w])
    BY <1>19, <2>6, <2>7, <2>8, <2>9
       DEF Succeed, Settle, AfterSuccess, Abstract!Finish
  <2> QED
    BY <2>1, <2>10 DEF Abstract!Next
<1>20. ASSUME NEW w \in Worker, ReadDeferredForce(w)
      PROVE  AbstractNext
  BY <1>20
     DEF ReadDeferredForce, AfterSuccess, Acting, ActedOn, Running, Current
<1>21. ASSUME NEW w \in Worker, AddDeferredForce(w)
      PROVE  AbstractNext
  BY <1>21
     DEF AddDeferredForce, Add, AfterSuccess, Acting, ActedOn, Running,
         Current
<1>22. ASSUME NEW w \in Worker, Compact(w)
      PROVE  AbstractNext
  <2>1. CASE IsDelete(latest[key[w]]) /\ gen[key[w]] = evGen[w]
    <3>1. key[w] \in Key /\ ev[w].type = "Deleted"
      BY <1>22 DEF Compact, AttemptInv, AfterHandle, Held, Busy
    <3>2. key[w] \notin unhandled
      BY <1>22, <2>1, <3>1
         DEF Compact, AttemptInv, AfterHandle, DeleteSnapshot, InFlight
    <3>3. Abstract!ShedPayload(key[w])
      BY <1>22, <2>1, <3>1, <3>2
         DEF Compact, IsDelete, Abstract!ShedPayload, Acting, ActedOn,
             Running, Current
    <3> QED
      BY <3>1, <3>3 DEF Abstract!Next
  <2>2. CASE ~(IsDelete(latest[key[w]]) /\ gen[key[w]] = evGen[w])
    BY <1>22, <2>2 DEF Compact, Acting, ActedOn, Running, Current
  <2> QED
    BY <2>1, <2>2
<1>23. ASSUME NEW w \in Worker, Done(w)
      PROVE  AbstractNext
  BY <1>23 DEF Done, Acting, ActedOn, Running, Current
<1>24. ASSUME NEW k \in Key, Timer(k)
      PROVE  AbstractNext
  BY <1>24 DEF Timer, Add, Acting, ActedOn, Running, Current
<1>25. ASSUME NEW k \in Key, BackoffElapses(k)
      PROVE  AbstractNext
  BY <1>25 DEF BackoffElapses, Acting, ActedOn, Running, Current
<1>26. ASSUME Stop
      PROVE  AbstractNext
  BY <1>26 DEF Stop, Acting, ActedOn, Running, Current
<1>27. ASSUME UNCHANGED vars
      PROVE  AbstractNext
  BY <1>27 DEF vars, Acting, ActedOn, Running, Current
<1>28. ASSUME NEW p \in Producer, Enqueue(p)
      PROVE  AbstractNext
  BY <1>28, <1>1, <1>2, <1>3, InputEvents, Zenon DEF Enqueue
<1>29. ASSUME NEW w \in Worker, WorkerStep(w)
      PROVE  AbstractNext
  BY <1>29, <1>8, <1>9, <1>10, <1>11, <1>12, <1>13, <1>14, <1>15, <1>16,
     <1>17, <1>18, <1>19, <1>20, <1>21, <1>22, <1>23, Zenon
     DEF WorkerStep
<1> QED
  BY <1>28, <1>29, <1>4, <1>5, <1>6, <1>7, <1>24, <1>25, <1>26, <1>27, Zenon
     DEF Next

(* The reconcile queue implements the level-triggered queue: handlers      *)
(* never overlap on a resource, act on its newest payload, and an accepted *)
(* payload is owed until a Handle settles it.                              *)
THEOREM Refinement == Spec => ImplementsDesiredState
<1>1. Init => Abstract!Init
  BY DEF Init, Abstract!Init, Running, Current, ActedOn, Acting
<1>2. IInv /\ [Next]_vars => [Abstract!Next]_(Abstract!vars)
  BY NextRefines DEF AbstractNext
<1> QED
  BY <1>1, <1>2, Invariance, PTL
     DEF Spec, ImplementsDesiredState, Abstract!Spec

(* A delete stays a delete: the guard in enqueueWithForce, the one in      *)
(* pruneIfNonDelete and the compaction leave no way out of it.             *)
THEOREM DeleteTerminal == Spec => DeleteIsTerminal
<1> DEFINE Terminal ==
        \A k \in Key : IsDelete(latest[k]) => IsDelete(latest'[k])
<1>1. IInv /\ [Next]_vars => Terminal
  <2> SUFFICES ASSUME IInv, [Next]_vars PROVE Terminal
    OBVIOUS
  <2> USE NoEventAssumption, InputEvents
      DEF IInv, HoldInv, TypeOK, IsDelete
  <2>1. ASSUME NEW p \in Producer, Enqueue(p)
        PROVE  Terminal
    BY <2>1, InputEvents
       DEF Enqueue, EnqueueDelete, EnqueueAccepted, Accept,
           EnqueueOutrankedForced
  <2>2. ASSUME NEW k \in Key, PruneIfNonDelete(k)
        PROVE  Terminal
    BY <2>2 DEF PruneIfNonDelete, MatchesSnapshot
  <2>3. ASSUME NEW w \in Worker, Compact(w)
        PROVE  Terminal
    BY <2>3 DEF Compact, Tombstone
  <2>4. CASE UNCHANGED latest
    BY <2>4
  <2> QED
    BY <2>1, <2>2, <2>3, <2>4, OnlyTheseChangeLatest
<1>2. IInv /\ [Next]_vars => [Terminal]_vars
  BY <1>1
<1> QED
  BY <1>2, Invariance, PTL DEF Spec, DeleteIsTerminal

(* Compaction never costs a delete its payload before that payload's       *)
(* teardown has succeeded, even when replayed deletes carry equal          *)
(* versions.                                                               *)
THEOREM CompactionSafe == Spec => CompactsOnlyHandled
<1> DEFINE Safe ==
        \A k \in Key :
            /\ IsDelete(latest[k]) /\ latest[k].full
            /\ gen'[k] = gen[k]
            /\ latest'[k] # latest[k]
            => k \notin unhandled
<1>1. IInv /\ [Next]_vars => Safe
  <2> SUFFICES ASSUME IInv, [Next]_vars PROVE Safe
    OBVIOUS
  <2> USE NoEventAssumption, InputEvents, BoundsAssumption
      DEF IInv, HoldInv, TypeOK, IsDelete
  <2>1. ASSUME NEW p \in Producer, Enqueue(p)
        PROVE  Safe
    BY <2>1, InputEvents
       DEF Enqueue, EnqueueDelete, EnqueueAccepted, Accept,
           EnqueueOutrankedForced
  <2>2. ASSUME NEW k \in Key, PruneIfNonDelete(k)
        PROVE  Safe
    BY <2>2 DEF PruneIfNonDelete, MatchesSnapshot
  <2>3. ASSUME NEW w \in Worker, Compact(w)
        PROVE  Safe
    BY <2>3 DEF Compact, AttemptInv, AfterHandle, DeleteSnapshot, InFlight,
                Held, Busy
  <2>4. CASE UNCHANGED latest
    BY <2>4
  <2> QED
    BY <2>1, <2>2, <2>3, <2>4, OnlyTheseChangeLatest
<1>2. IInv /\ [Next]_vars => [Safe]_vars
  BY <1>1
<1> QED
  BY <1>2, Invariance, PTL DEF Spec, CompactsOnlyHandled
=============================================================================
