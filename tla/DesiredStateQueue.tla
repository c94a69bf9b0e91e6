-------------------------- MODULE DesiredStateQueue --------------------------
(***************************************************************************)
(* What the reconcile queue promises its producers and its handler,        *)
(* without mutex, workqueue, retries or backoff: a level-triggered queue.  *)
(*                                                                         *)
(* Each key has at most one wanted state.  At most one handler acts on a   *)
(* key at a time, always on the state wanted when it started.  A key is    *)
(* owed until a handler has finished with the state that is still wanted;  *)
(* failing, or finishing with a superseded state, leaves it owed.  A       *)
(* wanted delete stays a delete, and sheds its payload only when nothing   *)
(* is owed.                                                                *)
(***************************************************************************)

CONSTANTS
    Key,        \* resource ids
    Event,      \* wanted states
    Delete,     \* those that ask for removal
    NoEvent,    \* nothing wanted
    Tombstone   \* a delete without payload

VARIABLES
    want,       \* the state wanted of each key
    owed,       \* keys whose wanted state still has to be brought about
    running,    \* the states a handler is acting on, per key (at most one)
    current     \* keys whose handler acts on the state still wanted

vars == <<want, owed, running, current>>

Init ==
    /\ want = [k \in Key |-> NoEvent]
    /\ owed = {}
    /\ running = [k \in Key |-> {}]
    /\ current = {}

(* A new wanted state supersedes the old one, unless that is a delete.     *)
Submit(k, e) ==
    /\ want[k] \in Delete => e \in Delete
    /\ want' = [want EXCEPT ![k] = e]
    /\ owed' = owed \cup {k}
    /\ current' = current \ {k}
    /\ UNCHANGED running

(* The resource turned out not to exist and no delete asks for teardown.   *)
Withdraw(k) ==
    /\ want[k] # NoEvent
    /\ want[k] \notin Delete
    /\ want' = [want EXCEPT ![k] = NoEvent]
    /\ owed' = owed \ {k}
    /\ current' = current \ {k}
    /\ UNCHANGED running

Start(k) ==
    /\ want[k] # NoEvent
    /\ running[k] = {}
    /\ running' = [running EXCEPT ![k] = {want[k]}]
    /\ current' = current \cup {k}
    /\ UNCHANGED <<want, owed>>

(* The handler succeeded, or its error was final.                          *)
Finish(k) ==
    /\ running[k] # {}
    /\ running' = [running EXCEPT ![k] = {}]
    /\ current' = current \ {k}
    /\ owed' = IF k \in current THEN owed \ {k} ELSE owed
    /\ UNCHANGED want

Fail(k) ==
    /\ running[k] # {}
    /\ running' = [running EXCEPT ![k] = {}]
    /\ current' = current \ {k}
    /\ UNCHANGED <<want, owed>>

ShedPayload(k) ==
    /\ want[k] \in Delete
    /\ k \notin owed
    /\ want' = [want EXCEPT ![k] = Tombstone]
    /\ UNCHANGED <<owed, running, current>>

Next ==
    \E k \in Key :
        \/ \E e \in Event : Submit(k, e)
        \/ Withdraw(k)
        \/ Start(k)
        \/ Finish(k)
        \/ Fail(k)
        \/ ShedPayload(k)

Spec == Init /\ [][Next]_vars
=============================================================================
