-------------------------- MODULE MCReconcileQueue --------------------------
(* TLC instances of ReconcileQueue.                                        *)
EXTENDS ReconcileQueue, TLC

(* withMaxRetries not given.                                               *)
Unlimited == -1

(* Workers, producers and keys are interchangeable: no code path tells two *)
(* of them apart.                                                          *)
Interchangeable ==
    Permutations(Worker) \cup Permutations(Producer) \cup Permutations(Key)
=============================================================================
