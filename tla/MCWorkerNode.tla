---------------------------- MODULE MCWorkerNode ----------------------------
(***************************************************************************)
(* Model checking of WorkerNode: one request more than the capacity, and   *)
(* two job ids, so that requests compete for slots and share an id.        *)
(* Requests are alike until they arrive, so they are numbered in the order *)
(* in which they do.                                                       *)
(***************************************************************************)
EXTENDS WorkerNode

InOrder == \A q, r \in Requests : q < r /\ hpc[q] = "new" => hpc'[r] = "new"

OrderedSpec == Init /\ [][Next /\ InOrder]_vars /\ Fairness
=============================================================================
