---------------------------- MODULE JobLifecycle ----------------------------
(***************************************************************************)
(* What the persistent master promises of a job to the clients of its API: *)
(* a job is accepted once, runs in one of MaxConcurrent slots, and ends in *)
(* one of three final statuses that never change afterwards                *)
(* (JobStatus in internal/distributed/types.go).                           *)
(***************************************************************************)
EXTENDS Naturals, FiniteSets

CONSTANTS Jobs, MaxConcurrent

VARIABLE status

JobsIn(s) == {j \in Jobs : status[j] = s}

Move(j, from, to) == status[j] = from /\ status' = [status EXCEPT ![j] = to]

Init == status = [j \in Jobs |-> "absent"]

Submit(j) == Move(j, "absent", "pending")

Start(j) ==
    /\ Cardinality(JobsIn("running")) < MaxConcurrent
    /\ Move(j, "pending", "running")

Finish(j) == \E s \in {"completed", "failed"} : Move(j, "running", s)

Cancel(j) == \E s \in {"pending", "running"} : Move(j, s, "cancelled")

Next == \E j \in Jobs : Submit(j) \/ Start(j) \/ Finish(j) \/ Cancel(j)

Spec == Init /\ [][Next]_status
=============================================================================
