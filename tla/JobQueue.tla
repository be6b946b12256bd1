------------------------------ MODULE JobQueue ------------------------------
(***************************************************************************)
(* The persistent master: the bounded FIFO job queue                       *)
(* (internal/distributed/queue.go), the background processor that drains   *)
(* it, one goroutine per started job (StartBackground in master.go), the   *)
(* HTTP handlers that submit and cancel jobs, and the main function that   *)
(* turns SIGTERM into a stop (cmd/loadgen-master/main.go).                 *)
(*                                                                         *)
(* Everything the queue does under its mutex is one action.  A job is      *)
(* identified by the identifier Enqueue reads from the clock: identifiers  *)
(* increase and Jobs is the supply of them.                                *)
(***************************************************************************)
EXTENDS Naturals, Sequences, FiniteSets

CONSTANTS Jobs,          \* identifiers Enqueue may hand out
          MaxJobs,       \* NewJobQueue's bound (100 in NewMaster)
          MaxConcurrent  \* NewMaster's maxConcurrent

ASSUME JobsAssumption == Jobs \subseteq Nat
ASSUME MaxJobsAssumption == MaxJobs \in Nat \ {0}
ASSUME MaxConcurrentAssumption == MaxConcurrent \in Nat \ {0}

VARIABLES
    status,     \* q.jobs[id].Status, "absent" for an id not in q.jobs
    order,      \* q.order
    startedAt,  \* ids whose StartedAt is set
    cancelFn,   \* ids whose Cancel function is attached
    jobCtx,     \* ids whose own context has been cancelled
    notEmpty,   \* tokens in the one-place channel q.notEmpty
    sem,        \* length of the semaphore channel of StartBackground
    dpc,        \* where the background processor is
    gpc,        \* where the goroutine of each job is
    mpc         \* where main is: it waits for a signal, stops, exits

queueVars == <<status, order, startedAt, cancelFn, notEmpty>>
vars == <<queueVars, jobCtx, sem, dpc, gpc, mpc>>

\* The signal context of main is done; stopCh is closed.
ctxDone == mpc # "serving"
stopped == mpc \in {"stopped", "exited"}

Terminal == {"completed", "failed", "cancelled"}
JobStatus == {"absent", "pending", "running"} \cup Terminal

\* Does the background processor hold a slot for which no goroutine runs yet?
Holding == dpc \in {"dequeue", "wait"}

\* The jobs whose goroutine has been started and has not yet given its slot back.
Live == {j \in Jobs : gpc[j] \in {"run", "complete", "fail", "release"}}

\* len(q.jobs): entries are never deleted, so it is the length of q.order.
Full == Len(order) >= MaxJobs

Init ==
    /\ status = [j \in Jobs |-> "absent"]
    /\ order = << >>
    /\ startedAt = {}
    /\ cancelFn = {}
    /\ jobCtx = {}
    /\ notEmpty = 0
    /\ sem = 0
    /\ dpc = "poll"
    /\ gpc = [j \in Jobs |-> "none"]
    /\ mpc = "serving"

-----------------------------------------------------------------------------
(* The HTTP API.  handleJobs and handleJobByID call these under no lock of *)
(* the master; a refused submission (Full) or cancellation changes nothing. *)

\* The identifier is "job-" and the clock in nanoseconds: later than all before.
FreshId(j) ==
    /\ status[j] = "absent"
    /\ \A k \in Jobs : status[k] = "absent" => j <= k

\* Mutant: no token for the job.
EnqueueSilently(j) ==
    /\ FreshId(j) /\ ~Full
    /\ status' = [status EXCEPT ![j] = "pending"]
    /\ order' = Append(order, j)
    /\ UNCHANGED <<startedAt, cancelFn, jobCtx, notEmpty, sem, dpc, gpc, mpc>>

Enqueue(j) ==
    /\ FreshId(j)
    /\ ~Full
    /\ status' = [status EXCEPT ![j] = "pending"]
    /\ order' = Append(order, j)
    /\ notEmpty' = 1
    /\ UNCHANGED <<startedAt, cancelFn, jobCtx, sem, dpc, gpc, mpc>>

Cancel(j) ==
    /\ status[j] \in {"pending", "running"}
    /\ status' = [status EXCEPT ![j] = "cancelled"]
    /\ jobCtx' = IF j \in cancelFn THEN jobCtx \cup {j} ELSE jobCtx
    /\ UNCHANGED <<order, startedAt, cancelFn, notEmpty, sem, dpc, gpc, mpc>>

-----------------------------------------------------------------------------
(* The background processor.                                               *)

\* First select: leave when told to, otherwise go on to the semaphore.
Poll ==
    /\ dpc = "poll"
    /\ dpc' = IF ctxDone \/ stopped THEN "exited" ELSE "acquire"
    /\ UNCHANGED <<queueVars, jobCtx, sem, gpc, mpc>>

\* Second select: when several cases are ready Go picks any of them.
AcquireSlot ==
    /\ dpc = "acquire"
    /\ sem < MaxConcurrent
    /\ sem' = sem + 1
    /\ dpc' = "dequeue"
    /\ UNCHANGED <<queueVars, jobCtx, gpc, mpc>>

AcquireAborted ==
    /\ dpc = "acquire"
    /\ ctxDone \/ stopped
    /\ dpc' = "exited"
    /\ UNCHANGED <<queueVars, jobCtx, sem, gpc, mpc>>

\* Mutant: the scan takes any pending job, as one over the map would.
AnyPending(i) == i \in 1..Len(order) /\ status[order[i]] = "pending"

\* The position of the job the scan of q.order stops at.
FirstPending(i) ==
    /\ i \in 1..Len(order)
    /\ status[order[i]] = "pending"
    /\ \A k \in 1..(i - 1) : status[order[k]] # "pending"

\* Mutant: the cancel function is not attached with the status.
DequeueWithoutCancel(i) ==
    /\ dpc = "dequeue" /\ FirstPending(i)
    /\ status' = [status EXCEPT ![order[i]] = "running"]
    /\ startedAt' = startedAt \cup {order[i]}
    /\ gpc' = [gpc EXCEPT ![order[i]] = "run"]
    /\ dpc' = "poll"
    /\ UNCHANGED <<order, cancelFn, jobCtx, notEmpty, sem, mpc>>

\* Dequeue finds a pending job: it is marked and given its cancel function
\* under the lock, and the processor starts its goroutine and loops.
DequeueJob(i) ==
    /\ dpc = "dequeue"
    /\ FirstPending(i)
    /\ status' = [status EXCEPT ![order[i]] = "running"]
    /\ startedAt' = startedAt \cup {order[i]}
    /\ cancelFn' = cancelFn \cup {order[i]}
    /\ gpc' = [gpc EXCEPT ![order[i]] = "run"]
    /\ dpc' = "poll"
    /\ UNCHANGED <<order, jobCtx, notEmpty, sem, mpc>>

\* Dequeue finds none and, having released the lock, blocks in its select.
DequeueNone ==
    /\ dpc = "dequeue"
    /\ \A i \in 1..Len(order) : status[order[i]] # "pending"
    /\ dpc' = "wait"
    /\ UNCHANGED <<queueVars, jobCtx, sem, gpc, mpc>>

DequeueWoken ==
    /\ dpc = "wait"
    /\ notEmpty = 1
    /\ notEmpty' = 0
    /\ dpc' = "dequeue"
    /\ UNCHANGED <<status, order, startedAt, cancelFn, jobCtx, sem, gpc, mpc>>

\* Mutant: the slot is not given back.
AbortedWithSlot ==
    /\ dpc = "wait" /\ ctxDone
    /\ dpc' = "exited"
    /\ UNCHANGED <<queueVars, jobCtx, sem, gpc, mpc>>

\* Dequeue returns ctx.Err(): the processor gives its slot back and returns.
\* Only the context ends this wait; stopCh is not watched here.
DequeueAborted ==
    /\ dpc = "wait"
    /\ ctxDone
    /\ sem' = sem - 1
    /\ dpc' = "exited"
    /\ UNCHANGED <<queueVars, jobCtx, gpc, mpc>>

-----------------------------------------------------------------------------
(* The goroutine of a started job.                                         *)

\* m.Run returns an error, or a merged state (also when workers failed).
RunReturns(j) ==
    /\ gpc[j] = "run"
    /\ \E outcome \in {"complete", "fail"} : gpc' = [gpc EXCEPT ![j] = outcome]
    /\ UNCHANGED <<queueVars, jobCtx, sem, dpc, mpc>>

\* Mutants: the result replaces a cancellation; a cancelled job is never let go.
ResultOverCancel(j, result) ==
    /\ status' = [status EXCEPT ![j] = result]
    /\ gpc' = [gpc EXCEPT ![j] = "release"]
    /\ UNCHANGED <<order, startedAt, cancelFn, jobCtx, notEmpty, sem, dpc, mpc>>
ResultUnlessCancelled(j, result) == status[j] # "cancelled" /\ ResultOverCancel(j, result)

\* Complete and Fail leave a cancelled job as it is.
SetResult(j, result) ==
    /\ status' = IF status[j] = "cancelled" THEN status
                 ELSE [status EXCEPT ![j] = result]
    /\ gpc' = [gpc EXCEPT ![j] = "release"]
    /\ UNCHANGED <<order, startedAt, cancelFn, jobCtx, notEmpty, sem, dpc, mpc>>

\* Mutant: a status the API does not know.
CompleteMisnamed(j) == gpc[j] = "complete" /\ SetResult(j, "complete")

Complete(j) == gpc[j] = "complete" /\ SetResult(j, "completed")

\* Mutant: a failed run is not recorded.
FailIgnored(j) ==
    /\ gpc[j] = "fail"
    /\ gpc' = [gpc EXCEPT ![j] = "release"]
    /\ UNCHANGED <<queueVars, jobCtx, sem, dpc, mpc>>

Fail(j) == gpc[j] = "fail" /\ SetResult(j, "failed")

\* Mutant: the deferred function only cancels.
ReleaseForgotten(j) ==
    /\ gpc[j] = "release"
    /\ jobCtx' = jobCtx \cup {j}
    /\ gpc' = [gpc EXCEPT ![j] = "done"]
    /\ UNCHANGED <<queueVars, sem, dpc, mpc>>

\* The deferred calls: cancel the job's context, free the slot.
ReleaseSlot(j) ==
    /\ gpc[j] = "release"
    /\ jobCtx' = jobCtx \cup {j}
    /\ sem' = sem - 1
    /\ gpc' = [gpc EXCEPT ![j] = "done"]
    /\ UNCHANGED <<queueVars, dpc, mpc>>

-----------------------------------------------------------------------------
(* main: wait for the signal, close stopCh, return.                        *)

MainStep(from, to) ==
    /\ mpc = from
    /\ mpc' = to
    /\ UNCHANGED <<queueVars, jobCtx, sem, dpc, gpc>>

Signal == MainStep("serving", "signalled")

Stop == MainStep("signalled", "stopped")

Exit == MainStep("stopped", "exited")

-----------------------------------------------------------------------------
API == \E j \in Jobs : Enqueue(j) \/ Cancel(j)

Processor ==
    \/ Poll \/ AcquireSlot \/ AcquireAborted
    \/ \E i \in 1..Len(order) : DequeueJob(i)
    \/ DequeueNone \/ DequeueWoken \/ DequeueAborted

JobGoroutine(j) == RunReturns(j) \/ Complete(j) \/ Fail(j) \/ ReleaseSlot(j)

Main == Signal \/ Stop \/ Exit

\* Once main has returned, every goroutine is gone and nothing moves.
Next ==
    /\ mpc # "exited"
    /\ API \/ Processor \/ (\E j \in Jobs : JobGoroutine(j)) \/ Main

Spec == Init /\ [][Next]_vars

\* The Go scheduler runs every goroutine that can run; m.Run returns because
\* the HTTP client has a timeout and dispatch tries three times.
Fairness ==
    /\ WF_vars(mpc # "exited" /\ Processor)
    /\ \A j \in Jobs : WF_vars(mpc # "exited" /\ JobGoroutine(j))

FairSpec == Spec /\ Fairness

-----------------------------------------------------------------------------
(* Properties.                                                             *)

TypeOK ==
    /\ status \in [Jobs -> JobStatus]
    /\ order \in Seq(Jobs)
    /\ startedAt \subseteq Jobs
    /\ cancelFn \subseteq Jobs
    /\ jobCtx \subseteq Jobs
    /\ notEmpty \in 0..1
    /\ sem \in Nat
    /\ dpc \in {"poll", "acquire", "dequeue", "wait", "exited"}
    /\ gpc \in [Jobs -> {"none", "run", "complete", "fail", "release", "done"}]
    /\ mpc \in {"serving", "signalled", "stopped", "exited"}

\* The semaphore of StartBackground counts exactly the goroutines that still
\* run plus the slot the processor took before it had a job, on every path
\* through Dequeue, Complete, Fail, Cancel and the aborts; so at most
\* MaxConcurrent jobs execute at a time and no slot leaks.
SlotAccounting ==
    /\ sem = Cardinality(Live) + (IF Holding THEN 1 ELSE 0)
    /\ sem <= MaxConcurrent

\* A job shown as running has a goroutine that will still record its result,
\* so no status stays "running" after the slot was given back, whatever the
\* order of Cancel, Complete and Fail.
RunningOwned ==
    \A j \in Jobs : status[j] = "running" => gpc[j] \in {"run", "complete", "fail"}

\* Jobs start in the order they were accepted: once a job has a StartedAt,
\* no job accepted before it is still pending (cancelled ones are skipped).
FIFOStart ==
    \A i, k \in 1..Len(order) :
        i < k /\ order[k] \in startedAt => status[order[i]] # "pending"

\* Cancelling a job that has started always reaches the context its m.Run
\* uses: Dequeue attaches the cancel function in the same critical section
\* that marks the job running.
CancelReachesRun ==
    \A j \in Jobs : status[j] = "cancelled" /\ j \in startedAt => j \in jobCtx

\* The one-place notEmpty channel loses no wake-up: the processor never
\* blocks in Dequeue while a job is pending and no token is in the channel,
\* although tokens are dropped and outlive the job they announced.
NoLostWakeup ==
    dpc = "wait" /\ notEmpty = 0 => \A j \in Jobs : status[j] # "pending"

\* What the invariants above rest on: q.order lists each accepted job once,
\* a started job has its cancel function, and the status of a job agrees with
\* where its goroutine is.
OrderAgrees ==
    /\ \A i \in 1..Len(order) : status[order[i]] # "absent"
    /\ \A j \in Jobs : status[j] # "absent" => \E i \in 1..Len(order) : order[i] = j
    /\ \A i, k \in 1..Len(order) : order[i] = order[k] => i = k

StatusAgrees ==
    /\ startedAt \subseteq cancelFn
    /\ \A j \in startedAt : status[j] \notin {"absent", "pending"}
    /\ \A j \in Jobs : status[j] \in {"absent", "pending"} => gpc[j] = "none"
    /\ \A j \in Jobs : gpc[j] \in {"run", "complete", "fail"} => status[j] \in {"running", "cancelled"}

\* The inductive invariant: every safety invariant above follows from it, and
\* none of them is inductive alone.  A step of the background processor keeps
\* FIFOStart only because q.order has no duplicates, keeps SlotAccounting only
\* because a pending job has no goroutine, and so on.
IInv ==
    /\ TypeOK
    /\ IsFiniteSet(Live) /\ SlotAccounting
    /\ RunningOwned
    /\ FIFOStart
    /\ CancelReachesRun
    /\ NoLostWakeup
    /\ OrderAgrees
    /\ StatusAgrees

\* The statuses the API reports follow the life cycle of JobLifecycle: one
\* acceptance, at most MaxConcurrent running at a time, final statuses final.
Lifecycle == INSTANCE JobLifecycle
LifecycleSpec == Lifecycle!Spec

\* Every accepted job leaves "pending" unless the master is told to stop:
\* slots come back and wake-ups are not lost.
PendingServed == \A j \in Jobs : status[j] = "pending" ~> (status[j] # "pending" \/ ctxDone)

\* Cancelling a job frees the slot it was using, unless the master stops first.
CancelledFreesSlot == \A j \in Jobs : status[j] = "cancelled" ~> (j \notin Live \/ ctxDone)

\* queue.go:10 calls a queuedJob "a job waiting in or being processed by the
\* master" and Enqueue fails only "if the queue is full": a submission should
\* be refused only while MaxJobs jobs wait or run.  The code counts every job
\* it ever accepted.
RefusedOnlyWhenOccupied ==
    Full => Cardinality({j \in Jobs : status[j] \in {"pending", "running"}}) >= MaxJobs
=============================================================================
