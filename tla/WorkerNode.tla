----------------------------- MODULE WorkerNode -----------------------------
(***************************************************************************)
(* A worker process (internal/distributed/worker.go): concurrent /run      *)
(* handlers that share the jobs map and the capacity, /cancel handlers,    *)
(* and the shutdown that SIGTERM starts (cmd/loadgen-worker/main.go).      *)
(*                                                                         *)
(* A request is one POST /run.  It names a job; nothing stops two requests *)
(* from naming the same one, and the master does so when it retries.       *)
(***************************************************************************)
EXTENDS Naturals, FiniteSets

CONSTANTS Requests,  \* the POST /run requests that may arrive, in any order
          JobIDs,    \* the job identifiers they may carry
          Capacity,  \* NewWorker's capacity
          NoHandle   \* absence of a map entry

\* NewWorker turns a capacity of 0 or less into 1.
ASSUME CapacityAssumption == Capacity \in Nat \ {0}
ASSUME NoHandleAssumption == NoHandle \notin Requests /\ NoHandle \notin JobIDs

VARIABLES
    hpc,        \* where each /run handler is
    job,        \* the job each request names, once it has been decoded
    jobs,       \* w.jobs: the handle (the request) stored for each job
    capacity,   \* w.capacity: 0 once shut down
    lastJobID,  \* w.lastJobID, NoHandle before the first job ends
    done,       \* requests whose jobCtx is done
    targets,    \* handles a /cancel handler looked up and is about to cancel
    spc,        \* Shutdown: "up", "cancelling", "returned"
    shutting    \* handles Shutdown collected and has not cancelled yet

vars == <<hpc, job, jobs, capacity, lastJobID, done, targets, spc, shutting>>

\* The handlers between their admission and their removal from the map.
Live == {r \in Requests : hpc[r] \in {"build", "run", "finish"}}

Entries == {id \in JobIDs : jobs[id] # NoHandle}

Init ==
    /\ hpc = [r \in Requests |-> "new"]
    /\ job = [r \in Requests |-> NoHandle]
    /\ jobs = [id \in JobIDs |-> NoHandle]
    /\ capacity = Capacity
    /\ lastJobID = NoHandle
    /\ done = {}
    /\ targets = {}
    /\ spc = "up"
    /\ shutting = {}

-----------------------------------------------------------------------------
(* handleRun.                                                              *)

\* A request that does not decode, validate or authenticate: 4xx, no change.
RejectRequest(r) ==
    /\ hpc[r] = "new"
    /\ hpc' = [hpc EXCEPT ![r] = "answered"]
    /\ UNCHANGED <<job, jobs, capacity, lastJobID, done, targets, spc, shutting>>

\* The capacity check fails: 409.
RefuseBusy(r) ==
    /\ Cardinality(Entries) >= capacity
    /\ RejectRequest(r)

\* The check passes: the handle is stored under the job's id, replacing any
\* handle that is already there, in the same critical section.
Admit(r, id) ==
    /\ hpc[r] = "new"
    /\ Cardinality(Entries) < capacity
    /\ hpc' = [hpc EXCEPT ![r] = "build"]
    /\ job' = [job EXCEPT ![r] = id]
    /\ jobs' = [jobs EXCEPT ![id] = r]
    /\ UNCHANGED <<capacity, lastJobID, done, targets, spc, shutting>>

\* Mutant: the entry stays.
BuildFailsListed(r) ==
    /\ hpc[r] = "build"
    /\ hpc' = [hpc EXCEPT ![r] = "answered"]
    /\ UNCHANGED <<job, jobs, capacity, lastJobID, done, targets, spc, shutting>>

\* BuildRunner fails: the entry is removed, 400; lastJobID stays.
BuildFails(r) ==
    /\ hpc[r] = "build"
    /\ hpc' = [hpc EXCEPT ![r] = "answered"]
    /\ jobs' = [jobs EXCEPT ![job[r]] = NoHandle]
    /\ UNCHANGED <<job, capacity, lastJobID, done, targets, spc, shutting>>

BuildSucceeds(r) ==
    /\ hpc[r] = "build"
    /\ hpc' = [hpc EXCEPT ![r] = "run"]
    /\ UNCHANGED <<job, jobs, capacity, lastJobID, done, targets, spc, shutting>>

\* Mutant: the engine runs under a context of its own.
EngineUncancelled(r) ==
    /\ hpc[r] = "run" /\ r \notin done
    /\ hpc' = [hpc EXCEPT ![r] = "finish"]
    /\ UNCHANGED <<job, jobs, capacity, lastJobID, done, targets, spc, shutting>>

\* RunDetailed returns: at its count or deadline, or because jobCtx is done.
EngineReturns(r) ==
    /\ hpc[r] = "run"
    /\ hpc' = [hpc EXCEPT ![r] = "finish"]
    /\ UNCHANGED <<job, jobs, capacity, lastJobID, done, targets, spc, shutting>>

\* The entry of the job's id is removed, whoever stored it, and the result
\* is written.
Finish(r) ==
    /\ hpc[r] = "finish"
    /\ hpc' = [hpc EXCEPT ![r] = "answered"]
    /\ jobs' = [jobs EXCEPT ![job[r]] = NoHandle]
    /\ lastJobID' = job[r]
    /\ UNCHANGED <<job, capacity, done, targets, spc, shutting>>

\* The client is gone (its timeout, its cancelled context, a broken
\* connection): the HTTP server cancels req.Context(), the parent of jobCtx.
ClientGone(r) ==
    /\ r \in Live \ done
    /\ done' = done \cup {r}
    /\ UNCHANGED <<hpc, job, jobs, capacity, lastJobID, targets, spc, shutting>>

-----------------------------------------------------------------------------
(* handleCancel: the handle is looked up under the lock and cancelled after *)
(* it; an unknown id is answered with 404 and changes nothing.             *)

\* Mutant: the handler also removes the entry.
CancelRemoves(id) ==
    /\ id \in Entries
    /\ targets' = targets \cup {jobs[id]}
    /\ jobs' = [jobs EXCEPT ![id] = NoHandle]
    /\ UNCHANGED <<hpc, job, capacity, lastJobID, done, spc, shutting>>

CancelLookup(id) ==
    /\ id \in Entries
    /\ jobs[id] \notin targets
    /\ targets' = targets \cup {jobs[id]}
    /\ UNCHANGED <<hpc, job, jobs, capacity, lastJobID, done, spc, shutting>>

CancelFire(r) ==
    /\ r \in targets
    /\ targets' = targets \ {r}
    /\ done' = done \cup {r}
    /\ UNCHANGED <<hpc, job, jobs, capacity, lastJobID, spc, shutting>>

-----------------------------------------------------------------------------
(* Shutdown.                                                               *)

\* Mutant: new jobs are still accepted.
ShutdownStillOpen ==
    /\ spc = "up"
    /\ capacity' = capacity
    /\ shutting' = {jobs[id] : id \in Entries}
    /\ spc' = "cancelling"
    /\ UNCHANGED <<hpc, job, jobs, lastJobID, done, targets>>

ShutdownBegin ==
    /\ spc = "up"
    /\ capacity' = 0
    /\ shutting' = {jobs[id] : id \in Entries}
    /\ spc' = "cancelling"
    /\ UNCHANGED <<hpc, job, jobs, lastJobID, done, targets>>

ShutdownCancel(r) ==
    /\ r \in shutting
    /\ shutting' = shutting \ {r}
    /\ done' = done \cup {r}
    /\ UNCHANGED <<hpc, job, jobs, capacity, lastJobID, targets, spc>>

\* It returns when the last cancel function was called, without waiting.
ShutdownReturn ==
    /\ spc = "cancelling" /\ shutting = {}
    /\ spc' = "returned"
    /\ UNCHANGED <<hpc, job, jobs, capacity, lastJobID, done, targets, shutting>>

-----------------------------------------------------------------------------
Arrive(r) ==
    RejectRequest(r) \/ RefuseBusy(r) \/ \E id \in JobIDs : Admit(r, id)

Handler(r) == BuildFails(r) \/ BuildSucceeds(r) \/ EngineReturns(r) \/ Finish(r)

Shutdown == ShutdownBegin \/ (\E r \in Requests : ShutdownCancel(r)) \/ ShutdownReturn

Next ==
    \/ \E r \in Requests : Arrive(r) \/ Handler(r) \/ ClientGone(r) \/ CancelFire(r)
    \/ \E id \in JobIDs : CancelLookup(id)
    \/ Shutdown

Spec == Init /\ [][Next]_vars

\* Goroutines that can run do run.  An engine whose context is done returns;
\* nothing says when one with a live context does, so that is not assumed.
Fairness ==
    /\ \A r \in Requests :
        /\ WF_vars(BuildFails(r) \/ BuildSucceeds(r))
        /\ WF_vars(r \in done /\ EngineReturns(r))
        /\ WF_vars(Finish(r))
        /\ WF_vars(CancelFire(r))
        /\ WF_vars(ShutdownCancel(r))
    /\ WF_vars(ShutdownReturn)

FairSpec == Spec /\ Fairness

-----------------------------------------------------------------------------
(* Properties.                                                             *)

TypeOK ==
    /\ hpc \in [Requests -> {"new", "build", "run", "finish", "answered"}]
    /\ job \in [Requests -> JobIDs \cup {NoHandle}]
    /\ jobs \in [JobIDs -> Requests \cup {NoHandle}]
    /\ capacity \in {0, Capacity}
    /\ lastJobID \in JobIDs \cup {NoHandle}
    /\ done \subseteq Requests /\ targets \subseteq Requests /\ shutting \subseteq Requests
    /\ spc \in {"up", "cancelling", "returned"}

\* No other request that was ever admitted names the same job.
OnlyOneFor(r) == \A q \in Requests \ {r} : job[q] # job[r]

\* No slot leaks: every entry of the jobs map belongs to a handler that is
\* still at work on that job and will remove it, on every path out of
\* handleRun and also when requests share a job id.
EntriesOwned ==
    /\ Cardinality(Entries) <= Capacity
    /\ \A id \in Entries : jobs[id] \in Live /\ job[jobs[id]] = id

\* A handler at work is listed, so that it counts against the capacity and
\* can be cancelled, as long as no other request has used its job id.
ListedWhenUnique == \A r \in Live : OnlyOneFor(r) => jobs[job[r]] = r

\* Shutdown misses nobody: when it returns, every run with an id of its own
\* has had its context cancelled, although handlers keep arriving and ending
\* between its critical section and its calls of cancel.
ShutdownReachesAll ==
    spc = "returned" => \A r \in Live : OnlyOneFor(r) => r \in done

\* After a cancellation, or after the client left, the run does end and its
\* slot becomes free.
CancelledEnds == \A r \in Requests : r \in done ~> r \notin Live

\* docs/cli-reference.md:71 gives --capacity as "Max concurrent jobs": no
\* more runs than that execute at a time.  The code counts map entries, and a
\* second request for the same job replaces, and a first that ends removes,
\* the entry of the other.
CapacityRespected == Cardinality(Live) <= Capacity
=============================================================================
