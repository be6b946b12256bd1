--------------------------- MODULE DistributedRun ---------------------------
(***************************************************************************)
(* One distributed load test: Master.Run, CheckWorkers and dispatch        *)
(* (internal/distributed/master.go) against workers that behave as in      *)
(* WorkerNode, over HTTP connections that may fail before the request      *)
(* arrives, deliver it after the client has left, time out while the       *)
(* worker is running, or lose the response.                                *)
(*                                                                         *)
(* All attempts of a dispatch carry the job id of the run, so one entry of *)
(* the worker's jobs map stands for all of them.                           *)
(***************************************************************************)
EXTENDS Naturals, FiniteSets

CONSTANTS N,            \* number of worker addresses
          JobRequests,  \* cfg.Requests of the job, 0 for none
          JobDuration,  \* cfg.Duration of the job, 0 for none
          MaxAttempts,  \* tries of one dispatch: 3 in the code
          Capacity,     \* of every worker
          Unreliable    \* bound: the workers whose engine and connections may fail

ASSUME NAssumption == N \in Nat \ {0}
ASSUME JobAssumption ==
    JobRequests \in Nat /\ JobDuration \in Nat /\ JobRequests + JobDuration > 0
ASSUME MaxAttemptsAssumption == MaxAttempts \in Nat \ {0}
ASSUME CapacityAssumption == Capacity \in Nat \ {0}
ASSUME UnreliableAssumption == Unreliable \subseteq 1..N

Workers == 1..N
Attempts == 1..MaxAttempts

VARIABLES
    ctx,       \* the context of Run: "live" or "done"
    mpc,       \* Run: "check", "dispatch", "returned", "failed"
    checked,   \* workers CheckWorkers found healthy so far
    gpc,       \* the goroutine of each worker address
    attempt,   \* its current attempt
    outcome,   \* what dispatch returned: "none", "ok", "err"
    wstate,    \* workerStates[w].Status
    merged,    \* snapshots of each worker merged into the collector
    snapshot,  \* the statuses each goroutine copied under stateMu
    latest,    \* m.latest, what the dashboard shows
    handler,   \* the worker's /run handler for each attempt
    gone,      \* attempts whose client the worker has seen leave: jobCtx is done
    entry      \* the attempt stored in the worker's jobs map, 0 for none

masterVars == <<mpc, checked, wstate, merged, snapshot, latest>>
workerVars == <<handler, gone, entry>>
vars == <<ctx, masterVars, gpc, attempt, outcome, workerVars>>

Init ==
    /\ ctx = "live"
    /\ mpc = "check"
    /\ checked = 0
    /\ gpc = [w \in Workers |-> "idle"]
    /\ attempt = [w \in Workers |-> 1]
    /\ outcome = [w \in Workers |-> "none"]
    /\ wstate = [w \in Workers |-> "ready"]
    /\ merged = [w \in Workers |-> 0]
    /\ snapshot = [w \in Workers |-> wstate]
    /\ latest = [status |-> "idle", workers |-> wstate]
    /\ handler = [w \in Workers |-> [a \in Attempts |-> "new"]]
    /\ gone = [w \in Workers |-> {}]
    /\ entry = [w \in Workers |-> 0]

\* shardConfig: the requests of worker w; with one worker or no count the
\* configuration is passed on unchanged.
Shard(w) ==
    IF N <= 1 \/ JobRequests = 0 THEN JobRequests
    ELSE JobRequests \div N + (IF w - 1 < JobRequests % N THEN 1 ELSE 0)

-----------------------------------------------------------------------------
(* CheckWorkers: one worker after the other, ending at the first failure.  *)

\* The next worker answers and is not at capacity.  After the last one the
\* state "running" is published and the dispatch goroutines start.
CheckOK ==
    /\ mpc = "check" /\ ctx = "live"
    /\ checked' = checked + 1
    /\ IF checked' < N
       THEN UNCHANGED <<mpc, gpc, latest>>
       ELSE /\ mpc' = "dispatch"
            /\ gpc' = [w \in Workers |-> "send"]
            /\ latest' = [status |-> "running", workers |-> wstate]
    /\ UNCHANGED <<ctx, attempt, outcome, wstate, merged, snapshot, workerVars>>

\* A worker is unreachable or busy, or the context is done: Run returns the
\* error and publishes nothing.
CheckFails ==
    /\ mpc = "check"
    /\ mpc' = "failed"
    /\ UNCHANGED <<ctx, checked, wstate, merged, snapshot, latest, gpc, attempt, outcome, workerVars>>

-----------------------------------------------------------------------------
(* dispatch: one attempt.                                                  *)

Handle(w, state) == handler' = [handler EXCEPT ![w][attempt[w]] = state]
GoTo(w, to) == gpc' = [gpc EXCEPT ![w] = to]

\* client.Do fails before the worker sees the request; or the worker answers
\* 400, 401 or 409 without starting anything: it does not accept the shard's
\* configuration, or other jobs, or an earlier attempt that is still winding
\* down, fill its capacity.
NotStarted(w) ==
    /\ gpc[w] = "send"
    /\ Handle(w, "refused")
    /\ GoTo(w, "backoff")
    /\ UNCHANGED <<ctx, masterVars, attempt, outcome, gone, entry>>

\* client.Do fails when the request is on its way already: the client's
\* timeout, the context of Run, a broken connection.
LeaveInFlight(w) ==
    /\ gpc[w] = "send" /\ w \in Unreliable
    /\ Handle(w, "flight")
    /\ GoTo(w, "backoff")
    /\ UNCHANGED <<ctx, masterVars, attempt, outcome, gone, entry>>

\* handleRun validates the shard and admits the request: under this job's id
\* there is one entry at most.
Admissible(w) ==
    /\ Shard(w) > 0 \/ JobDuration > 0
    /\ entry[w] = 0 \/ Capacity > 1

Admitted(w) ==
    /\ gpc[w] = "send" /\ ctx = "live"
    /\ Admissible(w)
    /\ Handle(w, "build")
    /\ entry' = [entry EXCEPT ![w] = attempt[w]]
    /\ GoTo(w, "await")
    /\ UNCHANGED <<ctx, masterVars, attempt, outcome, gone>>

\* It fails while the worker runs or answers.
ResponseLost(w) ==
    /\ gpc[w] = "await"
    /\ ctx = "done" \/ w \in Unreliable
    /\ GoTo(w, "backoff")
    /\ UNCHANGED <<ctx, masterVars, attempt, outcome, workerVars>>

\* The response arrives: a result, or an error status to be retried.
ResponseArrives(w) ==
    /\ gpc[w] = "await"
    /\ \/ /\ handler[w][attempt[w]] = "ok"
          /\ outcome' = [outcome EXCEPT ![w] = "ok"]
          /\ GoTo(w, "record")
       \/ /\ handler[w][attempt[w]] = "bad"
          /\ GoTo(w, "backoff")
          /\ UNCHANGED outcome
    /\ UNCHANGED <<ctx, masterVars, attempt, workerVars>>

\* Mutant: the attempts are not counted.
RetryForever(w) ==
    /\ gpc[w] = "backoff"
    /\ GoTo(w, "send")
    /\ UNCHANGED <<ctx, masterVars, attempt, outcome, workerVars>>

\* After a failed attempt: wait, then try again, or give up after the third.
Retry(w) ==
    /\ gpc[w] = "backoff"
    /\ IF attempt[w] + 1 \in Attempts
       THEN /\ attempt' = [attempt EXCEPT ![w] = @ + 1]
            /\ GoTo(w, "send")
            /\ UNCHANGED outcome
       ELSE /\ outcome' = [outcome EXCEPT ![w] = "err"]
            /\ GoTo(w, "record")
            /\ UNCHANGED attempt
    /\ UNCHANGED <<ctx, masterVars, workerVars>>

\* The context is done: dispatch returns its error at once.
GiveUp(w) ==
    /\ gpc[w] = "backoff" /\ ctx = "done"
    /\ outcome' = [outcome EXCEPT ![w] = "err"]
    /\ GoTo(w, "record")
    /\ UNCHANGED <<ctx, masterVars, attempt, workerVars>>

-----------------------------------------------------------------------------
(* The goroutine after dispatch, and the end of Run.                       *)

\* Mutant: the merge is outside the else branch.
RecordAlways(w) ==
    /\ gpc[w] = "record"
    /\ wstate' = [wstate EXCEPT ![w] = IF outcome[w] = "ok" THEN "completed" ELSE "failed"]
    /\ merged' = [merged EXCEPT ![w] = @ + 1]
    /\ snapshot' = [snapshot EXCEPT ![w] = wstate']
    /\ GoTo(w, "publish")
    /\ UNCHANGED <<ctx, mpc, checked, latest, attempt, outcome, workerVars>>

\* Under stateMu: the worker's state, the merge, and a copy of all states.
Record(w) ==
    /\ gpc[w] = "record"
    /\ wstate' = [wstate EXCEPT ![w] = IF outcome[w] = "ok" THEN "completed" ELSE "failed"]
    /\ merged' = [merged EXCEPT ![w] = IF outcome[w] = "ok" THEN @ + 1 ELSE @]
    /\ snapshot' = [snapshot EXCEPT ![w] = wstate']
    /\ GoTo(w, "publish")
    /\ UNCHANGED <<ctx, mpc, checked, latest, attempt, outcome, workerVars>>

\* setState after the unlock: another goroutine's newer copy may already be
\* there and is overwritten.  Then wg.Done.
Publish(w) ==
    /\ gpc[w] = "publish"
    /\ latest' = [status |-> "running", workers |-> snapshot[w]]
    /\ GoTo(w, "ended")
    /\ UNCHANGED <<ctx, mpc, checked, wstate, merged, snapshot, attempt, outcome, workerVars>>

\* wg.Wait returns: the final state is published and returned with no error.
FinalStatus == IF \E w \in Workers : wstate[w] = "failed" THEN "completed_with_errors" ELSE "completed"

\* Mutant: wg.Done before setState.
FinalizeEarly ==
    /\ mpc = "dispatch"
    /\ \A w \in Workers : gpc[w] \in {"publish", "ended"}
    /\ mpc' = "returned"
    /\ latest' = [status |-> FinalStatus, workers |-> wstate]
    /\ UNCHANGED <<ctx, checked, wstate, merged, snapshot, gpc, attempt, outcome, workerVars>>

Finalize ==
    /\ mpc = "dispatch"
    /\ \A w \in Workers : gpc[w] = "ended"
    /\ mpc' = "returned"
    /\ latest' = [status |-> FinalStatus, workers |-> wstate]
    /\ UNCHANGED <<ctx, checked, wstate, merged, snapshot, gpc, attempt, outcome, workerVars>>

-----------------------------------------------------------------------------
(* The workers' handlers, as in WorkerNode.                                *)

\* A delayed request arrives: refused, or admitted beside or before the attempts
\* made since.
ArriveLate(w, a) ==
    /\ handler[w][a] = "flight"
    /\ \/ /\ handler' = [handler EXCEPT ![w][a] = "refused"]
          /\ UNCHANGED entry
       \/ /\ Admissible(w)
          /\ handler' = [handler EXCEPT ![w][a] = "build"]
          /\ entry' = [entry EXCEPT ![w] = a]
    /\ UNCHANGED <<ctx, masterVars, gpc, attempt, outcome, gone>>

LiveHandler(w, a) == handler[w][a] \in {"build", "run", "finish"}
Awaited(w, a) == gpc[w] = "await" /\ attempt[w] = a

\* Mutant: only an attempt with a successor is seen as left.
ClientReplaced(w, a) ==
    /\ LiveHandler(w, a) /\ attempt[w] > a /\ a \notin gone[w]
    /\ gone' = [gone EXCEPT ![w] = @ \cup {a}]
    /\ UNCHANGED <<ctx, masterVars, gpc, attempt, outcome, handler, entry>>

\* The connection of a client that has left ends the request's context, and
\* with it jobCtx.
ClientGone(w, a) ==
    /\ LiveHandler(w, a) /\ ~Awaited(w, a) /\ a \notin gone[w]
    /\ gone' = [gone EXCEPT ![w] = @ \cup {a}]
    /\ UNCHANGED <<ctx, masterVars, gpc, attempt, outcome, handler, entry>>

HandlerStep(w, a, from, to) ==
    /\ handler[w][a] = from
    /\ handler' = [handler EXCEPT ![w][a] = to]
    /\ UNCHANGED <<ctx, masterVars, gpc, attempt, outcome, gone>>

\* delete(w.jobs, job.JobID) removes the entry of any attempt.
BuildFails(w, a) == HandlerStep(w, a, "build", "bad") /\ entry' = [entry EXCEPT ![w] = 0]

BuildSucceeds(w, a) == HandlerStep(w, a, "build", "run") /\ UNCHANGED entry

EngineReturns(w, a) == HandlerStep(w, a, "run", "finish") /\ UNCHANGED entry

\* Mutant: the entry stays.
HandlerEndsListed(w, a) == HandlerStep(w, a, "finish", "ok") /\ UNCHANGED entry

HandlerEnds(w, a) == HandlerStep(w, a, "finish", "ok") /\ entry' = [entry EXCEPT ![w] = 0]

\* The job is cancelled or the master is told to stop.
ContextDone ==
    /\ ctx = "live" /\ mpc \in {"check", "dispatch"}
    /\ ctx' = "done"
    /\ UNCHANGED <<masterVars, gpc, attempt, outcome, workerVars>>

-----------------------------------------------------------------------------
Dispatch(w) ==
    \/ NotStarted(w) \/ LeaveInFlight(w) \/ Admitted(w) \/ ResponseLost(w)
    \/ ResponseArrives(w) \/ Retry(w) \/ GiveUp(w) \/ Record(w) \/ Publish(w)

Handler(w, a) ==
    \/ ArriveLate(w, a) \/ ClientGone(w, a)
    \/ BuildFails(w, a) \/ BuildSucceeds(w, a) \/ EngineReturns(w, a) \/ HandlerEnds(w, a)

Next ==
    \/ CheckOK \/ CheckFails \/ Finalize \/ ContextDone
    \/ \E w \in Workers : Dispatch(w) \/ \E a \in Attempts : Handler(w, a)

Spec == Init /\ [][Next]_vars

\* Goroutines run; the client has a timeout, so waiting for a response ends;
\* the worker's server sees a connection end; an engine whose context is done
\* returns, and so does one that nothing disturbs.  Nothing says that a delayed
\* request arrives.
Fairness ==
    /\ WF_vars(CheckOK \/ CheckFails) /\ WF_vars(Finalize)
    /\ \A w \in Workers : WF_vars(Dispatch(w))
    /\ \A w \in Workers, a \in Attempts :
        /\ WF_vars(ClientGone(w, a))
        /\ WF_vars(BuildFails(w, a) \/ BuildSucceeds(w, a))
        /\ WF_vars((a \in gone[w] \/ w \notin Unreliable) /\ EngineReturns(w, a))
        /\ WF_vars(HandlerEnds(w, a))

FairSpec == Spec /\ Fairness

-----------------------------------------------------------------------------
(* Properties.                                                             *)

Statuses == [Workers -> {"ready", "completed", "failed"}]

TypeOK ==
    /\ ctx \in {"live", "done"}
    /\ mpc \in {"check", "dispatch", "returned", "failed"}
    /\ checked \in 0..N
    /\ gpc \in [Workers -> {"idle", "send", "await", "backoff", "record", "publish", "ended"}]
    /\ attempt \in [Workers -> Attempts]
    /\ outcome \in [Workers -> {"none", "ok", "err"}]
    /\ wstate \in Statuses
    /\ merged \in [Workers -> Nat]
    /\ snapshot \in [Workers -> Statuses]
    /\ latest \in [status : {"idle", "running", "completed", "completed_with_errors"},
                   workers : Statuses]
    /\ handler \in [Workers -> [Attempts -> {"new", "flight", "refused", "build", "run", "finish",
                                             "ok", "bad"}]]
    /\ gone \in [Workers -> SUBSET Attempts]
    /\ entry \in [Workers -> Attempts \cup {0}]

\* However many attempts ran to the end on a worker, its results enter the
\* merged summary exactly once if its state is "completed" and never if it is
\* "failed"; and a merged result is one that a worker really finished.
ResultsCountedOnce ==
    \A w \in Workers :
        /\ merged[w] = IF wstate[w] = "completed" THEN 1 ELSE 0
        /\ merged[w] = 1 => handler[w][attempt[w]] = "ok"

\* The final state that Run returns is the last one the dashboard gets, with
\* every worker's final status: no goroutine publishes an older copy after it.
FinalStateShown ==
    mpc = "returned" =>
        /\ latest = [status |-> FinalStatus, workers |-> wstate]
        /\ \A w \in Workers : wstate[w] # "ready"

\* A worker that serves these attempts behaves as WorkerNode says.
JobID == "job"
Node(w) == INSTANCE WorkerNode WITH
    Requests <- Attempts, JobIDs <- {JobID}, NoHandle <- 0,
    hpc <- [a \in Attempts |->
              CASE handler[w][a] = "flight" -> "new"
                [] handler[w][a] \in {"refused", "ok", "bad"} -> "answered"
                [] OTHER -> handler[w][a]],
    job <- [a \in Attempts |->
              IF handler[w][a] \in {"new", "flight", "refused"} THEN 0 ELSE JobID],
    jobs <- [id \in {JobID} |-> entry[w]],
    capacity <- Capacity,
    lastJobID <- IF \E a \in Attempts : handler[w][a] = "ok" THEN JobID ELSE 0,
    done <- gone[w], targets <- {}, spc <- "up", shutting <- {}
NodesFollow ==
    /\ \A w \in Workers : Node(w)!Init
    /\ [][\A w \in Workers : Node(w)!Next \/ UNCHANGED Node(w)!vars]_vars

\* Run always returns, whatever is lost and whoever refuses.
RunReturns == <>(mpc \in {"returned", "failed"})

\* In the end nothing runs on any worker: every attempt that Run left behind,
\* or that arrives after it returned, ends and none begins again, because
\* cancellation reaches the workers through their connections
\* (CHANGELOG.md:25, "context propagation to workers").
AttemptsEnd == <>[](\A w \in Workers, a \in Attempts : ~LiveHandler(w, a))
=============================================================================
