------------------------------- MODULE Engine -------------------------------
(***************************************************************************)
(* One load test: Engine.RunDetailed (internal/engine/engine.go).  The     *)
(* calling goroutine starts Concurrency workers and then collects results; *)
(* a closer goroutine waits for the workers and closes the results         *)
(* channel.  Workers take tickets from the shared issued counter, run one  *)
(* request each and send the result, all under a context that the caller   *)
(* may cancel and that expires after cfg.Duration.                         *)
(*                                                                         *)
(* A result is a token: what the properties tell apart is how many there   *)
(* are, not what they hold.                                                *)
(***************************************************************************)
EXTENDS Naturals, FiniteSets

CONSTANTS Concurrency,  \* cfg.Concurrency
          Configs       \* the other parts of the configurations to run

\* Validate accepts concurrency above 0 and requires a duration or a count;
\* 0 means "none" for each of the three.
ASSUME ConcurrencyAssumption == Concurrency \in Nat \ {0}
ASSUME ConfigsAssumption ==
    /\ Configs \subseteq [requests : Nat, duration : Nat, rampUp : Nat]
    /\ \A c \in Configs : c.requests > 0 \/ c.duration > 0

Workers == 1..Concurrency

VARIABLES
    cfg,        \* the configuration of this run
    runCtx,     \* "live", or "done" once cancelled or past its deadline
    mpc,        \* RunDetailed itself: "spawn", "collect", "returned"
    spawned,    \* workers started so far (the WaitGroup was told of them)
    wpc,        \* where each worker is
    cpc,        \* the closer: "none", "wait", "closed" (results is closed)
    issued,     \* the atomic counter of tickets
    begun,      \* requests handed to runner.Run
    results,    \* results in the channel
    collected,  \* results given to the collector and the observers
    lost        \* results discarded by a worker because the context was done

vars == <<cfg, runCtx, mpc, spawned, wpc, cpc, issued, begun, results, collected, lost>>
counters == <<issued, begun, results, collected, lost>>

ResultsCap == 2 * Concurrency

\* Workers that hold a request or its result.
InHand == {w \in Workers : wpc[w] \in {"run", "send"}}
Exited == {w \in Workers : wpc[w] = "exited"}

Init ==
    /\ cfg \in Configs
    /\ runCtx = "live"
    /\ mpc = "spawn"
    /\ spawned = 0
    /\ wpc = [w \in Workers |-> "none"]
    /\ cpc = "none"
    /\ issued = 0 /\ begun = 0 /\ results = 0 /\ collected = 0 /\ lost = 0

-----------------------------------------------------------------------------
(* The goroutine of RunDetailed.                                           *)

\* startWorker: workers.Add(1), then go.  With a ramp-up every worker but the
\* first of several starts with a delay.
StartWorker ==
    /\ mpc = "spawn"
    /\ spawned < Concurrency
    /\ spawned' = spawned + 1
    /\ wpc' = [wpc EXCEPT ![spawned + 1] =
                  IF cfg.rampUp > 0 /\ spawned > 0 THEN "delay" ELSE "poll"]
    /\ UNCHANGED <<cfg, runCtx, mpc, cpc, counters>>

\* Mutant: collecting begins and nobody will close the channel.
CollectOnly ==
    /\ mpc = "spawn" /\ spawned = Concurrency
    /\ mpc' = "collect"
    /\ UNCHANGED <<cfg, runCtx, spawned, wpc, cpc, counters>>

\* All workers started: the closer goroutine starts and collecting begins.
StartCloser ==
    /\ mpc = "spawn"
    /\ spawned = Concurrency
    /\ cpc' = "wait"
    /\ mpc' = "collect"
    /\ UNCHANGED <<cfg, runCtx, spawned, wpc, counters>>

\* One turn of "for result := range results": collector.Add and the observers.
Collect ==
    /\ mpc = "collect"
    /\ results > 0
    /\ results' = results - 1
    /\ collected' = collected + 1
    /\ UNCHANGED <<cfg, runCtx, mpc, spawned, wpc, cpc, issued, begun, lost>>

\* The channel is closed and drained: summary and Finalize.  The deferred
\* cancel of runCtx comes after its last use and is left out.
Return ==
    /\ mpc = "collect"
    /\ results = 0 /\ cpc = "closed"
    /\ mpc' = "returned"
    /\ UNCHANGED <<cfg, runCtx, spawned, wpc, cpc, counters>>

\* Mutant: the first worker to end closes the channel.
CloseAtFirst ==
    /\ cpc = "wait"
    /\ \E w \in 1..spawned : wpc[w] = "exited"
    /\ cpc' = "closed"
    /\ UNCHANGED <<cfg, runCtx, mpc, spawned, wpc, counters>>

\* The closer: workers.Wait() returns once every worker it knows of is done.
CloseResults ==
    /\ cpc = "wait"
    /\ \A w \in 1..spawned : wpc[w] = "exited"
    /\ cpc' = "closed"
    /\ UNCHANGED <<cfg, runCtx, mpc, spawned, wpc, counters>>

-----------------------------------------------------------------------------
(* The context.                                                            *)

\* The caller cancels (a signal, DELETE of the job, a lost connection).
CancelRun ==
    /\ mpc # "returned"
    /\ runCtx = "live"
    /\ runCtx' = "done"
    /\ UNCHANGED <<cfg, mpc, spawned, wpc, cpc, counters>>

\* context.WithTimeout, when a duration is configured.
Deadline ==
    /\ cfg.duration > 0
    /\ CancelRun

-----------------------------------------------------------------------------
(* A worker.  In a select with several ready cases Go picks any of them.   *)

Step(w, from, to) == wpc[w] = from /\ wpc' = [wpc EXCEPT ![w] = to]

\* The ramp-up delay is over.
DelayOver(w) ==
    /\ Step(w, "delay", "poll")
    /\ UNCHANGED <<cfg, runCtx, mpc, spawned, cpc, counters>>

\* The delay, the pacer or the backoff ends with the context, or the poll at
\* the head of the loop sees it done.
ExitOnDone(w) ==
    /\ runCtx = "done"
    /\ \E from \in {"delay", "poll", "pace", "backoff"} : Step(w, from, "exited")
    /\ UNCHANGED <<cfg, runCtx, mpc, spawned, cpc, counters>>

\* The head of the loop finds the context live and goes to the pacer.
PollLive(w) ==
    /\ runCtx = "live"
    /\ Step(w, "poll", "pace")
    /\ UNCHANGED <<cfg, runCtx, mpc, spawned, cpc, counters>>

\* pacer.Wait returns nil; its timer may win against a context that is done.
Paced(w) ==
    /\ Step(w, "pace", "ticket")
    /\ UNCHANGED <<cfg, runCtx, mpc, spawned, cpc, counters>>

\* Mutant: the ticket is checked before it is counted.
TakeOneMore(w) ==
    /\ cfg.requests > 0 => issued <= cfg.requests
    /\ issued' = issued + 1
    /\ Step(w, "ticket", "run")
    /\ begun' = begun + 1
    /\ UNCHANGED <<cfg, runCtx, mpc, spawned, cpc, results, collected, lost>>

\* issued.Add(1): the worker has a ticket and goes on to runner.Run.
TakeTicket(w) ==
    /\ \/ cfg.requests > 0 /\ issued' = issued + 1 /\ issued' <= cfg.requests
       \/ cfg.requests = 0 /\ UNCHANGED issued
    /\ Step(w, "ticket", "run")
    /\ begun' = begun + 1
    /\ UNCHANGED <<cfg, runCtx, mpc, spawned, cpc, results, collected, lost>>

\* Mutant: the last ticket is refused.
NoLastTicket(w) ==
    /\ cfg.requests > 0
    /\ issued' = issued + 1
    /\ issued' >= cfg.requests
    /\ Step(w, "ticket", "exited")
    /\ UNCHANGED <<cfg, runCtx, mpc, spawned, cpc, begun, results, collected, lost>>

\* issued.Add(1) went past the configured number: the worker is done.
NoTicket(w) ==
    /\ cfg.requests > 0
    /\ issued' = issued + 1
    /\ issued' > cfg.requests
    /\ Step(w, "ticket", "exited")
    /\ UNCHANGED <<cfg, runCtx, mpc, spawned, cpc, begun, results, collected, lost>>

\* runner.Run returns, with a result in every case.
RunnerReturns(w) ==
    /\ Step(w, "run", "send")
    /\ UNCHANGED <<cfg, runCtx, mpc, spawned, cpc, counters>>

\* Mutant: a full channel drops the result.
SendOrDrop(w) ==
    /\ Step(w, "send", "poll")
    /\ results' = IF results < ResultsCap THEN results + 1 ELSE results
    /\ UNCHANGED <<cfg, runCtx, mpc, spawned, cpc, issued, begun, collected, lost>>

\* results <- result, then the 1 ms backoff after an instant failure.
Send(w) ==
    /\ results < ResultsCap
    /\ \E next \in {"poll", "backoff"} : Step(w, "send", next)
    /\ results' = results + 1
    /\ UNCHANGED <<cfg, runCtx, mpc, spawned, cpc, issued, begun, collected, lost>>

\* The other case of that select: the result is dropped.
DropResult(w) ==
    /\ runCtx = "done"
    /\ Step(w, "send", "exited")
    /\ lost' = lost + 1
    /\ UNCHANGED <<cfg, runCtx, mpc, spawned, cpc, issued, begun, results, collected>>

BackoffOver(w) ==
    /\ Step(w, "backoff", "poll")
    /\ UNCHANGED <<cfg, runCtx, mpc, spawned, cpc, counters>>

Worker(w) ==
    \/ DelayOver(w) \/ ExitOnDone(w) \/ PollLive(w) \/ Paced(w)
    \/ TakeTicket(w) \/ NoTicket(w) \/ RunnerReturns(w)
    \/ Send(w) \/ DropResult(w) \/ BackoffOver(w)

-----------------------------------------------------------------------------
MainStep == StartWorker \/ StartCloser \/ Collect \/ Return

Next == MainStep \/ CloseResults \/ CancelRun \/ Deadline \/ \E w \in Workers : Worker(w)

Spec == Init /\ [][Next]_vars

\* Goroutines that can run do run, timers fire, and every runner returns: its
\* requests carry a timeout.  Nothing forces the caller to cancel.
Fairness ==
    /\ WF_vars(MainStep)
    /\ WF_vars(CloseResults)
    /\ WF_vars(Deadline)
    /\ \A w \in Workers : WF_vars(Worker(w))

FairSpec == Spec /\ Fairness

-----------------------------------------------------------------------------
(* Properties.                                                             *)

TypeOK ==
    /\ cfg \in Configs
    /\ runCtx \in {"live", "done"}
    /\ mpc \in {"spawn", "collect", "returned"}
    /\ spawned \in 0..Concurrency
    /\ wpc \in [Workers -> {"none", "delay", "poll", "pace", "ticket", "run", "send",
                            "backoff", "exited"}]
    /\ cpc \in {"none", "wait", "closed"}
    /\ issued \in Nat /\ begun \in Nat /\ results \in Nat
    /\ collected \in Nat /\ lost \in Nat

\* Every request that was begun is accounted for once: collected, in the
\* channel, held by a worker, or dropped; and a result is dropped only when
\* the context was done, at most one per worker.
Conservation ==
    /\ begun = collected + results + Cardinality(InHand) + lost
    /\ lost <= Cardinality(Exited)
    /\ lost > 0 => runCtx = "done"

\* The request budget is exact: never more requests than configured, however
\* the workers race for the last ticket, and none is left unissued by a
\* worker that found the counter past the limit.
Budget ==
    cfg.requests > 0 =>
        /\ begun <= cfg.requests
        /\ begun = (IF issued <= cfg.requests THEN issued ELSE cfg.requests)

\* The results channel is closed only after the last worker is gone: no
\* worker can ever send on a closed channel.
NoSendOnClosed == cpc = "closed" => \A w \in Workers : wpc[w] = "exited"

\* Why workers stop, and what the WaitGroup and the closer know of them.
Progress ==
    /\ \A w \in Workers : w > spawned => wpc[w] = "none"
    /\ mpc # "spawn" => spawned = Concurrency
    /\ cpc # "none" => mpc # "spawn"
    /\ mpc = "returned" => cpc = "closed" /\ results = 0
    /\ runCtx = "live" => \A w \in Exited : cfg.requests > 0 /\ issued > cfg.requests

\* Inductive together; CompleteRun follows from it.
IInv == TypeOK /\ Conservation /\ Budget /\ NoSendOnClosed /\ Progress

\* A run that ends by itself, its context still live, reports exactly
\* cfg.Requests results (TestEngineStopsAtRequestCount).
CompleteRun ==
    mpc = "returned" /\ runCtx = "live" => collected = cfg.requests /\ cfg.requests > 0

\* A run always ends: by its count, its deadline or a cancellation, whatever
\* the channel's fill and the collector's speed.
Termination == <>(mpc = "returned")
=============================================================================
