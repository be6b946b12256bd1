# A TLA+ verification of the load generator

This directory holds TLA+ specifications of the concurrent parts of the load
generator, the TLC configurations that check them on small instances, and
proofs, checked by TLAPS, of the safety properties that matter most. Every
specification is written from the Go source; `PROJECT.json` maps each definition
to the lines it models.

    tlc -config MCJobQueue.cfg MCJobQueue      # model-check one run
    tlapm JobQueueProofs.tla                   # check the proofs of a module

## 1. Inventory

The program runs load tests. `cmd/loadgen` runs one locally. `cmd/loadgen-master`
runs one on several `cmd/loadgen-worker` processes, or stays up as a job server
(`--persistent`).

| Part | State | Operations | Talks to |
|---|---|---|---|
| Job queue (`distributed/queue.go`) | map of jobs, order, one-place wake-up channel | Enqueue, Dequeue, Complete, Fail, Cancel; reads | API handlers and processor, under its mutex |
| Background processor (`master.go`, `StartBackground`) | semaphore, stop channel, a goroutine per job | poll, take a slot, dequeue, run, release | queue; `Master.Run` |
| Distributed run (`master.go`, `Run`, `dispatch`) | worker states, merged collector | check workers, shard, dispatch with three tries, merge, publish | workers over HTTP; dashboard |
| Dashboard (`master.go`, `setState`, `handleSSE`) | latest state, client channels | set, broadcast, register, forward, leave | goroutines of all runs, browsers |
| Worker node (`worker.go`) | map of running jobs, capacity, last job | run, cancel, health, status, shutdown | master over HTTP; engine |
| Engine (`engine/engine.go`) | ticket counter, results channel, WaitGroup | start workers, worker loop, close, collect | runner, pacer, collector |
| Pacer (`engine/pacer.go`) | time of the next slot | Wait | all workers of an engine |
| Collector and histogram (`stats/`) | counters, three histograms, window | Add, SetWindow, Snapshot, MergeSnapshot, Summary | engine (one goroutine), master (under `stateMu`) |
| Prometheus exporter (`output/prometheus.go`) | a collector, the final summary | Observe, Finalize, a scrape | local engine, scraper |
| Runners (`protocol/`) | connections | one request with its measurements | server under test |
| Configuration (`config/`, `cli/parse.go`) | a `Config` | load a file, merge flags, validate; its JSON form | the mains, API, workers |
| Payload picker (`engine/payloads.go`) | a counter | Next | workers of an engine |
| HMAC (`auth/`), runner registry | none | sign, verify; build | master and worker handlers |
| Agent report (`output/agent.go`) | none | the re-test command | command line |
| Console and JSON output, tokenizer, mock server, Helm chart | none | formatting, test aids | |

What is hard here, and what would be correct:

* **Queue and processor.** Submission, cancellation, completion and SIGTERM
  interleave. The wake-up channel drops tokens; a slot is taken before there is a
  job and is given back on several paths. Correct: no lost wake-up, no leaked slot,
  FIFO start, a cancellation that reaches the run, statuses that follow one life
  cycle, every accepted job served.
* **Distributed run.** Requests and responses get lost, the client times out while
  a worker runs, and every retry carries the same job id. Correct: results counted
  once, the final state published last, the run returns, and nothing keeps
  running on a worker.
* **Worker node.** Handlers, cancellations and shutdown share a map keyed by a job
  id that is not unique. Correct: entries belong to runs, runs can be cancelled,
  shutdown reaches all of them.
* **Engine and pacer.** Workers race for tickets, slots and the channel with a
  context that may end at any time. Correct: an exact budget, no lost result, no
  send on a closed channel, an end, a rate that is never exceeded.
* **Dashboard.** Three critical sections per update. Correct: no client is left
  with an old state.
* **Streams.** A stream ends in many ways, and its lines, frames and messages are cut
  where the server likes. Correct: every complete event is counted once, a stream that
  breaks is told from one that ends, and times, tokens and rate agree.
* **Statistics.** Summaries are merged without the samples, and the exporter switches
  from a live collector to the final summary. Correct: the same figures as one
  collector would give, and counters that never fall.
* **Configuration.** File, flags and defaults are merged by rules with exceptions, a worker
  validates its shard again, and the JSON form drops fields. Correct: one payload
  source, shards that are accepted and add up, payloads that reach the engine, and a
  report whose command repeats the run.

`PROJECT.json` lists the hazards one by one, at the line where each would bite,
with the properties that cover it.

## 2. Modules

| Module | Models | Extends or instantiates |
|---|---|---|
| `JobLifecycle` | abstract: what the API promises of a job | |
| `JobQueue` | queue, processor, job goroutines, persistent `main` | instance of `JobLifecycle` (`LifecycleSpec`) |
| `JobQueueProofs` | theorems about `JobQueue` | |
| `Engine` | `RunDetailed` | |
| `Pacer` | `qpsPacer` | |
| `EngineProofs` | theorems about `Engine` and `Pacer` | |
| `WorkerNode`, `WorkerNodeProofs` | `worker.go` | |
| `DistributedRun`, `DistributedRunProofs` | `Run`, `CheckWorkers`, `dispatch` and the workers they talk to | instance of `WorkerNode` per worker (`NodesFollow`) |
| `Dashboard`, `DashboardProofs` | `setState`, `broadcastState`, `handleSSE` | |
| `StreamRunner`, `StreamRunnerProofs` | a request of each of the five runners | |
| `Stats`, `StatsProofs` | collector, histograms, snapshot, merge, exporter | |
| `JobConfig`, `JobConfigProofs` | file, flags, JSON form, shards, validation, signature, payload picker, re-test command | |
| `MC...` | model values and bounds for TLC | the module of that name |

A critical section of the code is one action; code between two of them is a value
of a program counter. Where a `select` has several ready cases the model may take
any. Operators introduced by a comment that begins with "Mutant" are not part of a
specification: each is a plausible mistake in the definition below it and is used to
show that a property would notice.

**JobQueue.** `status`, `order`, `startedAt`, `cancelFn` are the fields of the queue;
`notEmpty` the tokens in its channel; `sem` the length of the semaphore; `dpc`, `gpc`
and `mpc` say where the processor, the goroutine of each job and `main` are. `Enqueue`
and `Cancel` are the API; `Poll`, `AcquireSlot`, `Dequeue...` the processor; `RunReturns`,
`Complete`, `Fail`, `ReleaseSlot` a job's goroutine. `Master.Run` is the single step
`RunReturns` here and has its own module. A refused call changes nothing and is not an
action. When `main` returns nothing moves any more. Identifiers come from the clock:
they increase.

**Engine.** `wpc` places each worker in its loop, `issued` is the atomic counter, `results`
the fill of the channel, `cpc` the closer. A result is a token. `lost` and `begun`
are history: what was dropped and what was handed to the runner. The pacer is a step
that returns, sometimes after the context has ended, which is what `noopPacer` and
the timer of `qpsPacer` do.

**Pacer.** A discrete clock; `Reserve` is the critical section, `Due` and `StartTimer` the
test after the unlock, `TimerFires` and `Abort` the two cases of the `select`.
`reserved` and `used` are history. Its operators begin with `Pacer` (`PacerSpec`, `PacerNext`) because
its proofs share a module with those of the engine.

**WorkerNode.** `hpc` places each `/run` handler; `jobs` maps a job id to the request whose
handle is stored. `handleCancel` and `Shutdown` look up under the lock and cancel
afterwards, so each is more than one action. `ClientGone` is the HTTP server ending
the request's context. A handler ends by returning; a panic in it, which the HTTP server would recover, is not modelled.

**DistributedRun.** `gpc`, `attempt`, `outcome` are the dispatch goroutines; `wstate`, `merged`,
`snapshot` what they record under `stateMu`; `latest` the dashboard; `handler`, `gone`,
`entry` the workers' side. "ready" stands for whatever status the health check found.
A request may be refused before it starts anything (`NotStarted`), be left in "flight" when
its client gives up on it (`LeaveInFlight`) and then arrive at any later time or never
(`ArriveLate`), or be admitted and lose its response (`ResponseLost`). A worker notices
some time later that a client is gone (`ClientGone`). The engines and connections of the
workers in `Unreliable` may fail in these ways. `NodesFollow` states that for each worker every step is a
step of `WorkerNode` under the mapping in `Node(w)`, or leaves it alone.

**Dashboard.** A call of `setState` is identified by its run and its place in it and
stands for the state it sets. `Follows` is the order that `Run` imposes on its calls.

**StreamRunner.** `kind` is the runner and its format: `"sse"`, `"lines"` (`jsonl` and `raw`, which the
code treats alike), `"ws"`, `"grpc"`, and the two that wait for one answer, `"http"` and `"unary"`.
`Connected` and `RequestFails` are the request; then each
action is one turn of a read loop, at a moment of a discrete clock, or an end of the
stream: after a newline, inside a line, inside a frame (`EndInFrame`), by a close frame, by the end of the
connection, by an error. `acc` holds the local variables of the loop, `result` what is returned. A
line keeps of how many words its text is, its token count and whether it marks the end. An estimate
counts the words of all the text, not the chunks. Several payloads in one event are joined (`Joined`) and are then
plain text, of as many words as the spaces on their lines make it (`Spaces`); a JSON object is never split over two lines. `input` and `ended` are history:
the properties compute from the whole input what the loop should have found.

**Stats.** A collector is a record of counters, sums, three histograms (latency, time to first
token, inter-token latency), maps of status codes and error categories, and the window. `Add`, `Snapshot`,
`MergeSnapshot`, `SetWindow`, `Quantile` and `Summary` are operators on it; the state
machine feeds the same results to the workers' collectors and to a reference
collector with an exporter attached, and merges in any order. `EndRun` is the end of `Master.Run`, which
replaces the merged window by its own (`RunWindow`, which includes the health checks, the dispatch and its retries)
and makes the final summary (`report`); the reference is timed by the same window. `pending` is the result that
the reference has counted and the exporter has not; `scraped` is what a scrape showed last.
Durations are counted in fractions of a
microsecond because the wire format truncates them. A quotient is kept as a pair.

**JobConfig.** `stage` says how far a configuration has come: loaded from a file, merged with flags
and accepted, or decoded from a submitted job; running here or offered to workers; reported; run again.
`cfg` is the `Config`; fields that every rule merely copies are represented by `service`. Texts stand for
themselves: `Methods`, `WebURLs` and `HostPorts` are those that `Validate` lets pass, and `Spellings` gives for each
text that `Parse` trims or whose case it changes what becomes of it (`Clean`); a file's texts are taken as they are. `Wire` is
the JSON form and back. A configuration is one record, `Loaded`, whatever it is read from; flags are a
function on those that were given, and `WithDefaults` adds the others. `RequestFlags` and `LoadFlags` say which
flags the report prints. `engine` and `job` say what each engine was given, `sent` what it sent. A worker refuses a part
that `Admissible` excludes; afterwards, or in the local program, the runner may fail to be built (`Built`): of an
unknown protocol always, of gRPC when the target cannot be dialled or asked for its method, which is a choice
of the environment (`resolved`). `Retest` gives the command of a report to the local program, as the report does: it has no workers.

## 3. Runs

| Run | Bounds | Shows |
|---|---|---|
| `job_queue` | 4 submissions, bound 3, 2 slots | the safety invariants, the life cycle refinement, `PendingServed`, `CancelledFreesSlot` |
| `engine` | 2 workers, counts 0, 1 and 6, with and without deadline and ramp-up; at most 6 requests in a run without a count | `Conservation`, `Budget`, `NoSendOnClosed`, `CompleteRun`, `Termination` |
| `pacer` | 3 workers, interval 2, clock to 7 | `Spacing`, `RateCap`, `BoundedWait` |
| `worker_node` | 3 requests, 2 job ids, capacity 2 | `EntriesOwned`, `ListedWhenUnique`, `ShutdownReachesAll`, `CancelledEnds` |
| `distributed_run` | 2 workers, one of them unreliable, 2 attempts each, capacity 2 | `ResultsCountedOnce`, `FinalStateShown`, `RunReturns`, `AttemptsEnd`, `NodesFollow` |
| `dashboard` | one run with 2 workers, 2 clients, channels of 2 | `FinalShown`, `FinalReaches` |
| `stream` | payloads of no, one and two words; up to 5 lines, frames or messages; clock to 3; four sets of headers | `TokensExact`, `AbortedExact`, `TimingAddsUp`, `RateAgrees` |
| `stats` | 2 workers, 3 results of 6 sorts, 4 buckets, the windows of the workers and of the run | `MergeExact`, `MergeClose`, `PercentileBounds`, `ScrapesGrow` |
| `job_config` | 2 workers, 15 documents, 216 command lines, secrets given or not, 3 requests | `OneSource`, `PartsAccepted`, `PayloadsTakeTurns`, `RetestRepeats` |
| `queue_refusal`, `worker_capacity`, `body_lost` | as small as the case allows | each refutes one statement of a document or comment, see section 6 |

Type invariants are proved (section 4) and only run where that costs nothing.

Why the bounds are enough. Four submissions with a bound of three and two slots reach a
full queue, a pending job behind two running ones, a refused job, and tokens that
outlive their job. Six tickets for two workers whose channel holds four fill the channel
and let both workers overshoot the counter; a count of one leaves one worker without
any. Three callers of the pacer reserve slots two intervals ahead and the clock is
long enough for it to fall idle. Three requests for two slots and two ids compete for
capacity and share an id; they are numbered in the order in which they arrive
(`OrderedSpec` of `MCWorkerNode`), which loses nothing since requests that have not arrived are
alike. Two attempts show a retry beside an attempt that still
winds down or is still on its way; a third would repeat it (the code makes three, `MaxAttempts` is a
constant). One worker may fail in every way the network allows, the other only be refused,
fail to build its runner, or lose its client when the context of `Run` ends: what a worker does depends on its own requests, so a second
unreliable one adds interleavings and no new case, and the proofs cover any number. Five
requests over two workers give unequal shards. Five lines hold two events with a token count or text each, and an event of
several lines with the done marker anywhere in it; three moments tell equal from
growing gaps between chunks. Four broadcasts overflow a channel of two. Three results on two workers
reach an empty worker, a first and a later merge, and ranks that round;
the latencies lie below a microsecond, between bounds, on a bound and beyond the last.
The documents give each payload source alone, two at once, unreadable, empty or incomplete,
a body file that is empty, and values that a command line rounds, cuts, refuses or spells otherwise (a method in lower case, a
header with spaces around it); the command lines combine every
choice of absent, empty and given payload flags with eight settings of protocol and load, among
them invalid ones and texts that `Parse` cleans; targets of gRPC are tried with and without an answer; three requests let a picker of two payloads wrap.

Deadlock checking is off in every configuration: each of these systems ends, or
waits for a client that need not come.

**Fairness.** Weak fairness of each goroutine: the Go scheduler runs what can run and
timers fire. In addition: `m.Run` returns (its requests have a client timeout and three
tries, and `RunReturns` of `DistributedRun` checks just that); a runner returns (its
requests carry a timeout); an engine whose context is done returns (`Termination` of
`Engine`); in `DistributedRun`, a worker's HTTP server sees in the end that a connection is closed
(`ClientGone`), and the engine of a worker outside `Unreliable` returns, as its shard has a count
or a duration. Not assumed: that anyone cancels, that an engine with a live context
ends elsewhere, that a delayed request arrives, that clients register or leave, that SIGTERM
arrives or that `main` goes on.

## 4. Proofs

TLAPS checks the following for every value of the constants that satisfies the
assumptions named in the modules (`Jobs` a set of numbers, bounds and slots positive;
`Concurrency` positive and every configuration with a count or a duration; `Interval`
positive and finitely many callers; a positive capacity; a run of at least one worker and one attempt,
with a count or a duration; channels with room for a message; finitely many workers that report, at least one,
each with a window, a window of the run, results of the type of `RunResult`, increasing histogram bounds; any headers, and any
bound on the input and the clock of a stream; documents and command lines whose values have the types of
`fileConfig` and of the flags, `DocumentsAssumption` and `FlagSetsAssumption`; body files with text and directories whose file
names differ, `BodiesAssumption` and `DirsAssumption`; rates and prices that are not half way between two printed ones,
`RateAssumption`, where the rounding of `%.1f` and `%.4f` depends on the binary fraction; texts that `Parse` leaves
alone once it has cleaned them, `SpellingsAssumption`; GET among the methods and no empty method or target,
`MethodsAssumption` and `TargetsAssumption`).

* `JobQueueProofs`: `Spec => []IInv` and from it `TypeOK`, `SlotAccounting`, `RunningOwned`, `FIFOStart`,
  `CancelReachesRun`, `NoLostWakeup`; and `Spec => LifecycleSpec`, the refinement.
  None of the invariants is inductive alone. `FIFOStart` needs `OrderAgrees`: the order lists
  every accepted job exactly once, otherwise a job could be started at one place
  while it is pending at an earlier one. `SlotAccounting` needs `StatusAgrees`: a pending
  job has no goroutine, so starting one adds one to the live ones. `CancelReachesRun` needs
  that a started job has its cancel function. The proof has a lemma per group of
  conjuncts, each with a case per action; lemmas on the cardinality of `Live` say what
  starting and ending a goroutine do to it. For the refinement, `SlotFree` turns the slot in
  hand into a free place among the running jobs.
* `EngineProofs`: `Spec => []IInv`, and `TypeOK`, `Conservation`, `Budget`, `NoSendOnClosed`, `CompleteRun`.
  The strengthening `Progress` says why workers stop: with a live context only
  because the counter passed the count. With it, a run that returns with a live
  context has collected exactly the count.
  Of the pacer: `PacerSpec => []Spacing`, with the next slot an interval after every earlier one
  (`SpacingInv`). `PacerSpec => []RateCap` needs more than distances between neighbours:
  `RateInv` says that slots are as many intervals apart as their numbers say, and that who was let
  through had a slot that had come. Slots taken since a given one therefore have numbers
  in a range no longer than the intervals that have passed, and an injection into that range counts
  them. `PacerSpec => []BoundedWait` rests on `BacklogInv`: with a live context every slot
  between now and the next one is held by a caller that waits; an injection from those slots to
  the callers bounds the backlog.
* `WorkerNodeProofs`: `Spec => []IInv` and from it `TypeOK`, `EntriesOwned`, `ListedWhenUnique` and
  `ShutdownReachesAll`. They are proved together: that an entry has an owner needs that a handler
  at work has decoded its job (`LiveHasJob`); that Shutdown misses nobody needs that
  every run with an identifier of its own is listed when the list is copied, and
  `ShutdownInv`, that nothing is admitted afterwards and what is not yet cancelled is still on
  the list.
* `DistributedRunProofs`: `Spec => []IInv` and from it `ResultsCountedOnce` and `FinalStateShown`; and
  `Spec => NodesFollow`, the refinement. `RecordInv` ties the record of a worker to where its
  goroutine is: without it a result could be merged by a goroutine that has recorded already.
  `PhaseInv` says that goroutines exist only between the check and the end of `Run`, so that nothing
  publishes after the final state. For the refinement, each action of a dispatch or of a handler is a
  step of `WorkerNode` or leaves its variables alone; `FreshInv` gives what is missing: a
  goroutine sends an attempt that no handler has seen yet.
* `DashboardProofs`: `Spec => []TypeOK` for any runs, and `Spec => []FinalShown` if there is one. The last call
  follows the others (`OrderInv`), so nothing replaces the state it set (`LatestInv`), and from its broadcast
  on the latest state is at the end of each client's channel, on display, or still to be sent
  as the initial message (`DeliveredInv`).
* `StatsProofs`: `Spec => []StatsInv` and from it `MergeExact`, `MergeClose`, `PercentileBounds` and `ScrapesGrow`.
  A comparison of two summaries at the end of a run is not inductive. What is: at every
  moment, what the master holds and what the workers not merged yet hold add up to what the
  single collector holds. `CountsInv` says so of every counter, bucket and map; `SumsInv` says it of the
  sums of durations, up to less than a microsecond for each worker merged, since a snapshot truncates
  its sums; this is where the bound of `MergeClose` comes from. `MaxInv` and `MinInv` say the
  same of the extremes; a minimum below a microsecond arrives as 0, which a merge takes for none, and the
  exception in `MergeClose` is just that. `EmptyInv` is needed because `MergeSnapshot` returns early for a worker
  without requests: nothing may get lost there. `WindowInv` ties the window to the
  workers merged until `EndRun` replaces it; the report is then compared with a collector timed alike, and
  what remains to be shown is that the counters behind each figure are the same. `TrailInv` relates the exporter to the reference: it is behind by the one
  `pending` result at most, and what a scrape showed is behind the exporter, also when `Finalize` replaces the
  live figures. `RankInv` relates the buckets to the sorted samples: the cumulative count of a bucket is the
  number of samples that fall into it or a lower one, so the first bucket that reaches the target holds the
  sample of that rank.
* `StreamRunnerProofs`: `Spec => []StreamInv` and from it `TokensExact`, `AbortedExact`, `TimingAddsUp` and `RateAgrees`,
  for streams of any length. The properties look at the whole input, the loop at a line at a time;
  `LinesInv` connects them: the lines kept are those since the last blank one.
  `LineRead` and `LinesComplete` show that a blank line completes exactly the event that the end of the input would,
  and changes no other; `SaysChunk` that what the loop takes from an event is what its lines say.
  With them `CountInv`, that words, tokens and the mark of the end are those of the events completed so far, is kept
  by every turn. `TimeInv` says that latencies telescope between the first and the last chunk, and that the clock has
  left its origin when a chunk comes; otherwise a first chunk at the origin would pass for none, as zero means
  in the code. `ResultInv` says that a result is computed from what was accumulated when the stream ended.
* `JobConfigProofs`: `Spec => []JobInv` and from it `OneSource`, `PartsAccepted`, `PayloadsTakeTurns` and `RetestRepeats`,
  for any number of workers and any documents, command lines and files. Each property compares two ends of the
  way of a configuration, so the invariant says what every station on it holds: `ConfigInv`, that an accepted
  configuration is valid and is what `Parse` makes of its file and flags; `EngineInv`, that the local engine has
  that configuration and each worker its part, as the wire leaves it, that a worker refuses only what `Admissible` excludes, and that only a gRPC part is left without a runner; `SentInv`, that the k-th payload the local engine sent is the one of counter k - 1; `ReportInv`, that the command is
  that of the configuration. `OneSource` is then a statement about `Merge` (`MergeFields`, `FlagSource`, `FileSource`), with a case for each
  combination of given flags. For `PartsAccepted`, `PartValid` goes through `Validate` again for a part, and
  `SharesAddUp` sums quotients and remainders over N workers. `PayloadsTakeTurns`
  maps each turn of one payload to a turn of the other in the round before it (`TurnsEven`).
  `RetestRepeats` reads the command back: `CommandSays` that a flag left out has the value that was its
  reason, and one that is there survives `Clean` by the hypothesis `Repeatable`, `CommandParsable` and `CommandValid` that `Parse` accepts it, `CommandEffect` that the effect is the
  same. TLC checked `JobInv` as an invariant of `job_config` before it was proved.

Sums over finite sets and sequences would be proved by induction over data, which the
prover cannot do with the library's theorems. The proofs get round it: `LeastNumber` gives every nonempty set of
natural numbers a least element, `NatSet` turns this into induction over a set of numbers, `SubsetSet`
into one over the subsets of a finite set, and `PartSums` gives the value of a sum when one
member is taken out. `FoldRecord` (`StatsProofs`) and `FoldAppend` (`StreamRunnerProofs`)
do it for the folds over sequences.

Every safety invariant and both refinements that the passing runs check are proved. Only model-checked: the
liveness properties (`PendingServed`, `CancelledFreesSlot`, `Termination`, `CancelledEnds`, `RunReturns`, `AttemptsEnd`,
`FinalReaches`), which need fairness and are out of the prover's reach. Where a specification has fairness,
the proofs of safety do not use it.

## 5. Not modelled

* The handshake and the frame encoding of the WebSocket runner, the search for keys inside a JSON object,
  gRPC reflection and dynamic messages, transport settings, and the classification of errors by
  their text: data conversions, or a library's work. Of a WebSocket read, a connection that ends
  between two fields of a frame counts as closed and one that ends inside a field as
  broken; both are ends in `StreamRunner`.
* Console and JSON output, the tables of the agent report, tokenizer, duration formatting, the
  mock server and the Helm chart: formatting and test aids.
* The flags of the master and worker programs (`ParseMaster`, `ParseWorker`): they give the
  addresses and capacities that other modules have as constants. The HTTP client's timeout comes from
  them too, and not from the submitted job; `DistributedRun` lets a request time out at any moment.
* The token check of the write endpoints, `/api/latest`, the job list, health and status: they
  keep no state. `handleStatus` of a worker reads `lastJobID` after the unlock, a data race.
  `CancelWorkerJob` is never called by the program.
* Identifiers of jobs come from the clock: they are distinct and increase in `JobQueue`. On a
  platform with a coarse clock two submissions could get the same one.
* A snapshot does not carry `tokensEstimated`; `Stats` has that, and `MergeExact` leaves the field out of its comparison.
  It also leaves out what is computed from durations, which a snapshot truncates: minimum, maximum and averages, which
  `MergeClose` bounds, and the backend overhead and the upstream ratio, a difference and a quotient of two averages,
  of which nothing is claimed.
* Cancellation of a job of the persistent master is checked up to the context of its run
  (`CancelReachesRun`), and from that context to the workers (`AttemptsEnd`), not in one module.

`PROJECT.json` gives the reason for each part that is left out.

## 6. Where the code and its documents disagree

Three runs show a statement refuted:

* `queue_refusal`: the bound of the queue counts every job ever accepted, so a
  persistent master refuses all jobs after the hundredth, although `queue.go:10`
  calls an entry "a job waiting in or being processed by the master".
* `worker_capacity`: `docs/cli-reference.md:71` gives `--capacity` as "Max concurrent jobs";
  two requests for one job share a map entry and run beyond it.
* `body_lost`: `docs/advanced/distributed.md:15` starts a distributed run with `--body`, and
  `README.md:89` describes it as "The JSON payload sent on every request"; the field has no JSON form
  (`config.go:17`) and the workers send an empty body.

Others need no run to be seen:

* `docs/cli-reference.md:17` gives `--requests` as "Total requests"; with a duration beside it and fewer requests than
  workers, a shard of 0 requests has no count at all (`master.go:474`).
* `README.md:37` describes streaming aborts as "Streams that break before completion"; an HTTP stream
  that breaks with a read error is an error only and not marked as aborted, unlike
  those of the WebSocket and gRPC runners (`RequestFails` and the read errors of `StreamRunner`).
* `CHANGELOG.md:38` promises "SIGTERM → drain → exit"; `main` of the master returns right after
  `Stop`, which closes a channel (actions `Stop` and `Exit` of `JobQueue`).
* `worker.go:225` says that Shutdown "waits for active jobs"; it returns after the calls of cancel
  (`ShutdownReturn` of `WorkerNode`).
* `docs/cli-reference.md:13` says that flags override explicitly set values; a file must be valid by itself before any flag
  is looked at (`LoadFile` of `JobConfig`), so a flag cannot supply what the file lacks.
* An empty `--payload-dir` over a file clears a body given beside it; `OneSource` names this exception.
* `agent.go:116` offers a command to "Run this after making fixes"; it cannot be run if the file has both a body and
  a payload directory or a header value has a comma, and does not repeat the run if the body is longer than
  4000 bytes or the rate is below 0.05, which is printed as 0.0, no limit. A method in lower
  case passes `Validate` from a file (`config.go:137`) and is sent as it is, while `Parse` sends it in capitals
  (`parse.go:108`); a price below 0.00005 is printed as 0.0000, no price; both make the repeated run another one.
  `Repeatable` names all of these. The command in the report of a distributed run is one for the local program, without workers;
  `RetestRepeats` is about local runs.
* `docs/semi-white-box.md:28` gives the backend overhead as latency less upstream latency; the summary takes the average
  latency of all requests and the average upstream latency of those that report one (`collector.go:310`).

The dashboard property `FinalShown` holds of one run at a time. With two runs at
once (`Runs = {r1, r2}`) TLC finds a broadcast that was read before and sent after the
final one of the other run: the page then shows "running" for good.

## 7. Plan

Done: every part of section 1 that keeps state has its module, and every safety property that the runs check is
proved.

Left, in this order:

1. `JobQueue` with `DistributedRun` in place of `RunReturns`, for a cancellation from the API to the workers.
2. `StreamRunner`: the WebSocket handshake and fragmented messages.
