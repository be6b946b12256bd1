------------------------ MODULE DistributedRunProofs ------------------------
(* A distributed run for any number of workers, requests and tries: what is *)
(* counted, what is shown, and that every worker follows WorkerNode.       *)
EXTENDS DistributedRun, FiniteSetTheorems, TLAPS

USE NAssumption, JobAssumption, MaxAttemptsAssumption, CapacityAssumption DEF Workers, Attempts

\* Where the goroutine of a worker address is, its record is in keeping.
RecordInv ==
    \A w \in Workers :
        /\ gpc[w] \notin {"publish", "ended"} => wstate[w] = "ready"
        /\ gpc[w] \in {"publish", "ended"} => wstate[w] # "ready"
        /\ merged[w] = IF wstate[w] = "completed" THEN 1 ELSE 0
        /\ gpc[w] \notin {"record", "publish", "ended"} => outcome[w] = "none"
        /\ gpc[w] = "record" => outcome[w] # "none"
        /\ outcome[w] = "ok" => handler[w][attempt[w]] = "ok"
        /\ wstate[w] = "completed" => outcome[w] = "ok"

\* The goroutines run between CheckWorkers and the end of Run, and the final
\* state is published after the last of them.
PhaseInv ==
    /\ mpc = "check" => checked < N
    /\ mpc \in {"check", "failed"} => \A w \in Workers : gpc[w] = "idle"
    /\ mpc = "returned" =>
          /\ \A w \in Workers : gpc[w] = "ended"
          /\ latest = [status |-> FinalStatus, workers |-> wstate]

IInv == TypeOK /\ RecordInv /\ PhaseInv

LEMMA InitInv == Init => IInv
  <1> SUFFICES ASSUME Init PROVE IInv
    OBVIOUS
  <1>1. TypeOK
    BY DEF Init, TypeOK, Statuses
  <1>2. RecordInv /\ PhaseInv
    BY DEF Init, RecordInv, PhaseInv
  <1> QED
    BY <1>1, <1>2 DEF IInv

\* The part of the invariant that a worker address is about.
LEMMA RecordFacts ==
    ASSUME IInv, NEW w \in Workers
    PROVE  /\ gpc[w] \in {"idle", "send", "await", "backoff", "record", "publish", "ended"}
           /\ attempt[w] \in Attempts /\ outcome[w] \in {"none", "ok", "err"}
           /\ gpc[w] \notin {"publish", "ended"} => wstate[w] = "ready"
           /\ merged[w] = IF wstate[w] = "completed" THEN 1 ELSE 0
           /\ gpc[w] \notin {"record", "publish", "ended"} => outcome[w] = "none"
           /\ gpc[w] = "record" => outcome[w] # "none"
  <1>1. gpc[w] \in {"idle", "send", "await", "backoff", "record", "publish", "ended"}
    BY DEF IInv, TypeOK
  <1>2. attempt[w] \in Attempts /\ outcome[w] \in {"none", "ok", "err"}
    BY DEF IInv, TypeOK
  <1> QED
    BY <1>1, <1>2 DEF IInv, RecordInv

\* Steps of CheckWorkers and Finalize, and the end of the context.
LEMMA RunInv ==
    ASSUME IInv, CheckOK \/ CheckFails \/ Finalize \/ ContextDone
    PROVE  IInv'
  <1> USE DEF masterVars, workerVars
  <1>1. ASSUME CheckOK PROVE IInv'
    <2>1. TypeOK'
      <3>1. checked' \in 0..N
        BY <1>1 DEF CheckOK, IInv, TypeOK, PhaseInv
      <3>2. /\ mpc' \in {"check", "dispatch"}
            /\ gpc' = gpc \/ gpc' = [w \in Workers |-> "send"]
            /\ latest' = latest \/ latest' = [status |-> "running", workers |-> wstate]
            /\ UNCHANGED <<ctx, attempt, outcome, wstate, merged, snapshot, workerVars>>
        BY <1>1 DEF CheckOK
      <3> QED
        BY <3>1, <3>2 DEF IInv, TypeOK
    <2>2. RecordInv' /\ PhaseInv'
      BY <1>1 DEF CheckOK, IInv, TypeOK, RecordInv, PhaseInv
    <2> QED
      BY <2>1, <2>2 DEF IInv
  <1>2. ASSUME CheckFails PROVE IInv'
    BY <1>2 DEF CheckFails, IInv, TypeOK, RecordInv, PhaseInv
  <1>3. ASSUME Finalize PROVE IInv'
    <2>1. FinalStatus \in {"completed", "completed_with_errors"} /\ FinalStatus' = FinalStatus
      BY <1>3 DEF Finalize, FinalStatus
    <2>2. TypeOK'
      BY <1>3, <2>1 DEF Finalize, IInv, TypeOK, Statuses
    <2>3. RecordInv' /\ PhaseInv'
      BY <1>3, <2>1 DEF Finalize, IInv, RecordInv, PhaseInv
    <2> QED
      BY <2>2, <2>3 DEF IInv
  <1>4. ASSUME ContextDone PROVE IInv'
    BY <1>4 DEF ContextDone, IInv, TypeOK, RecordInv, PhaseInv, FinalStatus
  <1> QED
    BY <1>1, <1>2, <1>3, <1>4

\* While a goroutine of a worker address is at work, Run waits for it.
LEMMA DispatchPhase ==
    ASSUME IInv, NEW w \in Workers, Dispatch(w)
    PROVE  mpc = "dispatch" /\ mpc' = "dispatch" /\ PhaseInv'
  <1>1. gpc[w] \notin {"idle", "ended"} /\ mpc' = mpc
    BY DEF Dispatch, NotStarted, LeaveInFlight, Admitted, ResponseLost, ResponseArrives, Retry,
           GiveUp, Record, Publish, masterVars
  <1>2. mpc = "dispatch"
    BY <1>1 DEF IInv, TypeOK, PhaseInv
  <1> QED
    BY <1>1, <1>2 DEF PhaseInv

\* The attempts: nothing is recorded, and an outcome is that of a finished one.
LEMMA AttemptInv ==
    ASSUME IInv, NEW w \in Workers,
           \/ NotStarted(w) \/ LeaveInFlight(w) \/ Admitted(w) \/ ResponseLost(w)
           \/ ResponseArrives(w) \/ Retry(w) \/ GiveUp(w)
    PROVE  TypeOK' /\ RecordInv'
  <1> USE DEF masterVars, workerVars, Handle, GoTo
  <1>1. ASSUME NotStarted(w) \/ LeaveInFlight(w) \/ Admitted(w) PROVE TypeOK' /\ RecordInv'
    <2>1. PICK h \in {"refused", "flight", "build"}, g \in {"backoff", "await"} :
            /\ gpc[w] = "send"
            /\ handler' = [handler EXCEPT ![w][attempt[w]] = h]
            /\ gpc' = [gpc EXCEPT ![w] = g]
            /\ UNCHANGED <<ctx, masterVars, attempt, outcome, gone>>
      BY <1>1 DEF NotStarted, LeaveInFlight, Admitted
    <2>2. entry' \in [Workers -> Attempts \cup {0}]
      BY <1>1 DEF NotStarted, LeaveInFlight, Admitted, IInv, TypeOK
    <2>3. TypeOK'
      BY <2>1, <2>2 DEF IInv, TypeOK
    <2>4. \A v \in Workers \ {w} : gpc'[v] = gpc[v] /\ handler'[v] = handler[v]
      BY <2>1 DEF IInv, TypeOK
    <2>5. gpc'[w] \in {"backoff", "await"} /\ outcome[w] = "none" /\ wstate[w] = "ready"
      <3>1. gpc \in [Workers -> {"idle", "send", "await", "backoff", "record", "publish", "ended"}]
        BY DEF IInv, TypeOK
      <3> QED
        BY <2>1, <3>1, RecordFacts
    <2>6. RecordInv'
      BY <2>1, <2>4, <2>5 DEF IInv, RecordInv
    <2> QED
      BY <2>3, <2>6
  <1>2. ASSUME ResponseLost(w) PROVE TypeOK' /\ RecordInv'
    <2>1. /\ gpc[w] = "await" /\ gpc' = [gpc EXCEPT ![w] = "backoff"]
          /\ UNCHANGED <<ctx, masterVars, attempt, outcome, workerVars>>
      BY <1>2 DEF ResponseLost
    <2>2. TypeOK'
      BY <2>1 DEF IInv, TypeOK
    <2>3. RecordInv'
      BY <2>1 DEF IInv, TypeOK, RecordInv
    <2> QED
      BY <2>2, <2>3
  <1>3. ASSUME ResponseArrives(w) PROVE TypeOK' /\ RecordInv'
    <2>1. gpc[w] = "await" /\ UNCHANGED <<ctx, masterVars, attempt, workerVars>>
      BY <1>3 DEF ResponseArrives
    <2>2. CASE /\ handler[w][attempt[w]] = "ok"
               /\ outcome' = [outcome EXCEPT ![w] = "ok"]
               /\ gpc' = [gpc EXCEPT ![w] = "record"]
      <3>1. TypeOK'
        BY <2>1, <2>2 DEF IInv, TypeOK
      <3>2. /\ gpc'[w] = "record" /\ outcome'[w] = "ok" /\ wstate[w] = "ready"
            /\ \A v \in Workers \ {w} : gpc'[v] = gpc[v] /\ outcome'[v] = outcome[v]
        <4>1. gpc'[w] = "record" /\ outcome'[w] = "ok"
          BY <2>2 DEF IInv, TypeOK
        <4>2. wstate[w] = "ready"
          BY <2>1, RecordFacts
        <4>3. \A v \in Workers \ {w} : gpc'[v] = gpc[v] /\ outcome'[v] = outcome[v]
          BY <2>2 DEF IInv, TypeOK
        <4> QED
          BY <4>1, <4>2, <4>3
      <3>3. RecordInv'
        BY <2>1, <2>2, <3>2 DEF IInv, RecordInv
      <3> QED
        BY <3>1, <3>3
    <2>3. CASE gpc' = [gpc EXCEPT ![w] = "backoff"] /\ outcome' = outcome
      <3>1. TypeOK'
        BY <2>1, <2>3 DEF IInv, TypeOK
      <3>2. RecordInv'
        BY <2>1, <2>3 DEF IInv, TypeOK, RecordInv
      <3> QED
        BY <3>1, <3>2
    <2> QED
      BY <1>3, <2>2, <2>3 DEF ResponseArrives
  <1>4. ASSUME Retry(w) \/ GiveUp(w) PROVE TypeOK' /\ RecordInv'
    <2>1. gpc[w] = "backoff" /\ UNCHANGED <<ctx, masterVars, workerVars>>
      BY <1>4 DEF Retry, GiveUp
    <2>2. CASE /\ attempt[w] + 1 \in Attempts
               /\ attempt' = [attempt EXCEPT ![w] = @ + 1]
               /\ gpc' = [gpc EXCEPT ![w] = "send"]
               /\ outcome' = outcome
      <3>1. TypeOK'
        BY <2>1, <2>2 DEF IInv, TypeOK
      <3>2. \A v \in Workers \ {w} : gpc'[v] = gpc[v] /\ attempt'[v] = attempt[v]
        BY <2>2 DEF IInv, TypeOK
      <3>3. gpc'[w] = "send" /\ outcome[w] = "none" /\ wstate[w] = "ready"
        <4>1. gpc'[w] = "send"
          BY <2>2 DEF IInv, TypeOK
        <4> QED
          BY <2>1, <4>1, RecordFacts
      <3>4. RecordInv'
        BY <2>1, <2>2, <3>2, <3>3 DEF IInv, RecordInv
      <3> QED
        BY <3>1, <3>4
    <2>3. CASE /\ outcome' = [outcome EXCEPT ![w] = "err"]
               /\ gpc' = [gpc EXCEPT ![w] = "record"]
               /\ attempt' = attempt
      <3>1. TypeOK'
        BY <2>1, <2>3 DEF IInv, TypeOK
      <3>2. gpc'[w] = "record" /\ outcome'[w] = "err"
        BY <2>3 DEF IInv, TypeOK
      <3>3. \A v \in Workers \ {w} : gpc'[v] = gpc[v] /\ outcome'[v] = outcome[v]
        BY <2>3 DEF IInv, TypeOK
      <3>4. wstate[w] = "ready"
        BY <2>1, RecordFacts
      <3>5. RecordInv'
        BY <2>1, <2>3, <3>2, <3>3, <3>4 DEF IInv, RecordInv
      <3> QED
        BY <3>1, <3>5
    <2> QED
      BY <1>4, <2>2, <2>3 DEF Retry, GiveUp
  <1> QED
    BY <1>1, <1>2, <1>3, <1>4

\* The end of a goroutine: its one record, and the copy it publishes.
LEMMA PublishInv ==
    ASSUME IInv, NEW w \in Workers, Record(w) \/ Publish(w)
    PROVE  TypeOK' /\ RecordInv'
  <1> USE DEF workerVars, GoTo
  <1>1. ASSUME Record(w) PROVE TypeOK' /\ RecordInv'
    <2>1. wstate' \in Statuses
      BY <1>1 DEF Record, IInv, TypeOK, Statuses
    <2>2. TypeOK'
      BY <1>1, <2>1 DEF Record, IInv, TypeOK
    <2>3. RecordInv'
      <3>1. gpc[w] = "record"
        BY <1>1 DEF Record
      <3>2. wstate[w] = "ready" /\ merged[w] = 0 /\ outcome[w] \in {"ok", "err"}
        BY <3>1, RecordFacts
      <3>3. /\ gpc'[w] = "publish"
            /\ wstate'[w] = IF outcome[w] = "ok" THEN "completed" ELSE "failed"
            /\ merged'[w] = IF outcome[w] = "ok" THEN 1 ELSE 0
        BY <1>1, <3>2 DEF Record, IInv, TypeOK, Statuses
      <3>4. \A v \in Workers \ {w} :
              gpc'[v] = gpc[v] /\ wstate'[v] = wstate[v] /\ merged'[v] = merged[v]
        BY <1>1 DEF Record, IInv, TypeOK, Statuses
      <3>5. UNCHANGED <<outcome, attempt, handler>>
        BY <1>1 DEF Record
      <3> QED
        BY <3>2, <3>3, <3>4, <3>5 DEF IInv, RecordInv
    <2> QED
      BY <2>2, <2>3
  <1>2. ASSUME Publish(w) PROVE TypeOK' /\ RecordInv'
    <2>1. TypeOK'
      BY <1>2 DEF Publish, IInv, TypeOK
    <2>2. RecordInv'
      BY <1>2 DEF Publish, IInv, TypeOK, RecordInv
    <2> QED
      BY <2>1, <2>2
  <1> QED
    BY <1>1, <1>2

\* A worker's handlers never take back an answer.
LEMMA HandlerInv ==
    ASSUME IInv, NEW w \in Workers, NEW a \in Attempts, Handler(w, a)
    PROVE  IInv'
  <1>1. UNCHANGED <<ctx, masterVars, gpc, attempt, outcome>>
    BY DEF Handler, ArriveLate, ClientGone, BuildFails, BuildSucceeds, EngineReturns, HandlerEnds,
           HandlerStep
  <1> DEFINE Phases == {"new", "flight", "refused", "build", "run", "finish", "ok", "bad"}
  <1>2. /\ handler' \in [Workers -> [Attempts -> Phases]]
        /\ \A v \in Workers, b \in Attempts : handler[v][b] = "ok" => handler'[v][b] = "ok"
    <2>1. CASE handler' = handler
      BY <2>1 DEF IInv, TypeOK
    <2>2. ASSUME NEW h \in Phases,
                 handler[w][a] # "ok" /\ handler' = [handler EXCEPT ![w][a] = h]
          PROVE  /\ handler' \in [Workers -> [Attempts -> Phases]]
                 /\ \A v \in Workers, b \in Attempts :
                       handler[v][b] = "ok" => handler'[v][b] = "ok"
      <3>1. handler \in [Workers -> [Attempts -> Phases]]
        BY DEF IInv, TypeOK
      <3> QED
        BY <2>2, <3>1
    <2>3. CASE ArriveLate(w, a)
      BY <2>2, <2>3 DEF ArriveLate
    <2>4. CASE ClientGone(w, a)
      BY <2>1, <2>4 DEF ClientGone
    <2>5. CASE BuildFails(w, a) \/ BuildSucceeds(w, a) \/ EngineReturns(w, a) \/ HandlerEnds(w, a)
      BY <2>2, <2>5 DEF BuildFails, BuildSucceeds, EngineReturns, HandlerEnds, HandlerStep
    <2> QED
      BY <2>3, <2>4, <2>5 DEF Handler
  <1>3. gone' \in [Workers -> SUBSET Attempts] /\ entry' \in [Workers -> Attempts \cup {0}]
    <2>1. \/ gone' = gone
          \/ gone' = [gone EXCEPT ![w] = @ \cup {a}]
      BY DEF Handler, ArriveLate, ClientGone, BuildFails, BuildSucceeds, EngineReturns,
             HandlerEnds, HandlerStep
    <2>2. \/ entry' = entry
          \/ entry' = [entry EXCEPT ![w] = a]
          \/ entry' = [entry EXCEPT ![w] = 0]
      BY DEF Handler, ArriveLate, ClientGone, BuildFails, BuildSucceeds, EngineReturns,
             HandlerEnds, HandlerStep
    <2>3. gone \in [Workers -> SUBSET Attempts] /\ entry \in [Workers -> Attempts \cup {0}]
      BY DEF IInv, TypeOK
    <2>4. gone' \in [Workers -> SUBSET Attempts]
      BY <2>1, <2>3
    <2>5. entry' \in [Workers -> Attempts \cup {0}]
      BY <2>2, <2>3
    <2> QED
      BY <2>4, <2>5
  <1>4. TypeOK'
    BY <1>1, <1>2, <1>3 DEF masterVars, IInv, TypeOK
  <1>5. RecordInv' /\ PhaseInv'
    BY <1>1, <1>2 DEF masterVars, IInv, TypeOK, RecordInv, PhaseInv, FinalStatus
  <1> QED
    BY <1>4, <1>5 DEF IInv

\* The invariant of a distributed run, in every reachable state.
THEOREM InvHolds == Spec => []IInv
  <1>1. IInv /\ [Next]_vars => IInv'
    <2> SUFFICES ASSUME IInv, [Next]_vars PROVE IInv'
      OBVIOUS
    <2>1. ASSUME NEW w \in Workers, Dispatch(w) PROVE IInv'
      BY <2>1, DispatchPhase, AttemptInv, PublishInv DEF Dispatch, IInv
    <2>2. ASSUME NEW w \in Workers, NEW a \in Attempts, Handler(w, a) PROVE IInv'
      BY <2>2, HandlerInv
    <2>3. CASE UNCHANGED vars
      BY <2>3 DEF vars, masterVars, workerVars, IInv, TypeOK, RecordInv, PhaseInv, FinalStatus
    <2> QED
      BY <2>1, <2>2, <2>3, RunInv DEF Next
  <1> QED
    BY <1>1, InitInv, PTL DEF Spec

\* However many attempts ran, a worker's results are merged exactly once if it
\* is shown as completed and never if it failed.
THEOREM CountedOnce == Spec => []ResultsCountedOnce
  <1>1. IInv => ResultsCountedOnce
    BY DEF IInv, RecordInv, ResultsCountedOnce
  <1> QED
    BY <1>1, InvHolds, PTL

\* When Run has returned, the dashboard holds its final state.
THEOREM FinalStateCorrect == Spec => []FinalStateShown
  <1>1. IInv => FinalStateShown
    BY DEF IInv, RecordInv, PhaseInv, FinalStateShown
  <1> QED
    BY <1>1, InvHolds, PTL

-----------------------------------------------------------------------------
(* Every worker follows WorkerNode.                                        *)

\* No request of an attempt was sent before its time.
FreshInv ==
    \A w \in Workers, a \in Attempts :
        a > attempt[w] \/ (a = attempt[w] /\ gpc[w] \in {"idle", "send"}) => handler[w][a] = "new"

\* A handler that has begun is never fresh again, and the next attempt is the
\* first that has not been sent.
LEMMA FreshKept == IInv /\ FreshInv /\ [Next]_vars => FreshInv'
  <1> SUFFICES ASSUME IInv, FreshInv, [Next]_vars PROVE FreshInv'
    OBVIOUS
  <1> USE DEF masterVars, workerVars
  <1>1. /\ gpc \in [Workers -> {"idle", "send", "await", "backoff", "record", "publish", "ended"}]
        /\ attempt \in [Workers -> Attempts]
        /\ handler \in [Workers -> [Attempts -> {"new", "flight", "refused", "build", "run",
                                                 "finish", "ok", "bad"}]]
    BY DEF IInv, TypeOK
  <1>2. ASSUME UNCHANGED <<handler, attempt>>, \A v \in Workers :
                 gpc'[v] \in {"idle", "send"} => gpc[v] \in {"idle", "send"}
        PROVE  FreshInv'
    BY <1>2 DEF FreshInv
  <1>3. CASE UNCHANGED vars \/ CheckFails \/ Finalize \/ ContextDone
    BY <1>2, <1>3 DEF vars, CheckFails, Finalize, ContextDone
  <1>4. CASE CheckOK
    <2>1. \A v \in Workers : gpc[v] = "idle"
      BY <1>4 DEF CheckOK, IInv, PhaseInv
    <2>2. UNCHANGED <<handler, attempt>>
      BY <1>4 DEF CheckOK
    <2> QED
      BY <1>2, <2>1, <2>2
  <1>5. ASSUME NEW w \in Workers, Dispatch(w) PROVE FreshInv'
    <2> USE DEF Handle, GoTo
    <2>1. CASE NotStarted(w) \/ LeaveInFlight(w) \/ Admitted(w)
      <3>1. PICK h \in {"refused", "flight", "build"}, g \in {"backoff", "await"} :
              /\ handler' = [handler EXCEPT ![w][attempt[w]] = h]
              /\ gpc' = [gpc EXCEPT ![w] = g]
              /\ attempt' = attempt
        BY <2>1 DEF NotStarted, LeaveInFlight, Admitted
      <3>2. ASSUME NEW v \in Workers, NEW a \in Attempts,
                   a > attempt'[v] \/ (a = attempt'[v] /\ gpc'[v] \in {"idle", "send"})
            PROVE  handler'[v][a] = "new"
        <4>1. CASE v = w
          BY <1>1, <3>1, <3>2, <4>1 DEF FreshInv
        <4>2. CASE v # w
          BY <1>1, <3>1, <3>2, <4>2 DEF FreshInv
        <4> QED
          BY <4>1, <4>2
      <3> QED
        BY <3>2 DEF FreshInv
    <2>2. CASE ResponseLost(w) \/ ResponseArrives(w) \/ GiveUp(w) \/ Record(w) \/ Publish(w)
      <3>1. PICK g \in {"backoff", "record", "publish", "ended"} :
              gpc' = [gpc EXCEPT ![w] = g] /\ UNCHANGED <<handler, attempt>>
        BY <2>2 DEF ResponseLost, ResponseArrives, GiveUp, Record, Publish
      <3> QED
        BY <1>1, <1>2, <3>1
    <2>3. CASE Retry(w)
      <3>1. CASE gpc' = [gpc EXCEPT ![w] = "record"] /\ UNCHANGED <<handler, attempt>>
        BY <1>1, <1>2, <3>1
      <3>2. CASE /\ attempt[w] + 1 \in Attempts
                 /\ attempt' = [attempt EXCEPT ![w] = @ + 1]
                 /\ gpc' = [gpc EXCEPT ![w] = "send"]
                 /\ handler' = handler
        <4>1. ASSUME NEW v \in Workers, NEW a \in Attempts,
                     a > attempt'[v] \/ (a = attempt'[v] /\ gpc'[v] \in {"idle", "send"})
              PROVE  handler'[v][a] = "new"
          <5>1. CASE v = w
            <6>1. a > attempt[w]
              BY <1>1, <3>2, <4>1, <5>1
            <6> QED
              BY <3>2, <5>1, <6>1 DEF FreshInv
          <5>2. CASE v # w
            BY <1>1, <3>2, <4>1, <5>2 DEF FreshInv
          <5> QED
            BY <5>1, <5>2
        <4> QED
          BY <4>1 DEF FreshInv
      <3> QED
        BY <2>3, <3>1, <3>2 DEF Retry
    <2> QED
      BY <1>5, <2>1, <2>2, <2>3 DEF Dispatch
  <1>6. ASSUME NEW w \in Workers, NEW a \in Attempts, Handler(w, a) PROVE FreshInv'
    <2>1. UNCHANGED <<gpc, attempt>>
      BY <1>6 DEF Handler, ArriveLate, ClientGone, BuildFails, BuildSucceeds, EngineReturns,
                  HandlerEnds, HandlerStep
    <2>2. CASE handler' = handler
      BY <1>2, <2>1, <2>2
    <2>3. ASSUME NEW h, handler[w][a] # "new", handler' = [handler EXCEPT ![w][a] = h]
          PROVE  FreshInv'
      <3>1. \A v \in Workers, b \in Attempts : handler[v][b] = "new" => handler'[v][b] = "new"
        BY <1>1, <2>3
      <3> QED
        BY <2>1, <3>1 DEF FreshInv
    <2>4. CASE ClientGone(w, a)
      BY <2>2, <2>4 DEF ClientGone
    <2>5. CASE ArriveLate(w, a)
      BY <2>3, <2>5 DEF ArriveLate
    <2>6. CASE BuildFails(w, a) \/ BuildSucceeds(w, a) \/ EngineReturns(w, a) \/ HandlerEnds(w, a)
      BY <2>3, <2>6 DEF BuildFails, BuildSucceeds, EngineReturns, HandlerEnds, HandlerStep
    <2> QED
      BY <1>6, <2>4, <2>5, <2>6 DEF Handler
  <1> QED
    BY <1>3, <1>4, <1>5, <1>6 DEF Next

\* A worker sees its handlers, its entry and the clients that left.
NodeStep(v) == Node(v)!Next \/ UNCHANGED Node(v)!vars

LEMMA Unseen ==
    ASSUME NEW v \in Workers, UNCHANGED <<handler[v], entry[v], gone[v]>>
    PROVE  NodeStep(v)
  BY DEF NodeStep, Node!vars

\* One entry at most, so a request is admitted as WorkerNode admits it.
LEMMA NodeCapacity ==
    ASSUME NEW w \in Workers, Admissible(w)
    PROVE  Cardinality(Node(w)!Entries) < Capacity
  <1>1. CASE entry[w] = 0
    <2>1. Node(w)!Entries = {}
      BY <1>1 DEF Node!Entries
    <2> QED
      BY <2>1, FS_EmptySet
  <1>2. CASE entry[w] # 0
    <2>1. Node(w)!Entries = {JobID}
      BY <1>2 DEF Node!Entries
    <2>2. Capacity > 1
      BY <1>2 DEF Admissible
    <2> QED
      BY <2>1, <2>2, FS_Singleton
  <1> QED
    BY <1>1, <1>2

\* Steps in which the worker admits or refuses an attempt that is new to it.
LEMMA NodeArrives ==
    ASSUME IInv, NEW w \in Workers, NEW a \in Attempts, handler[w][a] \in {"new", "flight"},
           gone' = gone,
           \/ handler' = [handler EXCEPT ![w][a] = "refused"] /\ entry' = entry
           \/ handler' = [handler EXCEPT ![w][a] = "flight"] /\ entry' = entry
           \/ /\ Admissible(w)
              /\ handler' = [handler EXCEPT ![w][a] = "build"]
              /\ entry' = [entry EXCEPT ![w] = a]
    PROVE  NodeStep(w)
  <1>1. handler \in [Workers -> [Attempts -> {"new", "flight", "refused", "build", "run",
                                              "finish", "ok", "bad"}]]
    BY DEF IInv, TypeOK
  <1>2. entry \in [Workers -> Attempts \cup {0}]
    BY DEF IInv, TypeOK
  <1>3. CASE handler' = [handler EXCEPT ![w][a] = "refused"] /\ entry' = entry
    <2>1. Node(w)!RejectRequest(a)
      BY <1>1, <1>3 DEF Node!RejectRequest
    <2> QED
      BY <2>1 DEF NodeStep, Node!Next, Node!Arrive
  <1>4. CASE handler' = [handler EXCEPT ![w][a] = "flight"] /\ entry' = entry
    <2>1. UNCHANGED Node(w)!vars
      BY <1>1, <1>4 DEF Node!vars
    <2> QED
      BY <2>1 DEF NodeStep
  <1>5. CASE /\ Admissible(w)
             /\ handler' = [handler EXCEPT ![w][a] = "build"]
             /\ entry' = [entry EXCEPT ![w] = a]
    <2>1. Cardinality(Node(w)!Entries) < Capacity
      BY <1>5, NodeCapacity
    \* One conjunct of Admit after the other.
    <2>2. Node(w)!Admit(a, JobID)!1
      BY <1>1, <1>5 DEF Node!Admit
    <2>3. Node(w)!Admit(a, JobID)!2
      BY <2>1, Zenon DEF Node!Admit, Node!Cardinality, Cardinality, Node!IsFiniteSet, IsFiniteSet
    <2>4. Node(w)!Admit(a, JobID)!3
      BY <1>1, <1>5 DEF Node!Admit
    <2>5. Node(w)!Admit(a, JobID)!4
      BY <1>1, <1>5 DEF Node!Admit
    <2>6. Node(w)!Admit(a, JobID)!5
      BY <1>2, <1>5 DEF Node!Admit
    <2>7. Node(w)!Admit(a, JobID)!6
      BY <1>1, <1>5 DEF Node!Admit
    <2>8. Node(w)!Admit(a, JobID)
      BY <2>2, <2>3, <2>4, <2>5, <2>6, <2>7 DEF Node!Admit
    <2> QED
      BY <2>8 DEF NodeStep, Node!Next, Node!Arrive
  <1> QED
    BY <1>3, <1>4, <1>5

\* Steps of a handler of the worker.
LEMMA NodeHandles ==
    ASSUME IInv, NEW w \in Workers, NEW a \in Attempts, Handler(w, a)
    PROVE  NodeStep(w)
  <1>1. handler \in [Workers -> [Attempts -> {"new", "flight", "refused", "build", "run",
                                              "finish", "ok", "bad"}]]
    BY DEF IInv, TypeOK
  <1>2. entry \in [Workers -> Attempts \cup {0}] /\ gone \in [Workers -> SUBSET Attempts]
    BY DEF IInv, TypeOK
  <1>3. CASE ArriveLate(w, a)
    BY <1>3, NodeArrives DEF ArriveLate
  <1>4. CASE ClientGone(w, a)
    <2>1. Node(w)!ClientGone(a)
      BY <1>1, <1>2, <1>4 DEF ClientGone, LiveHandler, Node!ClientGone, Node!Live
    <2> QED
      BY <2>1 DEF NodeStep, Node!Next
  <1>5. CASE BuildFails(w, a)
    <2>1. Node(w)!BuildFails(a)
      BY <1>1, <1>2, <1>5 DEF BuildFails, HandlerStep, Node!BuildFails
    <2> QED
      BY <2>1 DEF NodeStep, Node!Next, Node!Handler
  <1>6. CASE BuildSucceeds(w, a)
    <2>1. Node(w)!BuildSucceeds(a)
      BY <1>1, <1>6 DEF BuildSucceeds, HandlerStep, Node!BuildSucceeds
    <2> QED
      BY <2>1 DEF NodeStep, Node!Next, Node!Handler
  <1>7. CASE EngineReturns(w, a)
    <2>1. Node(w)!EngineReturns(a)
      BY <1>1, <1>7 DEF EngineReturns, HandlerStep, Node!EngineReturns
    <2> QED
      BY <2>1 DEF NodeStep, Node!Next, Node!Handler
  <1>8. CASE HandlerEnds(w, a)
    <2>1. Node(w)!Finish(a)
      BY <1>1, <1>2, <1>8 DEF HandlerEnds, HandlerStep, Node!Finish
    <2> QED
      BY <2>1 DEF NodeStep, Node!Next, Node!Handler
  <1> QED
    BY <1>3, <1>4, <1>5, <1>6, <1>7, <1>8 DEF Handler

\* A worker that serves the attempts of a run behaves as WorkerNode says: the
\* composed model implements it for every worker.
THEOREM WorkersImplementNode == Spec => NodesFollow
  <1>1. Init => FreshInv /\ \A w \in Workers : Node(w)!Init
    BY DEF Init, FreshInv, Node!Init
  <1>2. IInv /\ FreshInv /\ [Next]_vars => \A v \in Workers : NodeStep(v)
    <2> SUFFICES ASSUME IInv, FreshInv, [Next]_vars, NEW v \in Workers PROVE NodeStep(v)
      OBVIOUS
    <2> USE DEF masterVars, workerVars
    <2>1. /\ gone \in [Workers -> SUBSET Attempts] /\ entry \in [Workers -> Attempts \cup {0}]
          /\ attempt \in [Workers -> Attempts]
          /\ handler \in [Workers -> [Attempts -> {"new", "flight", "refused", "build", "run",
                                                   "finish", "ok", "bad"}]]
      BY DEF IInv, TypeOK
    <2>2. CASE UNCHANGED vars \/ CheckOK \/ CheckFails \/ Finalize \/ ContextDone
      BY <2>2, Unseen DEF vars, CheckOK, CheckFails, Finalize, ContextDone
    <2>3. ASSUME NEW w \in Workers, Dispatch(w) PROVE NodeStep(v)
      <3> USE DEF Handle, GoTo
      <3>1. CASE NotStarted(w) \/ LeaveInFlight(w) \/ Admitted(w)
        <4>1. handler[w][attempt[w]] = "new" /\ gone' = gone
          BY <2>1, <3>1 DEF NotStarted, LeaveInFlight, Admitted, FreshInv
        <4>2. \/ handler' = [handler EXCEPT ![w][attempt[w]] = "refused"] /\ entry' = entry
              \/ handler' = [handler EXCEPT ![w][attempt[w]] = "flight"] /\ entry' = entry
              \/ /\ Admissible(w)
                 /\ handler' = [handler EXCEPT ![w][attempt[w]] = "build"]
                 /\ entry' = [entry EXCEPT ![w] = attempt[w]]
          BY <3>1 DEF NotStarted, LeaveInFlight, Admitted
        <4>3. CASE v = w
          BY <2>1, <4>1, <4>2, <4>3, NodeArrives
        <4>4. CASE v # w
          BY <2>1, <4>1, <4>2, <4>4, Unseen
        <4> QED
          BY <4>3, <4>4
      <3>2. CASE \/ ResponseLost(w) \/ ResponseArrives(w) \/ Retry(w) \/ GiveUp(w)
                 \/ Record(w) \/ Publish(w)
        BY <3>2, Unseen DEF ResponseLost, ResponseArrives, Retry, GiveUp, Record, Publish
      <3> QED
        BY <2>3, <3>1, <3>2 DEF Dispatch
    <2>4. ASSUME NEW w \in Workers, NEW a \in Attempts, Handler(w, a) PROVE NodeStep(v)
      <3>1. CASE v = w
        BY <2>4, <3>1, NodeHandles
      <3>2. CASE v # w
        <4>1. UNCHANGED <<handler[v], entry[v], gone[v]>>
          BY <2>1, <2>4, <3>2 DEF Handler, ArriveLate, ClientGone, BuildFails, BuildSucceeds,
                                  EngineReturns, HandlerEnds, HandlerStep
        <4> QED
          BY <4>1, Unseen
      <3> QED
        BY <3>1, <3>2
    <2> QED
      BY <2>2, <2>3, <2>4 DEF Next
  <1>3. IInv /\ FreshInv /\ [Next]_vars
        => [\A w \in Workers : Node(w)!Next \/ UNCHANGED Node(w)!vars]_vars
    BY <1>2 DEF NodeStep
  <1>4. Spec => [](IInv /\ FreshInv)
    BY <1>1, InvHolds, FreshKept, PTL DEF Spec
  <1> QED
    BY <1>1, <1>3, <1>4, PTL DEF Spec, NodesFollow
=============================================================================
