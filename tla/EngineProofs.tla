---------------------------- MODULE EngineProofs ----------------------------
(***************************************************************************)
(* A load test accounts for every request, respects its budget, never      *)
(* sends on a closed channel and, undisturbed, reports exactly the number  *)
(* of requests it was asked for: for any number of workers and any         *)
(* configuration.  Its pacer keeps its rate for any interval and any       *)
(* number of workers: the slots keep their distance, no more workers are   *)
(* let through than intervals have started, and nobody waits longer than   *)
(* one interval per worker.                                                *)
(***************************************************************************)
EXTENDS Engine, Pacer, FiniteSetTheorems, FunctionTheorems, TLAPS

USE ConcurrencyAssumption, ConfigsAssumption

-----------------------------------------------------------------------------
(* How one step of one worker changes the sets that are counted.           *)

LEMMA WorkersFinite ==
    ASSUME NEW S, S \subseteq Workers
    PROVE  IsFiniteSet(S) /\ Cardinality(S) \in Nat
  <1>1. IsFiniteSet(Workers)
    BY FS_Interval DEF Workers
  <1>2. IsFiniteSet(S)
    BY <1>1, FS_Subset
  <1> QED
    BY <1>2, FS_CardinalityType

LEMMA InHandGrows ==
    ASSUME TypeOK, NEW w \in Workers, Step(w, "ticket", "run")
    PROVE  Cardinality(InHand') = Cardinality(InHand) + 1
  <1>1. InHand' = InHand \cup {w} /\ w \notin InHand /\ InHand \subseteq Workers
    BY DEF TypeOK, Step, InHand
  <1> QED
    BY <1>1, WorkersFinite, FS_AddElement

LEMMA InHandShrinks ==
    ASSUME TypeOK, NEW w \in Workers, NEW to \in {"poll", "backoff", "exited"},
           Step(w, "send", to)
    PROVE  /\ Cardinality(InHand') = Cardinality(InHand) - 1
           /\ Cardinality(InHand) \in Nat \ {0}
  <1>1. InHand' = InHand \ {w} /\ w \in InHand /\ InHand \subseteq Workers
    BY DEF TypeOK, Step, InHand
  <1>2. IsFiniteSet(InHand) /\ Cardinality(InHand) \in Nat
    BY <1>1, WorkersFinite
  <1>3. Cardinality(InHand) # 0
    BY <1>1, <1>2, FS_EmptySet
  <1> QED
    BY <1>1, <1>2, <1>3, FS_RemoveElement

LEMMA ExitedGrows ==
    ASSUME TypeOK, NEW w \in Workers,
           NEW from \in {"delay", "poll", "pace", "ticket", "send", "backoff"},
           Step(w, from, "exited")
    PROVE  /\ Cardinality(Exited') = Cardinality(Exited) + 1
           /\ Exited' = Exited \cup {w}
  <1>1. Exited' = Exited \cup {w} /\ w \notin Exited /\ Exited \subseteq Workers
    BY DEF TypeOK, Step, Exited
  <1> QED
    BY <1>1, WorkersFinite, FS_AddElement

\* A step between states outside both sets leaves them alone.
LEMMA SetsStay ==
    ASSUME TypeOK, NEW w \in Workers,
           NEW from \in {"none", "delay", "poll", "pace", "ticket", "backoff"},
           NEW to \in {"delay", "poll", "pace", "ticket", "backoff"},
           wpc[w] = from, wpc' = [wpc EXCEPT ![w] = to]
    PROVE  InHand' = InHand /\ Exited' = Exited
  BY DEF TypeOK, InHand, Exited
-----------------------------------------------------------------------------
(* The inductive invariant.                                                *)

LEMMA InvInit == Init => IInv
  <1> SUFFICES ASSUME Init PROVE IInv
    OBVIOUS
  <1>1. TypeOK
    BY DEF Init, TypeOK
  <1>2. InHand = {} /\ Exited = {} /\ Cardinality(InHand) = 0 /\ Cardinality(Exited) = 0
    BY FS_EmptySet DEF Init, InHand, Exited
  <1>3. Conservation
    BY <1>2 DEF Init, Conservation
  <1>4. Budget
    BY <1>1 DEF Init, Budget, TypeOK
  <1>5. NoSendOnClosed /\ Progress
    BY <1>2 DEF Init, NoSendOnClosed, Progress, Workers
  <1> QED
    BY <1>1, <1>3, <1>4, <1>5 DEF IInv

LEMMA TypeStep ==
    ASSUME TypeOK, [Next]_vars
    PROVE  TypeOK'
  <1>1. ASSUME StartWorker PROVE TypeOK'
    BY <1>1 DEF StartWorker, TypeOK, Workers, counters
  <1>2. ASSUME StartCloser \/ Collect \/ Return \/ CloseResults PROVE TypeOK'
    BY <1>2 DEF StartCloser, Collect, Return, CloseResults, TypeOK, counters
  <1>3. ASSUME CancelRun PROVE TypeOK'
    BY <1>3 DEF CancelRun, TypeOK, counters
  <1>4. ASSUME NEW w \in Workers,
               DelayOver(w) \/ ExitOnDone(w) \/ PollLive(w) \/ Paced(w) \/ RunnerReturns(w)
               \/ BackoffOver(w)
        PROVE TypeOK'
    BY <1>4 DEF DelayOver, ExitOnDone, PollLive, Paced, RunnerReturns, BackoffOver, Step,
                TypeOK, counters
  <1>5. ASSUME NEW w \in Workers, TakeTicket(w) \/ NoTicket(w) PROVE TypeOK'
    BY <1>5 DEF TakeTicket, NoTicket, Step, TypeOK
  <1>6. ASSUME NEW w \in Workers, Send(w) \/ DropResult(w) PROVE TypeOK'
    BY <1>6 DEF Send, DropResult, Step, TypeOK
  <1>7. ASSUME UNCHANGED vars PROVE TypeOK'
    BY <1>7 DEF vars, TypeOK
  <1> QED
    BY <1>1, <1>2, <1>3, <1>4, <1>5, <1>6, <1>7 DEF Next, MainStep, Deadline, Worker

\* What the other conjuncts need of a step that touches no counter and no
\* worker: nothing is counted differently.
LEMMA CountsStay ==
    ASSUME IInv, UNCHANGED <<cfg, wpc, counters>>, runCtx = "done" => runCtx' = "done"
    PROVE  Conservation' /\ Budget'
  BY DEF IInv, Conservation, Budget, InHand, Exited, counters

\* The steps of RunDetailed, its closer and its context.
LEMMA MainInvStep ==
    ASSUME IInv, MainStep \/ CloseResults \/ CancelRun \/ UNCHANGED vars
    PROVE  Conservation' /\ Budget' /\ NoSendOnClosed' /\ Progress'
  <1> DEFINE P == Conservation' /\ Budget' /\ NoSendOnClosed' /\ Progress'
  <1> USE DEF IInv
  <1>0. Cardinality(InHand) \in Nat /\ Cardinality(Exited) \in Nat
    BY WorkersFinite DEF InHand, Exited
  <1>1. ASSUME StartWorker PROVE P
    <2>1. spawned + 1 \in Workers
      BY <1>1 DEF StartWorker, TypeOK, Workers
    <2>2. cpc = "none" /\ wpc[spawned + 1] = "none"
      BY <1>1, <2>1 DEF StartWorker, Progress, TypeOK
    <2>3. InHand' = InHand /\ Exited' = Exited
      BY <1>1, <2>1, <2>2, SetsStay DEF StartWorker
    <2>4. Conservation' /\ Budget'
      BY <1>1, <2>3 DEF StartWorker, Conservation, Budget, counters
    <2>5. NoSendOnClosed'
      BY <1>1, <2>2 DEF StartWorker, NoSendOnClosed
    <2>6. Progress'
      BY <1>1, <2>1, <2>2, <2>3 DEF StartWorker, Progress, TypeOK, Workers, counters
    <2> QED
      BY <2>4, <2>5, <2>6
  <1>2. ASSUME StartCloser PROVE P
    BY <1>2, CountsStay DEF StartCloser, NoSendOnClosed, Progress, Exited, counters
  <1>3. ASSUME Collect PROVE P
    <2>1. InHand' = InHand /\ Exited' = Exited
      BY <1>3 DEF Collect, InHand, Exited
    <2>2. Conservation'
      BY <1>0, <1>3, <2>1 DEF Collect, Conservation, TypeOK
    <2>3. Budget' /\ NoSendOnClosed' /\ Progress'
      BY <1>3, <2>1 DEF Collect, Budget, NoSendOnClosed, Progress
    <2> QED
      BY <2>2, <2>3
  <1>4. ASSUME Return PROVE P
    BY <1>4, CountsStay DEF Return, NoSendOnClosed, Progress, Exited, counters
  <1>5. ASSUME CloseResults PROVE P
    <2>1. Conservation' /\ Budget'
      BY <1>5, CountsStay DEF CloseResults
    <2>2. spawned = Concurrency
      BY <1>5 DEF CloseResults, Progress
    <2>3. NoSendOnClosed' /\ Progress'
      BY <1>5, <2>2 DEF CloseResults, NoSendOnClosed, Progress, Exited, Workers, counters
    <2> QED
      BY <2>1, <2>3
  <1>6. ASSUME CancelRun PROVE P
    BY <1>6, CountsStay DEF CancelRun, NoSendOnClosed, Progress, Exited, counters
  <1>7. ASSUME UNCHANGED vars PROVE P
    BY <1>7, CountsStay DEF vars, NoSendOnClosed, Progress, Exited, counters
  <1> HIDE DEF P
  <1>8. P
    BY <1>1, <1>2, <1>3, <1>4, <1>5, <1>6, <1>7 DEF MainStep
  <1> QED
    BY <1>8 DEF P

\* While a worker can step, the channel is open and RunDetailed has not
\* returned; and a worker that steps was started.
LEMMA WorkerRunning ==
    ASSUME IInv, NEW w \in Workers, NEW from, NEW to, from \notin {"exited", "none"},
           Step(w, from, to), UNCHANGED <<spawned, mpc, cpc>>
    PROVE  /\ cpc # "closed" /\ mpc # "returned" /\ NoSendOnClosed'
           /\ \A v \in Workers : v > spawned' => wpc'[v] = "none"
  BY DEF IInv, TypeOK, NoSendOnClosed, Progress, Step

\* The steps of a worker.
LEMMA WorkerInvStep ==
    ASSUME IInv, NEW w \in Workers, Worker(w)
    PROVE  Conservation' /\ Budget' /\ NoSendOnClosed' /\ Progress'
  <1> DEFINE P == Conservation' /\ Budget' /\ NoSendOnClosed' /\ Progress'
  <1> USE DEF IInv
  <1>0. Cardinality(InHand) \in Nat /\ Cardinality(Exited) \in Nat
    BY WorkersFinite DEF InHand, Exited
  <1>1. cfg.requests \in Nat
    BY DEF TypeOK
  <1>2. ASSUME DelayOver(w) \/ PollLive(w) \/ Paced(w) \/ BackoffOver(w) PROVE P
    <2>1. InHand' = InHand /\ Exited' = Exited
      BY <1>2, SetsStay DEF DelayOver, PollLive, Paced, BackoffOver, Step
    <2>2. NoSendOnClosed' /\ \A v \in Workers : v > spawned' => wpc'[v] = "none"
      BY <1>2, WorkerRunning DEF DelayOver, PollLive, Paced, BackoffOver
    <2> QED
      BY <1>2, <2>1, <2>2 DEF DelayOver, PollLive, Paced, BackoffOver, Conservation, Budget,
                              Progress, counters
  <1>3. ASSUME ExitOnDone(w) PROVE P
    <2>1. PICK from \in {"delay", "poll", "pace", "backoff"} : Step(w, from, "exited")
      BY <1>3 DEF ExitOnDone
    <2>2. Cardinality(Exited') = Cardinality(Exited) + 1
      BY <2>1, ExitedGrows
    <2>3. InHand' = InHand
      BY <2>1 DEF Step, InHand, TypeOK
    <2>4. NoSendOnClosed' /\ \A v \in Workers : v > spawned' => wpc'[v] = "none"
      BY <1>3, <2>1, WorkerRunning DEF ExitOnDone
    <2>5. Conservation'
      BY <1>0, <1>3, <2>2, <2>3 DEF ExitOnDone, Conservation, TypeOK, counters
    <2>6. Budget' /\ Progress'
      BY <1>3, <2>4 DEF ExitOnDone, Budget, Progress, counters
    <2> QED
      BY <2>4, <2>5, <2>6
  <1>4. ASSUME TakeTicket(w) PROVE P
    <2>1. Cardinality(InHand') = Cardinality(InHand) + 1
      BY <1>4, InHandGrows DEF TakeTicket
    <2>2. Exited' = Exited
      BY <1>4 DEF TakeTicket, Step, Exited, TypeOK
    <2>3. NoSendOnClosed' /\ \A v \in Workers : v > spawned' => wpc'[v] = "none"
      BY <1>4, WorkerRunning DEF TakeTicket
    <2>4. Conservation'
      BY <1>0, <1>4, <2>1, <2>2 DEF TakeTicket, Conservation, TypeOK
    <2>5. Budget'
      BY <1>1, <1>4 DEF TakeTicket, Budget, TypeOK
    <2>6. Progress'
      BY <1>1, <1>4, <2>2, <2>3 DEF TakeTicket, Progress, TypeOK
    <2> QED
      BY <2>3, <2>4, <2>5, <2>6
  <1>5. ASSUME NoTicket(w) PROVE P
    <2>1. Cardinality(Exited') = Cardinality(Exited) + 1 /\ Exited' = Exited \cup {w}
      BY <1>5, ExitedGrows DEF NoTicket
    <2>2. InHand' = InHand
      BY <1>5 DEF NoTicket, Step, InHand, TypeOK
    <2>3. NoSendOnClosed' /\ \A v \in Workers : v > spawned' => wpc'[v] = "none"
      BY <1>5, WorkerRunning DEF NoTicket
    <2>4. Conservation'
      BY <1>0, <1>5, <2>1, <2>2 DEF NoTicket, Conservation, TypeOK
    <2>5. Budget'
      BY <1>1, <1>5 DEF NoTicket, Budget, TypeOK
    <2>6. Progress'
      BY <1>1, <1>5, <2>3 DEF NoTicket, Progress, TypeOK
    <2> QED
      BY <2>3, <2>4, <2>5, <2>6
  <1>6. ASSUME RunnerReturns(w) PROVE P
    <2>1. InHand' = InHand /\ Exited' = Exited
      BY <1>6 DEF RunnerReturns, Step, InHand, Exited, TypeOK
    <2>2. NoSendOnClosed' /\ \A v \in Workers : v > spawned' => wpc'[v] = "none"
      BY <1>6, WorkerRunning DEF RunnerReturns
    <2> QED
      BY <1>6, <2>1, <2>2 DEF RunnerReturns, Conservation, Budget, Progress, counters
  <1>7. ASSUME Send(w) PROVE P
    <2>1. PICK to \in {"poll", "backoff"} : Step(w, "send", to)
      BY <1>7 DEF Send
    <2>2. Cardinality(InHand') = Cardinality(InHand) - 1
      BY <2>1, InHandShrinks
    <2>3. Exited' = Exited
      BY <2>1 DEF Step, Exited, TypeOK
    <2>4. /\ NoSendOnClosed' /\ mpc # "returned"
          /\ \A v \in Workers : v > spawned' => wpc'[v] = "none"
      BY <1>7, <2>1, WorkerRunning DEF Send
    <2>5. Conservation'
      BY <1>0, <1>7, <2>2, <2>3 DEF Send, Conservation, TypeOK
    <2>6. Budget' /\ Progress'
      BY <1>7, <2>3, <2>4 DEF Send, Budget, Progress
    <2> QED
      BY <2>4, <2>5, <2>6
  <1>8. ASSUME DropResult(w) PROVE P
    <2>1. Cardinality(InHand') = Cardinality(InHand) - 1
      BY <1>8, InHandShrinks DEF DropResult
    <2>2. Cardinality(Exited') = Cardinality(Exited) + 1
      BY <1>8, ExitedGrows DEF DropResult
    <2>3. NoSendOnClosed' /\ \A v \in Workers : v > spawned' => wpc'[v] = "none"
      BY <1>8, WorkerRunning DEF DropResult
    <2>4. Conservation'
      BY <1>0, <1>8, <2>1, <2>2 DEF DropResult, Conservation, TypeOK
    <2>5. Budget' /\ Progress'
      BY <1>8, <2>3 DEF DropResult, Budget, Progress
    <2> QED
      BY <2>3, <2>4, <2>5
  <1> HIDE DEF P
  <1>9. P
    BY <1>2, <1>3, <1>4, <1>5, <1>6, <1>7, <1>8 DEF Worker
  <1> QED
    BY <1>9 DEF P

\* The accounting, the budget and the closing protocol hold throughout a run.
THEOREM InvHolds == Spec => []IInv
  <1>1. IInv /\ [Next]_vars => IInv'
    BY TypeStep, MainInvStep, WorkerInvStep DEF IInv, Next, Deadline
  <1> QED
    BY InvInit, <1>1, PTL DEF Spec

\* Type correctness of the counters and program counters.
THEOREM TypeCorrect == Spec => []TypeOK
  BY InvHolds, PTL DEF IInv

\* No result is lost or counted twice, except one per worker at the end of a
\* run whose context is done.
THEOREM ConservationHolds == Spec => []Conservation
  BY InvHolds, PTL DEF IInv

\* Never more requests than configured.
THEOREM BudgetHolds == Spec => []Budget
  BY InvHolds, PTL DEF IInv

\* No send on a closed channel.
THEOREM ClosingSafe == Spec => []NoSendOnClosed
  BY InvHolds, PTL DEF IInv

\* An undisturbed run reports exactly cfg.Requests results.
THEOREM CompleteRunHolds == Spec => []CompleteRun
  <1>1. IInv => CompleteRun
    <2> SUFFICES ASSUME IInv, mpc = "returned", runCtx = "live"
                 PROVE  collected = cfg.requests /\ cfg.requests > 0
      BY DEF CompleteRun
    <2>1. \A w \in Workers : wpc[w] = "exited"
      BY DEF IInv, NoSendOnClosed, Progress
    <2>2. InHand = {} /\ 1 \in Exited
      BY <2>1 DEF InHand, Exited, Workers
    <2>3. Cardinality(InHand) = 0
      BY <2>2, FS_EmptySet
    <2>4. results = 0 /\ cfg.requests > 0 /\ issued > cfg.requests
      BY <2>2 DEF IInv, Progress
    <2>5. cfg.requests \in Nat /\ issued \in Nat
      BY DEF IInv, TypeOK
    <2>6. begun = cfg.requests
      BY <2>4, <2>5 DEF IInv, Budget
    <2>7. lost = 0
      BY DEF IInv, Conservation, TypeOK
    <2> QED
      BY <2>3, <2>4, <2>6, <2>7 DEF IInv, Conservation, TypeOK
  <1> QED
    BY <1>1, InvHolds, PTL

-----------------------------------------------------------------------------
(* The pacer.                                                              *)

USE IntervalAssumption, MaxTimeAssumption

Waiting(c) == pc[c] \in {"reserved", "sleep"}

\* The slot a call gets is an interval after every slot handed out before.
LEMMA ScheduledLater ==
    ASSUME SpacingInv
    PROVE  /\ Scheduled \in Nat /\ Scheduled > 0
           /\ \A i \in 1..Len(reserved) : reserved[i] + Interval <= Scheduled
  BY DEF SpacingInv, PacerTypeOK, Scheduled

LEMMA SpacingStep == SpacingInv /\ [PacerNext]_pacerVars => SpacingInv'
  <1> SUFFICES ASSUME SpacingInv, [PacerNext]_pacerVars PROVE SpacingInv'
    OBVIOUS
  <1>1. ASSUME NEW c \in Callers, Reserve(c) PROVE SpacingInv'
    <2>1. /\ Scheduled \in Nat /\ Interval \in Nat
          /\ \A i \in 1..Len(reserved) : reserved[i] + Interval <= Scheduled
      BY ScheduledLater
    <2>2. PacerTypeOK'
      BY <1>1, <2>1 DEF Reserve, SpacingInv, PacerTypeOK
    <2>3. /\ Len(reserved') = Len(reserved) + 1
          /\ reserved'[Len(reserved')] = Scheduled
          /\ \A i \in 1..Len(reserved) : reserved'[i] = reserved[i]
      BY <1>1, <2>1 DEF Reserve, SpacingInv, PacerTypeOK
    <2>4. Spacing'
      <3> SUFFICES ASSUME NEW i \in 1..Len(reserved'), NEW k \in 1..Len(reserved'), i < k
                   PROVE  reserved'[i] + Interval <= reserved'[k]
        BY DEF Spacing
      <3>0. Len(reserved) \in Nat
        BY DEF SpacingInv, PacerTypeOK
      <3>1. i \in 1..Len(reserved) /\ (k \in 1..Len(reserved) \/ k = Len(reserved'))
        BY <2>3, <3>0
      <3> QED
        BY <2>1, <2>3, <3>1 DEF SpacingInv, PacerTypeOK, Spacing
    <2>5. \A i \in 1..Len(reserved') : reserved'[i] + Interval <= next'
      BY <1>1, <2>1, <2>3 DEF Reserve, SpacingInv, PacerTypeOK
    <2> QED
      BY <2>2, <2>4, <2>5 DEF SpacingInv
  <1>2. ASSUME NEW c \in Callers, Due(c) \/ StartTimer(c) \/ TimerFires(c) \/ Abort(c)
        PROVE  SpacingInv'
    <2>1. UNCHANGED <<now, next, slot, ctx, reserved>>
      BY <1>2 DEF Due, StartTimer, TimerFires, Abort
    <2>2. \/ LetThrough(c) \/ Aborted(c)
          \/ pc' = [pc EXCEPT ![c] = "sleep"] /\ UNCHANGED used
      BY <1>2 DEF Due, StartTimer, TimerFires, Abort
    <2>3. pc' \in [Callers -> {"idle", "reserved", "sleep", "gone"}] /\ used' \subseteq Nat
      BY <2>2 DEF LetThrough, Aborted, SpacingInv, PacerTypeOK
    <2> QED
      BY <2>1, <2>3 DEF SpacingInv, PacerTypeOK, Spacing
  <1>3. ASSUME ContextDone PROVE SpacingInv'
    BY <1>3 DEF ContextDone, SpacingInv, PacerTypeOK, Spacing
  <1>4. ASSUME Tick PROVE SpacingInv'
    BY <1>4 DEF Tick, SpacingInv, PacerTypeOK, Spacing
  <1>5. ASSUME UNCHANGED pacerVars PROVE SpacingInv'
    BY <1>5 DEF pacerVars, SpacingInv, PacerTypeOK, Spacing
  <1> QED
    BY <1>1, <1>2, <1>3, <1>4, <1>5 DEF PacerNext

\* The inductive invariant of the slots.
LEMMA SpacingInvHolds == PacerSpec => []SpacingInv
  <1>1. PacerInit => SpacingInv
    BY DEF PacerInit, SpacingInv, PacerTypeOK, Spacing
  <1> QED
    BY <1>1, SpacingStep, PTL DEF PacerSpec

\* Every variable of the pacer keeps its type.
THEOREM PacerTypeCorrect == PacerSpec => []PacerTypeOK
  BY SpacingInvHolds, PTL DEF SpacingInv

\* No two calls of Wait ever get slots closer than the interval.
THEOREM SpacingHolds == PacerSpec => []Spacing
  BY SpacingInvHolds, PTL DEF SpacingInv

-----------------------------------------------------------------------------
\* Slots are as far apart as their numbers say, and so is the next one; who
\* waits has a slot, and who went through had one that had come.
RateInv ==
    /\ \A i, k \in 1..Len(reserved) : i <= k => reserved[i] + (k - i) * Interval <= reserved[k]
    /\ \A i \in 1..Len(reserved) : reserved[i] + (Len(reserved) + 1 - i) * Interval <= next
    /\ \A u \in used : u <= now /\ \E k \in 1..Len(reserved) : u = reserved[k]
    /\ \A c \in Callers : Waiting(c) => \E k \in 1..Len(reserved) : slot[c] = reserved[k]

\* The slots between now and the next one are held by callers that wait.
BacklogInv ==
    /\ \A c \in Callers : Waiting(c) => slot[c] + Interval <= next
    /\ ctx = "live" => \A k \in Nat \ {0} : now < next - k * Interval =>
          \E c \in Callers : Waiting(c) /\ slot[c] = next - k * Interval

LEMMA MoreTimes ==
    ASSUME NEW a \in Int, NEW b \in Int, a <= b
    PROVE  a * Interval <= b * Interval
  OBVIOUS

LEMMA FewerTimes ==
    ASSUME NEW a \in Int, NEW b \in Int, a * Interval <= b * Interval
    PROVE  a <= b
  <1> SUFFICES ASSUME b + 1 <= a PROVE FALSE
    OBVIOUS
  <1>1. (b + 1) * Interval <= a * Interval
    BY MoreTimes
  <1>2. (b + 1) * Interval = b * Interval + Interval
    OBVIOUS
  <1> QED
    BY <1>1, <1>2

LEMMA Quotient ==
    ASSUME NEW a \in Nat
    PROVE  /\ a \div Interval \in Nat /\ (a \div Interval) * Interval \in Nat
           /\ (a \div Interval) * Interval <= a
           /\ a < (a \div Interval) * Interval + Interval
  OBVIOUS

LEMMA RateStep == SpacingInv /\ RateInv /\ [PacerNext]_pacerVars => RateInv'
  <1> SUFFICES ASSUME SpacingInv, RateInv, [PacerNext]_pacerVars PROVE RateInv'
    OBVIOUS
  <1>0. PacerTypeOK
    BY DEF SpacingInv
  <1>1. ASSUME NEW c \in Callers, Reserve(c) PROVE RateInv'
    <2>1. Scheduled \in Nat /\ Interval \in Nat /\ next \in Nat /\ next <= Scheduled
      BY <1>0 DEF Scheduled, PacerTypeOK
    <2>2. /\ Len(reserved') = Len(reserved) + 1 /\ Len(reserved) \in Nat
          /\ reserved'[Len(reserved')] = Scheduled
          /\ \A i \in 1..Len(reserved) : reserved'[i] = reserved[i] /\ reserved[i] \in Nat
      BY <1>0, <1>1, <2>1 DEF Reserve, PacerTypeOK
    <2>3. next' = Scheduled + Interval
      BY <1>1 DEF Reserve
    <2>4. ASSUME NEW i \in 1..Len(reserved)
          PROVE  /\ reserved[i] + (Len(reserved') - i) * Interval <= Scheduled
                 /\ reserved[i] + (Len(reserved') + 1 - i) * Interval <= next'
      <3>1. reserved[i] + (Len(reserved) + 1 - i) * Interval <= Scheduled
        BY <2>1, <2>2 DEF RateInv
      <3>2. (Len(reserved') + 1 - i) * Interval = (Len(reserved) + 1 - i) * Interval + Interval
        BY <2>2
      <3> QED
        BY <2>1, <2>2, <2>3, <3>1, <3>2
    <2>5. ASSUME NEW i \in 1..Len(reserved'), NEW k \in 1..Len(reserved'), i <= k
          PROVE  reserved'[i] + (k - i) * Interval <= reserved'[k]
      <3>1. CASE k \in 1..Len(reserved)
        <4>1. i \in 1..Len(reserved)
          BY <2>2, <2>5, <3>1
        <4> QED
          BY <2>2, <2>5, <3>1, <4>1 DEF RateInv
      <3>2. CASE k = Len(reserved') /\ i \in 1..Len(reserved)
        BY <2>2, <2>4, <3>2
      <3>3. CASE k = Len(reserved') /\ i = k
        BY <2>1, <2>2, <3>3
      <3> QED
        BY <2>2, <2>5, <3>1, <3>2, <3>3
    <2>6. ASSUME NEW i \in 1..Len(reserved')
          PROVE  reserved'[i] + (Len(reserved') + 1 - i) * Interval <= next'
      <3>1. CASE i \in 1..Len(reserved)
        BY <2>2, <2>4, <3>1
      <3>2. CASE i = Len(reserved')
        BY <2>1, <2>2, <2>3, <3>2
      <3> QED
        BY <2>2, <3>1, <3>2
    <2>7. \A u \in used' : u <= now' /\ \E k \in 1..Len(reserved') : u = reserved'[k]
      BY <1>1, <2>2 DEF Reserve, RateInv
    <2>8. \A d \in Callers : Waiting(d)' => \E k \in 1..Len(reserved') : slot'[d] = reserved'[k]
      <3> SUFFICES ASSUME NEW d \in Callers, Waiting(d)'
                   PROVE  \E k \in 1..Len(reserved') : slot'[d] = reserved'[k]
        OBVIOUS
      <3>1. CASE d = c
        <4>1. slot'[d] = reserved'[Len(reserved')] /\ Len(reserved') \in 1..Len(reserved')
          BY <1>0, <1>1, <2>2, <3>1 DEF Reserve, PacerTypeOK
        <4> QED
          BY <4>1
      <3>2. CASE d # c
        <4>1. Waiting(d) /\ slot'[d] = slot[d]
          BY <1>0, <1>1, <3>2 DEF Reserve, PacerTypeOK, Waiting
        <4> QED
          BY <2>2, <4>1 DEF RateInv
      <3> QED
        BY <3>1, <3>2
    <2> QED
      BY <2>5, <2>6, <2>7, <2>8 DEF RateInv
  <1>2. ASSUME NEW c \in Callers, Due(c) \/ StartTimer(c) \/ TimerFires(c) \/ Abort(c)
        PROVE  RateInv'
    <2>1. UNCHANGED <<now, next, slot, ctx, reserved>>
      BY <1>2 DEF Due, StartTimer, TimerFires, Abort
    <2>2. Waiting(c)
      BY <1>2 DEF Due, StartTimer, TimerFires, Abort, Waiting
    <2>3. used' = used \/ (used' = used \cup {slot[c]} /\ slot[c] <= now)
      BY <1>0, <1>2 DEF Due, StartTimer, TimerFires, Abort, LetThrough, Aborted, PacerTypeOK
    <2>4. \A d \in Callers : Waiting(d)' => Waiting(d)
      <3> SUFFICES ASSUME NEW d \in Callers, d # c PROVE Waiting(d)' => Waiting(d)
        BY <2>2
      <3> QED
        BY <1>0, <1>2 DEF Due, StartTimer, TimerFires, Abort, LetThrough, Aborted, PacerTypeOK, Waiting
    <2> QED
      BY <2>1, <2>2, <2>3, <2>4 DEF RateInv
  <1>3. ASSUME ContextDone \/ Tick PROVE RateInv'
    <2>1. /\ UNCHANGED <<next, slot, pc, reserved, used>> /\ now <= now'
          /\ now \in Nat /\ now' \in Nat /\ used \subseteq Nat
      BY <1>0, <1>3 DEF ContextDone, Tick, PacerTypeOK
    <2>2. \A u \in used' : u <= now' /\ \E k \in 1..Len(reserved') : u = reserved'[k]
      <3> SUFFICES ASSUME NEW u \in used PROVE u <= now' /\ \E k \in 1..Len(reserved) : u = reserved[k]
        BY <2>1
      <3>1. u \in Nat /\ u <= now /\ \E k \in 1..Len(reserved) : u = reserved[k]
        BY <2>1 DEF RateInv
      <3> QED
        BY <2>1, <3>1
    <2> QED
      BY <2>1, <2>2 DEF RateInv, Waiting
  <1>4. ASSUME UNCHANGED pacerVars PROVE RateInv'
    BY <1>4 DEF pacerVars, RateInv, Waiting
  <1> QED
    BY <1>1, <1>2, <1>3, <1>4 DEF PacerNext
LEMMA PlacesCounted ==
    ASSUME NEW a \in Int, NEW b \in Nat
    PROVE  IsFiniteSet(a..(a + b)) /\ Cardinality(a..(a + b)) = b + 1
  <1>1. a + b \in Int /\ ~(a > a + b) /\ a + b - a + 1 = b + 1
    OBVIOUS
  <1>2. /\ IsFiniteSet(a..(a + b))
        /\ Cardinality(a..(a + b)) = IF a > a + b THEN 0 ELSE a + b - a + 1
    BY <1>1, FS_Interval
  <1> QED
    BY <1>1, <1>2

\* No more callers went through than intervals have started.
LEMMA RateCapped == SpacingInv /\ RateInv => RateCap
  <1> SUFFICES ASSUME SpacingInv, RateInv, NEW i \in 1..Len(reserved),
                      Cardinality({s \in used : s >= reserved[i]}) > 0
               PROVE  (Cardinality({s \in used : s >= reserved[i]}) - 1) * Interval
                        <= now - reserved[i]
    BY DEF RateCap
  <1> DEFINE through == {s \in used : s >= reserved[i]}
             span == (now - reserved[i]) \div Interval
             place == [s \in through |-> CHOOSE k \in i..(i + span) : reserved[k] = s]
  <1>0. /\ reserved \in Seq(Nat) /\ reserved[i] \in Nat /\ i \in Nat /\ used \subseteq Nat
        /\ now \in Nat /\ Interval \in Nat \ {0}
    BY DEF SpacingInv, PacerTypeOK
  <1>1. through # {}
    BY FS_EmptySet
  <1>2. reserved[i] <= now
    <2>1. PICK s \in used : s >= reserved[i]
      BY <1>1
    <2>2. s <= now /\ s \in Nat
      BY <1>0 DEF RateInv
    <2> QED
      BY <1>0, <2>1, <2>2
  <1>3. /\ span \in Nat /\ span * Interval \in Nat
        /\ span * Interval <= now - reserved[i]
        /\ now - reserved[i] < span * Interval + Interval
    <2>1. now - reserved[i] \in Nat
      BY <1>0, <1>2
    <2> QED
      BY <1>0, <2>1, Quotient
  <1> HIDE DEF span
  <1>4. ASSUME NEW s \in through PROVE \E k \in i..(i + span) : reserved[k] = s
    <2>1. PICK k \in 1..Len(reserved) : s = reserved[k]
      BY DEF RateInv
    <2>2. s <= now /\ s >= reserved[i] /\ s \in Nat /\ k \in Nat
      BY <1>0 DEF RateInv
    <2>3. i <= k
      <3> SUFFICES ASSUME k < i PROVE FALSE
        BY <1>0, <2>2
      <3>1. reserved[k] + Interval <= reserved[i]
        BY DEF SpacingInv, Spacing
      <3> QED
        BY <1>0, <2>1, <2>2, <3>1
    <2>4. reserved[i] + (k - i) * Interval <= reserved[k]
      BY <2>3 DEF RateInv
    <2>5. k - i <= span
      <3> SUFFICES ASSUME span + 1 <= k - i PROVE FALSE
        BY <1>0, <1>3, <2>2
      <3>1. (span + 1) * Interval <= (k - i) * Interval
        <4>1. span + 1 \in Int /\ k - i \in Int
          BY <1>0, <1>3, <2>2
        <4> QED
          BY <4>1, MoreTimes
      <3>2. (k - i) * Interval \in Int /\ (span + 1) * Interval = span * Interval + Interval
        BY <1>0, <1>3, <2>2
      <3>3. reserved[i] + (k - i) * Interval <= now
        BY <1>0, <2>1, <2>2, <2>4, <3>2
      <3> QED
        <4> DEFINE between == (k - i) * Interval
                   whole == span * Interval
        <4>1. /\ between \in Int /\ whole \in Nat
              /\ whole + Interval <= between /\ now - reserved[i] < whole + Interval
              /\ reserved[i] + between <= now
          BY <1>3, <3>1, <3>2, <3>3
        <4> HIDE DEF between, whole
        <4> QED
          BY <1>0, <4>1
    <2> QED
      BY <1>0, <1>3, <2>1, <2>2, <2>3, <2>5
  <1>5. place \in Injection(through, i..(i + span))
    <2>1. \A s \in through : place[s] \in i..(i + span) /\ reserved[place[s]] = s
      BY <1>4
    <2> HIDE DEF place
    <2>2. place \in [through -> i..(i + span)]
      BY <2>1 DEF place
    <2> QED
      BY <2>1, <2>2, Fun_IsInj
  <1>6. Cardinality(through) <= span + 1 /\ Cardinality(through) \in Nat
    <2>1. IsFiniteSet(i..(i + span)) /\ Cardinality(i..(i + span)) = span + 1
      <3>1. i \in Int
        BY <1>0
      <3> QED
        BY <1>3, <3>1, PlacesCounted
    <2>2. IsFiniteSet(through) /\ Cardinality(through) <= Cardinality(i..(i + span))
      BY <1>5, <2>1, FS_Injection
    <2> QED
      BY <2>1, <2>2, FS_CardinalityType
  <1> HIDE DEF through
  <1>7. (Cardinality(through) - 1) * Interval <= span * Interval
    <2>1. Cardinality(through) - 1 \in Int /\ Cardinality(through) - 1 <= span
      BY <1>3, <1>6
    <2> QED
      BY <1>3, <2>1, MoreTimes
  <1>8. (Cardinality(through) - 1) * Interval <= now - reserved[i]
    <2>1. (Cardinality(through) - 1) * Interval \in Int
      BY <1>0, <1>6
    <2> QED
      BY <1>0, <1>3, <1>7, <2>1
  <1> QED
    BY <1>8 DEF through
\* The cap on requests per second holds from any slot until any moment.
THEOREM RateCapHolds == PacerSpec => []RateCap
  <1>1. PacerInit => RateInv
    BY DEF PacerInit, RateInv, Waiting
  <1> QED
    BY <1>1, SpacingInvHolds, RateStep, RateCapped, PTL DEF PacerSpec

-----------------------------------------------------------------------------
LEMMA BacklogStep == SpacingInv /\ BacklogInv /\ [PacerNext]_pacerVars => BacklogInv'
  <1> SUFFICES ASSUME SpacingInv, BacklogInv, [PacerNext]_pacerVars PROVE BacklogInv'
    OBVIOUS
  <1>0. PacerTypeOK
    BY DEF SpacingInv
  <1>1. ASSUME NEW c \in Callers, Reserve(c) PROVE BacklogInv'
    <2>1. /\ Scheduled \in Nat /\ next \in Nat /\ now \in Nat /\ next <= Scheduled
          /\ now < Scheduled => Scheduled = next
      BY <1>0 DEF Scheduled, PacerTypeOK
    <2>2. /\ next' = Scheduled + Interval /\ now' = now /\ ctx' = ctx
          /\ Waiting(c)' /\ slot'[c] = Scheduled /\ ~Waiting(c)
      BY <1>0, <1>1 DEF Reserve, PacerTypeOK, Waiting
    <2>3. ASSUME NEW d \in Callers, d # c
          PROVE  (Waiting(d)' <=> Waiting(d)) /\ slot'[d] = slot[d] /\ slot[d] \in Nat
      BY <1>0, <1>1, <2>3 DEF Reserve, PacerTypeOK, Waiting
    <2>4. ASSUME NEW d \in Callers, Waiting(d)' PROVE slot'[d] + Interval <= next'
      <3>1. CASE d = c
        BY <2>1, <2>2, <3>1
      <3>2. CASE d # c
        <4>1. slot[d] + Interval <= next
          BY <2>3, <2>4, <3>2 DEF BacklogInv
        <4> QED
          BY <2>1, <2>2, <2>3, <3>2, <4>1
      <3> QED
        BY <3>1, <3>2
    <2>5. ASSUME ctx = "live", NEW k \in Nat \ {0}, now < next' - k * Interval
          PROVE  \E d \in Callers : Waiting(d)' /\ slot'[d] = next' - k * Interval
      <3>1. CASE k = 1
        BY <2>1, <2>2, <3>1
      <3>2. CASE k # 1
        <4>1. k - 1 \in Nat \ {0} /\ k * Interval = (k - 1) * Interval + Interval
              /\ (k - 1) * Interval \in Nat
          BY <3>2
        <4>2. now < Scheduled - (k - 1) * Interval
          BY <2>1, <2>2, <2>5, <4>1
        <4>3. Scheduled = next
          BY <2>1, <4>1, <4>2
        <4>4. PICK d \in Callers : Waiting(d) /\ slot[d] = next - (k - 1) * Interval
          BY <2>5, <4>1, <4>2, <4>3 DEF BacklogInv
        <4>5. Waiting(d)' /\ slot'[d] = slot[d]
          BY <2>2, <2>3, <4>4
        <4> QED
          BY <2>1, <2>2, <4>1, <4>3, <4>4, <4>5
      <3> QED
        BY <3>1, <3>2
    <2> QED
      BY <2>2, <2>4, <2>5 DEF BacklogInv
  <1>2. ASSUME NEW c \in Callers, Due(c) \/ StartTimer(c) \/ TimerFires(c) \/ Abort(c)
        PROVE  BacklogInv'
    <2>1. UNCHANGED <<now, next, slot, ctx, reserved>>
      BY <1>2 DEF Due, StartTimer, TimerFires, Abort
    <2>2. \A d \in Callers : Waiting(d)' => Waiting(d)
      <3> SUFFICES ASSUME NEW d \in Callers, d # c PROVE Waiting(d)' => Waiting(d)
        BY <1>2 DEF Due, StartTimer, TimerFires, Abort, Waiting
      <3> QED
        BY <1>0, <1>2 DEF Due, StartTimer, TimerFires, Abort, LetThrough, Aborted, PacerTypeOK, Waiting
    <2>3. ASSUME ctx = "live", NEW d \in Callers, Waiting(d), now < slot[d] PROVE Waiting(d)'
      <3>1. ~Abort(c) /\ (Due(c) \/ TimerFires(c) => slot[c] <= now)
        BY <2>3 DEF Abort, Due, TimerFires
      <3>2. Due(c) \/ TimerFires(c) => c # d
        BY <1>0, <2>3, <3>1 DEF PacerTypeOK
      <3> QED
        BY <1>0, <1>2, <2>3, <3>1, <3>2
        DEF Due, StartTimer, TimerFires, LetThrough, Aborted, PacerTypeOK, Waiting
    <2>4. ASSUME ctx = "live", NEW k \in Nat \ {0}, now < next - k * Interval
          PROVE  \E d \in Callers : Waiting(d)' /\ slot[d] = next - k * Interval
      <3>1. PICK d \in Callers : Waiting(d) /\ slot[d] = next - k * Interval
        BY <2>4 DEF BacklogInv
      <3> QED
        BY <2>3, <2>4, <3>1
    <2> QED
      BY <2>1, <2>2, <2>4 DEF BacklogInv
  <1>3. ASSUME Tick PROVE BacklogInv'
    <2>1. /\ UNCHANGED <<next, slot, pc, ctx>> /\ now' = now + 1 /\ now \in Nat /\ next \in Nat
      BY <1>0, <1>3 DEF Tick, PacerTypeOK
    <2>2. ASSUME ctx = "live", NEW k \in Nat \ {0}, now' < next - k * Interval
          PROVE  \E d \in Callers : Waiting(d) /\ slot[d] = next - k * Interval
      <3>1. k * Interval \in Nat
        OBVIOUS
      <3>2. now < next - k * Interval
        BY <2>1, <2>2, <3>1
      <3> QED
        BY <2>2, <3>2 DEF BacklogInv
    <2> QED
      BY <2>1, <2>2 DEF BacklogInv, Waiting
  <1>4. ASSUME ContextDone PROVE BacklogInv'
    BY <1>4 DEF ContextDone, BacklogInv, Waiting
  <1>5. ASSUME UNCHANGED pacerVars PROVE BacklogInv'
    BY <1>5 DEF pacerVars, BacklogInv, Waiting
  <1> QED
    BY <1>1, <1>2, <1>3, <1>4, <1>5 DEF PacerNext

\* The slots ahead of a caller are held by callers, one each.
LEMMA WaitBounded == SpacingInv /\ BacklogInv => BoundedWait
  <1> SUFFICES ASSUME SpacingInv, BacklogInv, ctx = "live", NEW c \in Callers, Waiting(c)
               PROVE  slot[c] - now <= Cardinality(Callers) * Interval
    BY DEF BoundedWait, Waiting
  <1> DEFINE ahead == (next - now - 1) \div Interval
             holder == [k \in 1..ahead |->
                          CHOOSE d \in Callers : Waiting(d) /\ slot[d] = next - k * Interval]
  <1>0. /\ now \in Nat /\ next \in Nat /\ slot[c] \in Nat /\ Interval \in Nat \ {0}
        /\ slot[c] + Interval <= next
    BY DEF SpacingInv, PacerTypeOK, BacklogInv
  <1>1. IsFiniteSet(Callers) /\ Cardinality(Callers) \in Nat
        /\ 0 <= Cardinality(Callers) * Interval
    <2>1. Cardinality(Callers) \in Nat
      BY CallersAssumption, FS_CardinalityType
    <2> QED
      BY <2>1, <1>0, CallersAssumption
  <1>2. CASE slot[c] <= now
    BY <1>0, <1>1, <1>2
  <1>3. CASE now < slot[c]
    <2>1. /\ ahead \in Nat
          /\ ahead * Interval <= next - now - 1
          /\ next - now - 1 < ahead * Interval + Interval
      BY <1>0, <1>3
    <2> HIDE DEF ahead
    <2>2. ASSUME NEW k \in 1..ahead
          PROVE  \E d \in Callers : Waiting(d) /\ slot[d] = next - k * Interval
      <3>1. k \in Nat \ {0} /\ k * Interval <= ahead * Interval /\ k * Interval \in Nat
        BY <1>0, <2>1, MoreTimes
      <3>2. now < next - k * Interval
        BY <1>0, <2>1, <3>1
      <3> QED
        BY <3>1, <3>2 DEF BacklogInv
    <2>3. \A k \in 1..ahead : holder[k] \in Callers /\ slot[holder[k]] = next - k * Interval
      BY <2>2
    <2> HIDE DEF holder
    <2>4. holder \in Injection(1..ahead, Callers)
      <3>1. holder \in [1..ahead -> Callers]
        BY <2>3 DEF holder
      <3>2. ASSUME NEW k \in 1..ahead, NEW m \in 1..ahead, holder[k] = holder[m] PROVE k = m
        <4>1. k \in Int /\ m \in Int /\ k * Interval \in Int /\ m * Interval \in Int
          BY <1>0, <2>1
        <4>2. next - k * Interval = next - m * Interval
          BY <2>3, <3>2
        <4>3. k * Interval = m * Interval
          BY <1>0, <4>1, <4>2
        <4>4. k <= m /\ m <= k
          BY <4>1, <4>3, FewerTimes
        <4> QED
          BY <4>1, <4>4
      <3> QED
        BY <3>1, <3>2, Fun_IsInj
    <2>5. ahead <= Cardinality(Callers)
      <3>1. Cardinality(1..ahead) = ahead
        BY <2>1, FS_Interval
      <3>2. Cardinality(1..ahead) <= Cardinality(Callers)
        BY <1>1, <2>4, FS_Injection
      <3> QED
        BY <3>1, <3>2
    <2>6. ahead * Interval <= Cardinality(Callers) * Interval
      BY <1>1, <2>1, <2>5, MoreTimes
    <2> QED
      BY <1>0, <1>1, <2>1, <2>6
  <1> QED
    BY <1>0, <1>2, <1>3

\* While the context is live nobody waits longer than an interval per worker.
THEOREM BoundedWaitHolds == PacerSpec => []BoundedWait
  <1>1. PacerInit => BacklogInv
    <2> SUFFICES ASSUME PacerInit PROVE BacklogInv
      OBVIOUS
    <2>1. \A c \in Callers : ~Waiting(c)
      BY DEF PacerInit, Waiting
    <2>2. ASSUME NEW k \in Nat \ {0} PROVE ~(now < next - k * Interval)
      <3>1. k * Interval \in Nat
        OBVIOUS
      <3> QED
        BY <3>1 DEF PacerInit
    <2> QED
      BY <2>1, <2>2 DEF BacklogInv
  <1> QED
    BY <1>1, SpacingInvHolds, BacklogStep, WaitBounded, PTL DEF PacerSpec
=============================================================================
