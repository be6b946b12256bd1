--------------------------- MODULE JobQueueProofs ---------------------------
(***************************************************************************)
(* The safety invariants of JobQueue hold for any supply of jobs, any      *)
(* bound of the queue and any number of slots, and JobQueue implements     *)
(* JobLifecycle.                                                           *)
(***************************************************************************)
EXTENDS JobQueue, TLAPS, FiniteSetTheorems

USE MaxJobsAssumption, MaxConcurrentAssumption

\* What appending an id to q.order does to its positions.
LEMMA AppendPositions ==
    ASSUME NEW S, NEW s \in Seq(S), NEW e \in S
    PROVE  /\ Append(s, e) \in Seq(S)
           /\ Len(Append(s, e)) = Len(s) + 1
           /\ \A i \in 1..Len(s) : Append(s, e)[i] = s[i]
           /\ Append(s, e)[Len(s) + 1] = e
  OBVIOUS

-----------------------------------------------------------------------------
(* The set of goroutines that hold a slot, and its cardinality.            *)

LEMMA LiveGrows ==
    ASSUME TypeOK, IsFiniteSet(Live), NEW j \in Jobs, gpc[j] = "none",
           gpc' = [gpc EXCEPT ![j] = "run"]
    PROVE  /\ IsFiniteSet(Live')
           /\ Cardinality(Live') = Cardinality(Live) + 1
  <1>1. Live' = Live \cup {j} /\ j \notin Live
    BY DEF TypeOK, Live
  <1> QED
    BY <1>1, FS_AddElement

LEMMA LiveShrinks ==
    ASSUME TypeOK, IsFiniteSet(Live), NEW j \in Jobs, gpc[j] = "release",
           gpc' = [gpc EXCEPT ![j] = "done"]
    PROVE  /\ IsFiniteSet(Live')
           /\ Cardinality(Live') = Cardinality(Live) - 1
           /\ Cardinality(Live) \in Nat \ {0}
  <1>1. Live' = Live \ {j} /\ j \in Live
    BY DEF TypeOK, Live
  <1>2. Cardinality(Live) \in Nat /\ Cardinality(Live) # 0
    BY <1>1, FS_CardinalityType, FS_EmptySet
  <1> QED
    BY <1>1, <1>2, FS_RemoveElement

LEMMA LiveStays ==
    ASSUME TypeOK, NEW j \in Jobs, j \in Live,
           NEW next \in {"run", "complete", "fail", "release"},
           gpc' = [gpc EXCEPT ![j] = next]
    PROVE  Live' = Live
  BY DEF TypeOK, Live

-----------------------------------------------------------------------------
(* The inductive invariant.                                                *)

LEMMA InvInit == Init => IInv
  <1> SUFFICES ASSUME Init PROVE IInv
    OBVIOUS
  <1>1. TypeOK
    BY DEF Init, TypeOK, JobStatus
  <1>2. Live = {} /\ IsFiniteSet(Live) /\ Cardinality(Live) = 0
    BY FS_EmptySet DEF Init, Live
  <1>3. SlotAccounting
    BY <1>2 DEF Init, SlotAccounting, Holding
  <1>4. RunningOwned /\ FIFOStart /\ CancelReachesRun /\ NoLostWakeup
    BY DEF Init, RunningOwned, FIFOStart, CancelReachesRun, NoLostWakeup
  <1>5. OrderAgrees /\ StatusAgrees
    BY DEF Init, OrderAgrees, StatusAgrees
  <1> QED
    BY <1>1, <1>2, <1>3, <1>4, <1>5 DEF IInv

\* Slots: every step that starts or ends a goroutine moves sem with it.
LEMMA SlotStep ==
    ASSUME IInv, [Next]_vars
    PROVE  IsFiniteSet(Live') /\ SlotAccounting'
  <1> DEFINE P == IsFiniteSet(Live') /\ SlotAccounting'
  <1> USE DEF IInv
  <1>0. Cardinality(Live) \in Nat
    BY FS_CardinalityType
  <1>1. ASSUME gpc' = gpc, sem' = sem, Holding' = Holding PROVE P
    BY <1>1 DEF SlotAccounting, Live
  <1>2. ASSUME UNCHANGED vars PROVE P
    BY <1>1, <1>2 DEF vars, Holding
  <1>3. ASSUME NEW j \in Jobs, Enqueue(j) \/ Cancel(j) PROVE P
    BY <1>1, <1>3 DEF Enqueue, Cancel, Holding
  <1>4. ASSUME Poll \/ AcquireAborted \/ DequeueNone \/ DequeueWoken PROVE P
    BY <1>1, <1>4 DEF Poll, AcquireAborted, DequeueNone, DequeueWoken, Holding
  <1>5. ASSUME AcquireSlot PROVE P
    BY <1>0, <1>5 DEF AcquireSlot, SlotAccounting, Holding, Live
  <1>6. ASSUME NEW i \in 1..Len(order), DequeueJob(i) PROVE P
    <2>1. order[i] \in Jobs /\ gpc[order[i]] = "none"
      BY <1>6 DEF DequeueJob, FirstPending, TypeOK, StatusAgrees
    <2>2. IsFiniteSet(Live') /\ Cardinality(Live') = Cardinality(Live) + 1
      BY <1>6, <2>1, LiveGrows DEF DequeueJob
    <2> QED
      BY <1>0, <1>6, <2>2 DEF DequeueJob, SlotAccounting, Holding
  <1>7. ASSUME DequeueAborted PROVE P
    BY <1>0, <1>7 DEF DequeueAborted, SlotAccounting, Holding, Live
  <1>8. ASSUME NEW j \in Jobs, RunReturns(j) \/ Complete(j) \/ Fail(j) PROVE P
    <2>1. Live' = Live
      BY <1>8, LiveStays DEF RunReturns, Complete, Fail, SetResult, Live
    <2> QED
      BY <1>8, <2>1 DEF RunReturns, Complete, Fail, SetResult, SlotAccounting, Holding
  <1>9. ASSUME NEW j \in Jobs, ReleaseSlot(j) PROVE P
    <2>1. /\ IsFiniteSet(Live') /\ Cardinality(Live') = Cardinality(Live) - 1
          /\ Cardinality(Live) \in Nat \ {0}
      BY <1>9, LiveShrinks DEF ReleaseSlot
    <2> QED
      BY <1>9, <2>1 DEF ReleaseSlot, SlotAccounting, Holding
  <1>10. ASSUME Signal \/ Stop \/ Exit PROVE P
    BY <1>1, <1>10 DEF Signal, Stop, Exit, MainStep, Holding
  <1> HIDE DEF P
  <1>11. P
    BY <1>2, <1>3, <1>4, <1>5, <1>6, <1>7, <1>8, <1>9, <1>10
    DEF Next, API, Processor, JobGoroutine, Main
  <1> QED
    BY <1>11 DEF P

\* q.order and the statuses.
LEMMA TypeStep ==
    ASSUME IInv, [Next]_vars
    PROVE  TypeOK'
  <1> USE DEF IInv
  <1>0. Cardinality(Live) \in Nat
    BY FS_CardinalityType
  <1>1. ASSUME UNCHANGED vars PROVE TypeOK'
    BY <1>1 DEF vars, queueVars, TypeOK
  <1>2. ASSUME NEW j \in Jobs, Enqueue(j) PROVE TypeOK'
    BY <1>2, AppendPositions DEF Enqueue, TypeOK, JobStatus
  <1>3. ASSUME NEW j \in Jobs, Cancel(j) PROVE TypeOK'
    BY <1>3 DEF Cancel, TypeOK, JobStatus, Terminal
  <1>4. ASSUME Poll \/ AcquireAborted \/ DequeueNone \/ DequeueWoken \/ AcquireSlot
        PROVE TypeOK'
    BY <1>4 DEF Poll, AcquireAborted, DequeueNone, DequeueWoken, AcquireSlot, TypeOK, queueVars
  <1>5. ASSUME NEW i \in 1..Len(order), DequeueJob(i) PROVE TypeOK'
    BY <1>5 DEF DequeueJob, TypeOK, JobStatus
  <1>6. ASSUME DequeueAborted PROVE TypeOK'
    BY <1>0, <1>6 DEF DequeueAborted, TypeOK, SlotAccounting, Holding, queueVars
  <1>7. ASSUME NEW j \in Jobs, RunReturns(j) PROVE TypeOK'
    BY <1>7 DEF RunReturns, TypeOK, queueVars
  <1>8. ASSUME NEW j \in Jobs, Complete(j) \/ Fail(j) PROVE TypeOK'
    BY <1>8 DEF Complete, Fail, SetResult, TypeOK, JobStatus, Terminal
  <1>9. ASSUME NEW j \in Jobs, ReleaseSlot(j) PROVE TypeOK'
    <2>1. Cardinality(Live) \in Nat \ {0}
      BY <1>9, LiveShrinks DEF ReleaseSlot
    <2>2. sem \in Nat \ {0}
      BY <2>1 DEF SlotAccounting, TypeOK
    <2> QED
      BY <1>9, <2>2 DEF ReleaseSlot, TypeOK, queueVars
  <1>10. ASSUME Signal \/ Stop \/ Exit PROVE TypeOK'
    BY <1>10 DEF Signal, Stop, Exit, MainStep, TypeOK, queueVars
  <1> QED
    BY <1>1, <1>2, <1>3, <1>4, <1>5, <1>6, <1>7, <1>8, <1>9, <1>10
    DEF Next, API, Processor, JobGoroutine, Main

\* The agreement of q.order, the statuses and the goroutines.
LEMMA AgreementStep ==
    ASSUME IInv, [Next]_vars
    PROVE  OrderAgrees' /\ StatusAgrees' /\ RunningOwned'
  <1> DEFINE P == OrderAgrees' /\ StatusAgrees' /\ RunningOwned'
  <1> USE DEF IInv
  <1>1. ASSUME UNCHANGED <<status, order, startedAt, cancelFn, gpc>> PROVE P
    BY <1>1 DEF OrderAgrees, StatusAgrees, RunningOwned
  <1>2. ASSUME NEW j \in Jobs, Enqueue(j) PROVE P
    <2>1. \A i \in 1..Len(order) : order[i] # j
      BY <1>2 DEF Enqueue, FreshId, OrderAgrees
    <2>2. OrderAgrees'
      BY <1>2, <2>1, AppendPositions DEF Enqueue, OrderAgrees, TypeOK
    <2>3. StatusAgrees' /\ RunningOwned'
      BY <1>2 DEF Enqueue, FreshId, StatusAgrees, RunningOwned, TypeOK
    <2> QED
      BY <2>2, <2>3
  <1>3. ASSUME NEW j \in Jobs, Cancel(j) PROVE P
    <2>1. OrderAgrees'
      BY <1>3 DEF Cancel, OrderAgrees, TypeOK
    <2>2. StatusAgrees'
      BY <1>3 DEF Cancel, StatusAgrees, TypeOK
    <2>3. RunningOwned'
      BY <1>3 DEF Cancel, RunningOwned, TypeOK
    <2> QED
      BY <2>1, <2>2, <2>3
  <1>4. ASSUME Poll \/ AcquireAborted \/ DequeueNone \/ DequeueWoken \/ AcquireSlot
               \/ DequeueAborted \/ Signal \/ Stop \/ Exit
        PROVE P
    BY <1>1, <1>4 DEF Poll, AcquireAborted, DequeueNone, DequeueWoken, AcquireSlot,
                      DequeueAborted, Signal, Stop, Exit, MainStep, queueVars
  <1>5. ASSUME NEW i \in 1..Len(order), DequeueJob(i) PROVE P
    <2>1. order[i] \in Jobs /\ \A k \in 1..Len(order) : order[k] \in Jobs
      BY DEF TypeOK
    <2>2. OrderAgrees'
      BY <1>5, <2>1 DEF DequeueJob, FirstPending, OrderAgrees, TypeOK
    <2>3. StatusAgrees'
      BY <1>5, <2>1 DEF DequeueJob, StatusAgrees, TypeOK
    <2>4. RunningOwned'
      BY <1>5, <2>1 DEF DequeueJob, RunningOwned, TypeOK
    <2> QED
      BY <2>2, <2>3, <2>4
  <1>6. ASSUME NEW j \in Jobs, RunReturns(j) PROVE P
    <2>1. OrderAgrees'
      BY <1>6 DEF RunReturns, OrderAgrees, TypeOK, queueVars
    <2>2. StatusAgrees'
      BY <1>6 DEF RunReturns, StatusAgrees, TypeOK, queueVars
    <2>3. RunningOwned'
      BY <1>6 DEF RunReturns, RunningOwned, TypeOK, queueVars
    <2> QED
      BY <2>1, <2>2, <2>3
  <1>7. ASSUME NEW j \in Jobs, Complete(j) \/ Fail(j) PROVE P
    <2>1. UNCHANGED <<order, startedAt, cancelFn>>
      BY <1>7 DEF Complete, Fail, SetResult
    <2>2. /\ \A k \in Jobs \ {j} : status'[k] = status[k] /\ gpc'[k] = gpc[k]
          /\ status'[j] \in Terminal /\ gpc'[j] = "release"
      BY <1>7 DEF Complete, Fail, SetResult, Terminal, TypeOK
    <2>3. status[j] # "absent" /\ \A i \in 1..Len(order) : order[i] \in Jobs
      BY <1>7 DEF Complete, Fail, StatusAgrees, TypeOK
    <2>4. OrderAgrees'
      BY <2>1, <2>2, <2>3 DEF OrderAgrees, Terminal
    <2>5. StatusAgrees' /\ RunningOwned'
      BY <2>1, <2>2 DEF StatusAgrees, RunningOwned, Terminal, TypeOK
    <2> QED
      BY <2>4, <2>5
  <1>8. ASSUME NEW j \in Jobs, ReleaseSlot(j) PROVE P
    <2>1. OrderAgrees'
      BY <1>8 DEF ReleaseSlot, OrderAgrees, TypeOK, queueVars
    <2>2. StatusAgrees'
      BY <1>8 DEF ReleaseSlot, StatusAgrees, TypeOK, queueVars
    <2>3. RunningOwned'
      BY <1>8 DEF ReleaseSlot, RunningOwned, TypeOK, queueVars
    <2> QED
      BY <2>1, <2>2, <2>3
  <1>9. ASSUME UNCHANGED vars PROVE P
    BY <1>1, <1>9 DEF vars, queueVars
  <1> HIDE DEF P
  <1>10. P
    BY <1>2, <1>3, <1>4, <1>5, <1>6, <1>7, <1>8, <1>9
    DEF Next, API, Processor, JobGoroutine, Main
  <1> QED
    BY <1>10 DEF P

\* Start order, cancellation and wake-ups.
LEMMA QueueStep ==
    ASSUME IInv, [Next]_vars
    PROVE  FIFOStart' /\ CancelReachesRun' /\ NoLostWakeup'
  <1> DEFINE P == FIFOStart' /\ CancelReachesRun' /\ NoLostWakeup'
  <1> USE DEF IInv
  <1>1. ASSUME UNCHANGED <<status, order, startedAt, jobCtx, notEmpty, dpc>> PROVE P
    BY <1>1 DEF FIFOStart, CancelReachesRun, NoLostWakeup
  <1>2. ASSUME NEW j \in Jobs, Enqueue(j) PROVE P
    <2>1. j \notin startedAt
      BY <1>2 DEF Enqueue, FreshId, StatusAgrees
    <2>2. \A i \in 1..Len(order) : order[i] # j
      BY <1>2 DEF Enqueue, FreshId, OrderAgrees
    <2>3. /\ Len(order') = Len(order) + 1 /\ order'[Len(order) + 1] = j
          /\ \A i \in 1..Len(order) : order'[i] = order[i] /\ order[i] \in Jobs
      BY <1>2, AppendPositions DEF Enqueue, TypeOK
    <2>4. \A i \in 1..Len(order) : status'[order[i]] = status[order[i]]
      BY <1>2, <2>2 DEF Enqueue, TypeOK
    <2>5. FIFOStart'
      <3> SUFFICES ASSUME NEW i \in 1..Len(order'), NEW k \in 1..Len(order'),
                          i < k, order'[k] \in startedAt'
                   PROVE  status'[order'[i]] # "pending"
        BY DEF FIFOStart
      <3>1. k # Len(order) + 1
        BY <1>2, <2>1, <2>3 DEF Enqueue
      <3>2. i \in 1..Len(order) /\ k \in 1..Len(order)
        BY <2>3, <3>1 DEF TypeOK
      <3> QED
        BY <1>2, <2>3, <2>4, <3>2 DEF Enqueue, FIFOStart
    <2>6. CancelReachesRun' /\ NoLostWakeup'
      BY <1>2 DEF Enqueue, FreshId, CancelReachesRun, NoLostWakeup, TypeOK
    <2> QED
      BY <2>5, <2>6
  <1>3. ASSUME NEW j \in Jobs, Cancel(j) PROVE P
    BY <1>3 DEF Cancel, FIFOStart, CancelReachesRun, NoLostWakeup, StatusAgrees, TypeOK
  <1>4. ASSUME Poll \/ AcquireAborted \/ AcquireSlot \/ DequeueWoken \/ DequeueAborted PROVE P
    BY <1>4 DEF Poll, AcquireAborted, AcquireSlot, DequeueWoken, DequeueAborted, queueVars,
                FIFOStart, CancelReachesRun, NoLostWakeup
  <1>5. ASSUME NEW i \in 1..Len(order), DequeueJob(i) PROVE P
    <2>1. \A k \in 1..Len(order) : order[k] = order[i] => k = i
      BY DEF OrderAgrees
    <2>2. \A k \in 1..Len(order) : order[k] \in Jobs
      BY DEF TypeOK
    <2>3. FIFOStart'
      BY <1>5, <2>1, <2>2 DEF DequeueJob, FirstPending, FIFOStart, TypeOK
    <2>4. CancelReachesRun' /\ NoLostWakeup'
      BY <1>5, <2>2 DEF DequeueJob, FirstPending, CancelReachesRun, NoLostWakeup, TypeOK
    <2> QED
      BY <2>3, <2>4
  <1>6. ASSUME DequeueNone PROVE P
    BY <1>6 DEF DequeueNone, queueVars, OrderAgrees, FIFOStart, CancelReachesRun, NoLostWakeup
  <1>7. ASSUME NEW j \in Jobs, RunReturns(j) PROVE P
    BY <1>1, <1>7 DEF RunReturns, queueVars
  <1>8. ASSUME NEW j \in Jobs, Complete(j) \/ Fail(j) PROVE P
    BY <1>8 DEF Complete, Fail, SetResult, FIFOStart, CancelReachesRun, NoLostWakeup, TypeOK
  <1>9. ASSUME NEW j \in Jobs, ReleaseSlot(j) PROVE P
    BY <1>9 DEF ReleaseSlot, queueVars, FIFOStart, CancelReachesRun, NoLostWakeup
  <1>10. ASSUME Signal \/ Stop \/ Exit \/ UNCHANGED vars PROVE P
    BY <1>1, <1>10 DEF Signal, Stop, Exit, MainStep, vars, queueVars
  <1> HIDE DEF P
  <1>11. P
    BY <1>2, <1>3, <1>4, <1>5, <1>6, <1>7, <1>8, <1>9, <1>10
    DEF Next, API, Processor, JobGoroutine, Main
  <1> QED
    BY <1>11 DEF P

\* The invariants of the persistent master hold in every reachable state, for
\* any set of job identifiers, any queue bound and any number of slots.
THEOREM InvHolds == Spec => []IInv
  <1>1. IInv /\ [Next]_vars => IInv'
    BY TypeStep, SlotStep, AgreementStep, QueueStep DEF IInv
  <1> QED
    BY InvInit, <1>1, PTL DEF Spec

\* Type correctness of the queue, the processor and the goroutines.
THEOREM TypeCorrect == Spec => []TypeOK
  BY InvHolds, PTL DEF IInv

\* The semaphore counts the running goroutines exactly, so at most
\* MaxConcurrent jobs execute at a time and no slot is lost.
THEOREM SlotsCorrect == Spec => []SlotAccounting
  BY InvHolds, PTL DEF IInv

\* Jobs start in the order in which Enqueue accepted them.
THEOREM StartsInOrder == Spec => []FIFOStart
  BY InvHolds, PTL DEF IInv

\* A cancellation always reaches the context of the run it cancels.
THEOREM CancelCorrect == Spec => []CancelReachesRun
  BY InvHolds, PTL DEF IInv

\* The processor never sleeps on a pending job without a token.
THEOREM WakeupCorrect == Spec => []NoLostWakeup
  BY InvHolds, PTL DEF IInv

\* A running job always has a goroutine that will record its end.
THEOREM OwnershipCorrect == Spec => []RunningOwned
  BY InvHolds, PTL DEF IInv

-----------------------------------------------------------------------------
(* JobQueue implements JobLifecycle.                                       *)

\* While the processor looks for a job it holds a slot that no goroutine
\* uses, so fewer than MaxConcurrent jobs are running.
LEMMA SlotFree ==
    ASSUME IInv, Holding
    PROVE  Cardinality(Lifecycle!JobsIn("running")) < MaxConcurrent
  <1> USE DEF IInv
  <1>1. Lifecycle!JobsIn("running") \subseteq Live
    BY DEF Lifecycle!JobsIn, Live, RunningOwned
  <1>2. /\ Cardinality(Lifecycle!JobsIn("running")) \in Nat
        /\ Cardinality(Live) \in Nat
        /\ Cardinality(Lifecycle!JobsIn("running")) <= Cardinality(Live)
    BY <1>1, FS_Subset, FS_CardinalityType
  <1>3. Cardinality(Live) + 1 <= MaxConcurrent
    BY DEF SlotAccounting
  <1> QED
    BY <1>2, <1>3

LEMMA LifecycleStep ==
    ASSUME IInv, [Next]_vars
    PROVE  [Lifecycle!Next]_status
  <1> USE DEF IInv
  <1>1. ASSUME NEW j \in Jobs, Enqueue(j) PROVE Lifecycle!Next
    BY <1>1 DEF Enqueue, FreshId, Lifecycle!Next, Lifecycle!Submit, Lifecycle!Move
  <1>2. ASSUME NEW j \in Jobs, Cancel(j) PROVE Lifecycle!Next
    BY <1>2 DEF Cancel, Lifecycle!Next, Lifecycle!Cancel, Lifecycle!Move
  <1>3. ASSUME NEW i \in 1..Len(order), DequeueJob(i) PROVE Lifecycle!Next
    <2>1. order[i] \in Jobs
      BY DEF TypeOK
    <2>2. Cardinality(Lifecycle!JobsIn("running")) < MaxConcurrent
      <3>1. Holding
        BY <1>3 DEF DequeueJob, Holding
      <3> QED
        BY <3>1, SlotFree
    <2>3. Lifecycle!Move(order[i], "pending", "running")
      BY <1>3 DEF DequeueJob, FirstPending, Lifecycle!Move
    <2>4. Lifecycle!Start(order[i])
      BY <2>2, <2>3 DEF Lifecycle!Start, Lifecycle!Cardinality, Cardinality
    <2> QED
      BY <2>1, <2>4 DEF Lifecycle!Next
  <1>4. ASSUME NEW j \in Jobs, Complete(j) \/ Fail(j) PROVE [Lifecycle!Next]_status
    <2>1. status[j] \in {"running", "cancelled"}
      BY <1>4 DEF Complete, Fail, StatusAgrees
    <2>2. CASE status[j] = "cancelled"
      BY <1>4, <2>2 DEF Complete, Fail, SetResult
    <2>3. CASE status[j] = "running"
      <3>1. \E s \in {"completed", "failed"} : status' = [status EXCEPT ![j] = s]
        BY <1>4, <2>3 DEF Complete, Fail, SetResult
      <3>2. Lifecycle!Finish(j)
        BY <2>3, <3>1 DEF Lifecycle!Finish, Lifecycle!Move
      <3> QED
        BY <3>2 DEF Lifecycle!Next
    <2> QED
      BY <2>1, <2>2, <2>3
  <1>5. ASSUME NEW j \in Jobs, RunReturns(j) \/ ReleaseSlot(j) PROVE UNCHANGED status
    BY <1>5 DEF RunReturns, ReleaseSlot, queueVars
  <1>6. ASSUME Poll \/ AcquireAborted \/ AcquireSlot \/ DequeueNone \/ DequeueWoken
               \/ DequeueAborted \/ Signal \/ Stop \/ Exit \/ UNCHANGED vars
        PROVE UNCHANGED status
    BY <1>6 DEF Poll, AcquireAborted, AcquireSlot, DequeueNone, DequeueWoken, DequeueAborted,
                Signal, Stop, Exit, MainStep, vars, queueVars
  <1> QED
    BY <1>1, <1>2, <1>3, <1>4, <1>5, <1>6
    DEF Next, API, Processor, JobGoroutine, Main

\* Clients of the API see the life cycle of JobLifecycle and nothing else: in
\* particular a completed, failed or cancelled job keeps its status for ever.
THEOREM ImplementsLifecycle == Spec => LifecycleSpec
  <1>1. Init => Lifecycle!Init
    BY DEF Init, Lifecycle!Init
  <1>2. IInv /\ [Next]_vars => [Lifecycle!Next]_status
    BY LifecycleStep
  <1> QED
    BY <1>1, <1>2, InvHolds, PTL DEF Spec, LifecycleSpec, Lifecycle!Spec
=============================================================================
