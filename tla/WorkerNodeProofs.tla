-------------------------- MODULE WorkerNodeProofs --------------------------
(* The bookkeeping of a worker for any number of requests, job ids and     *)
(* slots: no slot leaks, runs stay cancellable, Shutdown misses nobody.    *)
EXTENDS WorkerNode, FiniteSetTheorems, TLAPS

\* A handler at work has decoded a job, a new one has not.
LiveHasJob ==
    /\ \A r \in Live : job[r] \in JobIDs
    /\ \A r \in Requests : hpc[r] = "new" => job[r] = NoHandle

\* After the critical section of Shutdown nothing is admitted, and what it has
\* still to cancel is in its list.
ShutdownInv ==
    spc # "up" =>
        /\ capacity = 0
        /\ \A r \in Live : OnlyOneFor(r) => r \in done \cup shutting
        /\ spc = "returned" => shutting = {}

\* The inductive invariant: the map is finite and has an owner for every entry,
\* and every run with an id of its own is in it.
IInv ==
    /\ TypeOK
    /\ LiveHasJob
    /\ IsFiniteSet(Entries)
    /\ EntriesOwned
    /\ ListedWhenUnique
    /\ ShutdownInv

LEMMA InitInv == Init => IInv
  <1> SUFFICES ASSUME Init PROVE IInv
    OBVIOUS
  <1>1. TypeOK
    BY CapacityAssumption DEF Init, TypeOK
  <1>2. Entries = {} /\ Live = {}
    BY DEF Init, Entries, Live
  <1>3. IsFiniteSet(Entries) /\ Cardinality(Entries) = 0
    BY <1>2, FS_EmptySet
  <1>4. EntriesOwned
    BY <1>2, <1>3, CapacityAssumption DEF EntriesOwned
  <1> QED
    BY <1>1, <1>2, <1>3, <1>4 DEF IInv, LiveHasJob, ListedWhenUnique, ShutdownInv, Init

\* A step that leaves the map and the handlers' jobs alone, and admits nobody.
LEMMA QuietStep ==
    ASSUME IInv, TypeOK', UNCHANGED <<job, jobs>>, Live' = Live, ShutdownInv',
           \A r \in Requests : hpc'[r] = "new" => hpc[r] = "new"
    PROVE  IInv'
  <1>1. Entries' = Entries
    BY DEF Entries
  <1>2. \A r \in Live : OnlyOneFor(r)' <=> OnlyOneFor(r)
    BY DEF OnlyOneFor
  <1> QED
    BY <1>1, <1>2 DEF IInv, LiveHasJob, EntriesOwned, ListedWhenUnique

\* Shutdown's promises survive a step in which nobody is admitted and nothing
\* is taken off its list or off the cancelled ones.
LEMMA ShutdownKept ==
    ASSUME IInv, UNCHANGED <<job, capacity, spc, shutting>>, Live' \subseteq Live,
           done \subseteq done'
    PROVE  ShutdownInv'
  BY DEF IInv, ShutdownInv, OnlyOneFor

LEMMA AdmitInv ==
    ASSUME IInv, NEW r \in Requests, NEW id \in JobIDs, Admit(r, id)
    PROVE  IInv'
  <1> USE DEF Admit
  <1>1. TypeOK'
    BY DEF IInv, TypeOK
  <1>2. /\ Live' = Live \cup {r} /\ r \notin Live
        /\ job'[r] = id /\ \A q \in Requests \ {r} : job'[q] = job[q]
        /\ jobs'[id] = r /\ \A k \in JobIDs \ {id} : jobs'[k] = jobs[k]
    BY DEF IInv, TypeOK, Live
  <1>3. Entries' = Entries \cup {id}
    BY <1>2, NoHandleAssumption DEF IInv, TypeOK, Entries
  <1>4. IsFiniteSet(Entries') /\ Cardinality(Entries') <= Cardinality(Entries) + 1
    <2>1. IsFiniteSet(Entries)
      BY DEF IInv
    <2>2. Cardinality(Entries) \in Nat
      BY <2>1, FS_CardinalityType
    <2>3. /\ IsFiniteSet(Entries \cup {id})
          /\ Cardinality(Entries \cup {id}) =
                IF id \in Entries THEN Cardinality(Entries) ELSE Cardinality(Entries) + 1
      BY <2>1, FS_AddElement
    <2> HIDE DEF Admit
    <2> QED
      BY <1>3, <2>2, <2>3
  <1>5. Cardinality(Entries) \in Nat /\ Cardinality(Entries') \in Nat
    BY <1>4, FS_CardinalityType DEF IInv
  <1>6. Cardinality(Entries') <= Capacity
    BY <1>4, <1>5, CapacityAssumption DEF IInv, TypeOK
  <1>7. \A k \in Entries' : jobs'[k] \in Live' /\ job'[jobs'[k]] = k
    <2> SUFFICES ASSUME NEW k \in Entries' PROVE jobs'[k] \in Live' /\ job'[jobs'[k]] = k
      OBVIOUS
    <2>1. CASE k = id
      BY <1>2, <2>1
    <2>2. CASE k # id
      <3>1. k \in Entries /\ jobs'[k] = jobs[k]
        BY <1>2, <1>3, <2>2 DEF Entries
      <3>2. jobs[k] \in Live /\ job[jobs[k]] = k
        BY <3>1 DEF IInv, EntriesOwned
      <3> QED
        BY <1>2, <3>1, <3>2 DEF Live
    <2> QED
      BY <2>1, <2>2
  <1>8. ListedWhenUnique'
    <2> SUFFICES ASSUME NEW q \in Live', OnlyOneFor(q)' PROVE jobs'[job'[q]] = q
      BY DEF ListedWhenUnique
    <2>1. CASE q = r
      BY <1>2, <2>1
    <2>2. CASE q # r
      <3>1. q \in Live /\ q \in Requests /\ job'[q] = job[q]
        BY <1>2, <2>2 DEF Live
      <3>2. job[q] # id
        BY <1>2, <2>2, <3>1 DEF OnlyOneFor
      <3>3. OnlyOneFor(q)
        <4> SUFFICES ASSUME NEW p \in Requests \ {q}, job[p] = job[q] PROVE FALSE
          BY DEF OnlyOneFor
        <4>1. CASE p = r
          <5>1. job[p] = NoHandle /\ job[q] \in JobIDs
            BY <4>1, <3>1 DEF IInv, LiveHasJob
          <5> QED
            BY <5>1, NoHandleAssumption
        <4>2. CASE p # r
          BY <4>2, <1>2, <3>1 DEF OnlyOneFor
        <4> QED
          BY <4>1, <4>2
      <3> QED
        BY <1>2, <3>1, <3>2, <3>3 DEF IInv, ListedWhenUnique, LiveHasJob
    <2> QED
      BY <2>1, <2>2
  <1>9. ShutdownInv'
    BY <1>5 DEF IInv, ShutdownInv
  <1>10. LiveHasJob'
    BY <1>2 DEF IInv, LiveHasJob, Live
  <1> QED
    BY <1>1, <1>4, <1>6, <1>7, <1>8, <1>9, <1>10 DEF IInv, EntriesOwned

\* A handler that ends takes its job's entry with it, whoever owns that.
LEMMA RemoveInv ==
    ASSUME IInv, TypeOK', NEW r \in Live, hpc' = [hpc EXCEPT ![r] = "answered"],
           jobs' = [jobs EXCEPT ![job[r]] = NoHandle],
           UNCHANGED <<job, capacity, done, spc, shutting>>
    PROVE  IInv'
  <1>1. /\ Live' = Live \ {r} /\ r \in Requests /\ job[r] \in JobIDs
        /\ jobs'[job[r]] = NoHandle /\ \A k \in JobIDs \ {job[r]} : jobs'[k] = jobs[k]
    BY DEF IInv, TypeOK, LiveHasJob, Live
  <1>2. Entries' = Entries \ {job[r]}
    BY <1>1 DEF Entries
  <1>3. IsFiniteSet(Entries') /\ Cardinality(Entries') <= Cardinality(Entries)
    BY <1>2, FS_Subset DEF IInv
  <1>4. Cardinality(Entries) \in Nat /\ Cardinality(Entries') \in Nat
    BY <1>3, FS_CardinalityType DEF IInv
  <1>5. EntriesOwned'
    <2>1. Cardinality(Entries') <= Capacity
      BY <1>3, <1>4, CapacityAssumption DEF IInv, EntriesOwned
    <2>2. ASSUME NEW k \in Entries' PROVE jobs'[k] \in Live' /\ job'[jobs'[k]] = k
      <3>1. k \in Entries /\ k # job[r] /\ jobs'[k] = jobs[k]
        BY <1>1, <1>2, <2>2 DEF Entries
      <3> QED
        BY <1>1, <3>1 DEF IInv, EntriesOwned
    <2> QED
      BY <2>1, <2>2 DEF EntriesOwned
  <1>6. ListedWhenUnique'
    <2> SUFFICES ASSUME NEW q \in Live', OnlyOneFor(q)' PROVE jobs'[job[q]] = q
      BY DEF ListedWhenUnique
    <2>1. q \in Live /\ q # r /\ OnlyOneFor(q)
      BY <1>1 DEF OnlyOneFor
    <2>2. job[r] # job[q] /\ job[q] \in JobIDs
      BY <1>1, <2>1 DEF OnlyOneFor, IInv, LiveHasJob
    <2> QED
      BY <1>1, <2>1, <2>2 DEF IInv, ListedWhenUnique
  <1>7. ShutdownInv'
    BY <1>1, ShutdownKept
  <1>8. LiveHasJob'
    BY <1>1 DEF IInv, TypeOK, LiveHasJob
  <1> QED
    BY <1>3, <1>5, <1>6, <1>7, <1>8 DEF IInv

\* handleRun.
LEMMA HandlerInv ==
    ASSUME IInv, NEW r \in Requests, Arrive(r) \/ Handler(r) \/ ClientGone(r)
    PROVE  IInv'
  <1>1. ASSUME RejectRequest(r) PROVE IInv'
    <2>1. TypeOK' /\ Live' = Live /\ \A q \in Requests : hpc'[q] = "new" => hpc[q] = "new"
      BY <1>1 DEF RejectRequest, IInv, TypeOK, Live
    <2>2. ShutdownInv'
      BY <1>1, <2>1, ShutdownKept DEF RejectRequest
    <2> QED
      BY <1>1, <2>1, <2>2, QuietStep DEF RejectRequest
  <1>2. ASSUME BuildSucceeds(r) \/ EngineReturns(r) PROVE IInv'
    <2>1. TypeOK' /\ Live' = Live /\ \A q \in Requests : hpc'[q] = "new" => hpc[q] = "new"
      BY <1>2 DEF BuildSucceeds, EngineReturns, IInv, TypeOK, Live
    <2>2. UNCHANGED <<job, jobs, capacity, done, spc, shutting>>
      BY <1>2 DEF BuildSucceeds, EngineReturns
    <2>3. ShutdownInv'
      BY <2>1, <2>2, ShutdownKept
    <2> QED
      BY <2>1, <2>2, <2>3, QuietStep
  <1>3. ASSUME BuildFails(r) \/ Finish(r) PROVE IInv'
    <2>1. r \in Live /\ job[r] \in JobIDs
      BY <1>3 DEF BuildFails, Finish, Live, IInv, LiveHasJob
    <2>2. TypeOK'
      BY <1>3, <2>1 DEF BuildFails, Finish, IInv, TypeOK
    <2>3. /\ hpc' = [hpc EXCEPT ![r] = "answered"]
          /\ jobs' = [jobs EXCEPT ![job[r]] = NoHandle]
          /\ UNCHANGED <<job, capacity, done, spc, shutting>>
      BY <1>3 DEF BuildFails, Finish
    <2> QED
      BY <2>1, <2>2, <2>3, RemoveInv
  <1>4. ASSUME ClientGone(r) PROVE IInv'
    <2>1. TypeOK' /\ Live' = Live /\ \A q \in Requests : hpc'[q] = "new" => hpc[q] = "new"
      BY <1>4 DEF ClientGone, IInv, TypeOK, Live
    <2>2. UNCHANGED <<job, jobs, capacity, spc, shutting>> /\ done \subseteq done'
      BY <1>4 DEF ClientGone
    <2>3. ShutdownInv'
      BY <2>1, <2>2, ShutdownKept
    <2> QED
      BY <2>1, <2>2, <2>3, QuietStep
  <1>5. ASSUME NEW id \in JobIDs, Admit(r, id) PROVE IInv'
    BY <1>5, AdmitInv
  <1> QED
    BY <1>1, <1>2, <1>3, <1>4, <1>5 DEF Arrive, RefuseBusy, Handler

\* handleCancel and Shutdown.
LEMMA CancelInv ==
    ASSUME IInv,
           \/ \E id \in JobIDs : CancelLookup(id)
           \/ \E r \in Requests : CancelFire(r)
           \/ Shutdown
    PROVE  IInv'
  <1>1. UNCHANGED <<hpc, job, jobs>>
    BY DEF CancelLookup, CancelFire, Shutdown, ShutdownBegin, ShutdownCancel, ShutdownReturn
  <1>2. Live' = Live /\ Entries' = Entries
    BY <1>1 DEF Live, Entries
  <1>3. \A id \in Entries : jobs[id] \in Requests
    BY DEF IInv, EntriesOwned, Live
  <1>4. TypeOK'
    <2>1. ASSUME NEW id \in JobIDs, CancelLookup(id) PROVE TypeOK'
      BY <1>3, <2>1 DEF CancelLookup, IInv, TypeOK
    <2>2. ASSUME NEW r \in Requests, CancelFire(r) PROVE TypeOK'
      BY <2>2 DEF CancelFire, IInv, TypeOK
    <2>3. ASSUME ShutdownBegin PROVE TypeOK'
      BY <1>3, <2>3 DEF ShutdownBegin, IInv, TypeOK
    <2>4. ASSUME NEW r \in Requests, ShutdownCancel(r) PROVE TypeOK'
      BY <2>4 DEF ShutdownCancel, IInv, TypeOK
    <2>5. ASSUME ShutdownReturn PROVE TypeOK'
      BY <2>5 DEF ShutdownReturn, IInv, TypeOK
    <2> QED
      BY <2>1, <2>2, <2>3, <2>4, <2>5 DEF Shutdown
  <1>5. ShutdownInv'
    <2>1. ASSUME NEW id \in JobIDs, CancelLookup(id) PROVE ShutdownInv'
      BY <1>2, <2>1, ShutdownKept DEF CancelLookup
    <2>2. ASSUME NEW r \in Requests, CancelFire(r) PROVE ShutdownInv'
      BY <1>2, <2>2, ShutdownKept DEF CancelFire
    <2>3. ASSUME ShutdownBegin PROVE ShutdownInv'
      <3>1. ASSUME NEW r \in Live, OnlyOneFor(r) PROVE r \in shutting'
        <4>1. jobs[job[r]] = r /\ job[r] \in JobIDs /\ r \in Requests
          BY <3>1 DEF IInv, ListedWhenUnique, LiveHasJob, Live
        <4>2. job[r] \in Entries
          BY <4>1, NoHandleAssumption DEF Entries
        <4> QED
          BY <2>3, <4>1, <4>2 DEF ShutdownBegin
      <3>2. \A r \in Live : OnlyOneFor(r)' <=> OnlyOneFor(r)
        BY <1>1 DEF OnlyOneFor
      <3> QED
        BY <1>2, <2>3, <3>1, <3>2 DEF ShutdownBegin, ShutdownInv
    <2>4. ASSUME NEW r \in Requests, ShutdownCancel(r) PROVE ShutdownInv'
      <3>1. \A q \in Live : OnlyOneFor(q)' <=> OnlyOneFor(q)
        BY <1>1 DEF OnlyOneFor
      <3> QED
        BY <1>2, <2>4, <3>1 DEF ShutdownCancel, ShutdownInv, IInv
    <2>5. ASSUME ShutdownReturn PROVE ShutdownInv'
      <3>1. \A q \in Live : OnlyOneFor(q)' <=> OnlyOneFor(q)
        BY <1>1 DEF OnlyOneFor
      <3> QED
        BY <1>2, <2>5, <3>1 DEF ShutdownReturn, ShutdownInv, IInv
    <2> QED
      BY <2>1, <2>2, <2>3, <2>4, <2>5 DEF Shutdown
  <1> QED
    BY <1>1, <1>2, <1>4, <1>5, QuietStep

\* The invariant of a worker node: the map of running jobs and what Shutdown
\* relies on, in every reachable state.
THEOREM InvHolds == Spec => []IInv
  <1>1. IInv /\ [Next]_vars => IInv'
    <2> SUFFICES ASSUME IInv, [Next]_vars PROVE IInv'
      OBVIOUS
    <2>1. CASE UNCHANGED vars
      <3>1. TypeOK' /\ Live' = Live /\ ShutdownInv'
        BY <2>1 DEF vars, IInv, TypeOK, Live, ShutdownInv, OnlyOneFor
      <3> QED
        BY <2>1, <3>1, QuietStep DEF vars
    <2> QED
      BY <2>1, HandlerInv, CancelInv DEF Next
  <1> QED
    BY <1>1, InitInv, PTL DEF Spec

\* Every variable of a worker keeps its type; in particular the capacity is the
\* configured one or 0.
THEOREM TypeCorrect == Spec => []TypeOK
  <1>1. IInv => TypeOK
    BY DEF IInv
  <1> QED
    BY <1>1, InvHolds, PTL

\* No slot of the worker leaks: every entry of the map has a handler that will
\* remove it, and there are no more entries than slots.
THEOREM EntriesCorrect == Spec => []EntriesOwned
  <1>1. IInv => EntriesOwned
    BY DEF IInv
  <1> QED
    BY <1>1, InvHolds, PTL

\* A run whose job id no other request has used can be found by /cancel and by
\* Shutdown as long as it works.
THEOREM ListedCorrect == Spec => []ListedWhenUnique
  <1>1. IInv => ListedWhenUnique
    BY DEF IInv
  <1> QED
    BY <1>1, InvHolds, PTL

\* When Shutdown returns it has cancelled every run with an id of its own.
THEOREM ShutdownCorrect == Spec => []ShutdownReachesAll
  <1>1. IInv => ShutdownReachesAll
    BY DEF IInv, ShutdownInv, ShutdownReachesAll
  <1> QED
    BY <1>1, InvHolds, PTL
=============================================================================
