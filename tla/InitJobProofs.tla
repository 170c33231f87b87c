---------------------------- MODULE InitJobProofs ----------------------------
(***************************************************************************)
(* Proofs about InitJob, for every limit, every lag of the caches and      *)
(* every number of faults.                                                 *)
(***************************************************************************)
EXTENDS InitJob, TLAPS

-----------------------------------------------------------------------------
(* The inductive invariant. *)

\* The count passes its limit only by failing the job.
Counts(j) == j \in Job /\ (j.state # "Failed" => j.notFound <= NotFoundLimit)

\* The states a reconcile of a job in state a may save.
Successors(a) ==
    CASE a = Unset -> {"Pending"}
      [] a = "Pending" -> {"Running", "Failed"}
      [] a = "Running" -> {"Running"} \cup Final
      [] OTHER -> {}

\* The cache holds a version of the job; a save that the API server will not
\* refuse is of the latest one, which it takes a step further.
Caching ==
    /\ Counts(job) /\ Counts(jobCache) /\ Counts(copy)
    /\ jobFresh => jobCache = job
    /\ current => /\ pc = "save" /\ jobFresh
                  /\ copy.state \in Successors(job.state)

\* What was seen Complete has succeeded.
Seen ==
    /\ \A j \in {job, jobCache, copy} : j.state = "Complete" => succeeded
    /\ \A b \in {batch, batchCache} :
          b # Nothing /\ b.phase = "Complete" => succeeded

\* A cache that has a final state has the latest.
FinalStays == jobCache.state \in Final => jobCache = job

\* The first batch Job is there, or its end was noted, or it went unseen.
Once == created > 0 => batch # Nothing \/ jobCache.state \in Final \/ expired

IInv == TypeOK /\ Caching /\ Seen /\ FinalStays /\ Once /\ InitCreatedOnce

-----------------------------------------------------------------------------
(* The values a step writes. *)

LEMMA UnsetDiffers == Unset \notin {"Pending", "Running", "Complete", "Failed"}
  BY Zenon DEF Unset

LEMMA ZeroCounts == 0 \in 0..(NotFoundLimit + 1) /\ 0 <= NotFoundLimit
  BY ControllerAssumption

LEMMA FaultType ==
    ASSUME TypeOK, Fault \/ UNCHANGED faultsLeft
    PROVE  faultsLeft' \in 0..MaxFaults
  BY ControllerAssumption DEF TypeOK, Fault

LEMMA NewBatchType ==
    ASSUME NEW r \in Nat
    PROVE  [run |-> r, phase |-> "Active", deleting |-> FALSE] \in BatchObject
  BY DEF BatchObject

LEMMA FinishedType ==
    ASSUME NEW b \in BatchObject, NEW p \in {"Complete", "Failed"}
    PROVE  [b EXCEPT !.phase = p] \in BatchObject
  BY DEF BatchObject

LEMMA WithStateJob ==
    ASSUME NEW j \in Job, NEW st \in {"Pending", "Running", "Complete", "Failed"}
    PROVE  /\ WithState(j, st) \in Job /\ WithState(j, st).state = st
           /\ WithState(j, st).notFound = j.notFound
  BY DEF Job, WithState

LEMMA WithCountJob ==
    ASSUME NEW j \in Job, NEW n \in 0..(NotFoundLimit + 1)
    PROVE  /\ WithCount(j, n) \in Job /\ WithCount(j, n).state = j.state
           /\ WithCount(j, n).notFound = n
  BY DEF Job, WithCount

\* The counts a reconcile writes.
LEMMA CountsKept ==
    ASSUME NEW j, Counts(j), NEW st \in {"Pending", "Running", "Complete", "Failed"}
    PROVE  /\ WithState(j, st).state = st
           /\ j.state # "Failed" => Counts(WithState(j, st))
           /\ Counts(WithCount(WithState(j, st), 0))
           /\ WithCount(WithState(j, st), 0).state = st
           /\ WithCount(j, 0).state = j.state /\ Counts(WithCount(j, 0))
  <1>1. j \in Job
    BY DEF Counts
  <1>2. /\ WithState(j, st) \in Job /\ WithState(j, st).state = st
        /\ WithState(j, st).notFound = j.notFound
    BY <1>1, WithStateJob
  <1>3. ASSUME NEW i \in Job
        PROVE  Counts(WithCount(i, 0)) /\ WithCount(i, 0).state = i.state
    BY WithCountJob, ZeroCounts DEF Counts
  <1> QED  BY <1>1, <1>2, <1>3 DEF Counts

LEMMA MissCounts ==
    ASSUME NEW j, Counts(j), j.state = "Running"
    PROVE  /\ Counts(MissesBatch(j))
           /\ MissesBatch(j).state \in {"Running", "Failed"}
  <1> DEFINE n == j.notFound + 1
             st == IF n > NotFoundLimit THEN "Failed" ELSE "Running"
             i == WithState(j, st)
  <1>1. j.notFound \in 0..(NotFoundLimit + 1) /\ j.notFound <= NotFoundLimit
    BY DEF Counts, Job
  <1>2. n \in 0..(NotFoundLimit + 1) /\ (st = "Failed" \/ n <= NotFoundLimit)
    BY <1>1, ControllerAssumption
  <1>3. i \in Job /\ i.state = st /\ st \in {"Running", "Failed"}
    BY WithStateJob DEF Counts
  <1>4. MissesBatch(j) = WithCount(i, n)
    BY DEF MissesBatch
  <1> HIDE DEF n, st, i
  <1>5. WithCount(i, n) \in Job /\ WithCount(i, n).state = st
        /\ WithCount(i, n).notFound = n
    BY <1>2, <1>3, WithCountJob
  <1> QED  BY <1>2, <1>3, <1>4, <1>5 DEF Counts

-----------------------------------------------------------------------------
LEMMA InvInit == Init => IInv
  <1> SUFFICES ASSUME Init PROVE IInv
    OBVIOUS
  <1>1. /\ job = [state |-> Unset, notFound |-> 0] /\ jobCache = job /\ copy = job
        /\ batch = Nothing /\ batchCache = Nothing
        /\ pc = "idle" /\ faultsLeft = MaxFaults /\ created = 0
    BY DEF Init, ControllerInit, BatchInit
  <1>2. jobFresh \in BOOLEAN /\ queued \in BOOLEAN /\ ~current /\ current \in BOOLEAN
        /\ ~succeeded /\ succeeded \in BOOLEAN /\ expired \in BOOLEAN
    BY Zenon DEF Init, ControllerInit
  <1>3. job \in Job /\ Counts(job)
    BY <1>1, ZeroCounts DEF Job, Counts
  <1>4. created \in 0..MaxCreated /\ faultsLeft \in 0..MaxFaults
    BY <1>1, ControllerAssumption DEF MaxCreated
  <1>5. TypeOK
    BY <1>1, <1>2, <1>3, <1>4 DEF TypeOK, BatchType
  <1>6. Caching
    BY <1>1, <1>2, <1>3 DEF Caching
  <1>7. Seen /\ FinalStays
    <2>1. job.state = Unset
      BY <1>1
    <2> QED  BY <1>1, <2>1, UnsetDiffers DEF Seen, FinalStays
  <1>8. Once /\ InitCreatedOnce
    BY <1>1 DEF Once, InitCreatedOnce
  <1> QED
    BY <1>5, <1>6, <1>7, <1>8 DEF IInv

\* What a reconcile of the cached job hands to its save.
LEMMA Saves ==
    ASSUME IInv, NEW j, Counts(j), j.state \in Successors(jobCache.state),
           j.state = "Complete" => succeeded,
           Begins, ToSave(j),
           \/ UNCHANGED <<batch, created>>
           \/ jobCache.state = "Pending" /\ CreateBatch(created) /\ CountCreated,
           faultsLeft' \in 0..MaxFaults, UNCHANGED <<succeeded, expired>>
    PROVE  IInv'
  <1>1. created \in 0..MaxCreated /\ created \in Nat
    BY DEF IInv, TypeOK, MaxCreated
  <1>2. TypeOK'
    <2>1. created' \in 0..MaxCreated
      BY <1>1 DEF CountCreated, MaxCreated
    <2>2. batch' \in BatchType
      <3>1. CASE UNCHANGED batch
        BY <3>1 DEF IInv, TypeOK
      <3>2. CASE CreateBatch(created)
        BY <1>1, <3>2, NewBatchType DEF CreateBatch, BatchType
      <3> QED  BY <3>1, <3>2
    <2>3. queued' \in BOOLEAN /\ jobFresh' \in BOOLEAN /\ current' \in BOOLEAN
          /\ succeeded' \in BOOLEAN /\ expired' \in BOOLEAN
      BY Zenon DEF IInv, TypeOK, ToSave
    <2> QED
      BY <2>1, <2>2, <2>3 DEF IInv, TypeOK, ToSave, Counts
  <1>3. Caching'
    BY DEF IInv, TypeOK, Caching, ToSave
  <1>4. Seen'
    <2>1. CASE UNCHANGED <<batch, created>>
      BY <2>1 DEF IInv, Seen, ToSave
    <2>2. CASE CreateBatch(created)
      BY <2>2 DEF IInv, Seen, ToSave, CreateBatch
    <2> QED  BY <2>1, <2>2
  <1>5. FinalStays'
    BY DEF IInv, FinalStays, ToSave
  <1>6. Once' /\ InitCreatedOnce'
    <2>1. CASE UNCHANGED <<batch, created>>
      BY <2>1 DEF IInv, Once, InitCreatedOnce, ToSave
    <2>2. CASE jobCache.state = "Pending" /\ CreateBatch(created) /\ CountCreated
      <3>1. batch' # Nothing
        BY <1>1, <2>2, NewBatchType, BatchAssumption DEF CreateBatch
      <3>2. created > 0 => expired
        BY <2>2 DEF IInv, Once, CreateBatch, Final
      <3>3. created' > 1 => created > 0
        BY <1>1, <2>2 DEF CountCreated
      <3> QED
        BY <3>1, <3>2, <3>3 DEF Once, InitCreatedOnce
    <2> QED  BY <2>1, <2>2
  <1> QED  BY <1>2, <1>3, <1>4, <1>5, <1>6 DEF IInv

LEMMA ReconcileStep ==
    ASSUME IInv, Initialise \/ Start \/ Miss \/ Observe \/ Ignore
    PROVE  IInv'
  <1>1. TypeOK /\ Counts(jobCache) /\ Begins /\ faultsLeft' \in 0..MaxFaults
    <2>1. Fault \/ UNCHANGED faultsLeft
      BY DEF Initialise, Start, Miss, Observe, ObservesBatch, Ignore
    <2>2. TypeOK /\ Counts(jobCache)
      BY DEF IInv, Caching
    <2>3. Begins
      BY DEF Initialise, Start, Miss, Observe, Ignore
    <2> QED
      BY <2>1, <2>2, <2>3, FaultType
  <1>2. CASE Initialise
    <2> DEFINE j == WithState(jobCache, "Pending")
    <2>1. /\ jobCache.state = Unset /\ ToSave(j)
          /\ UNCHANGED <<batch, created, succeeded, expired>>
      BY <1>2 DEF Initialise, history
    <2>2. Counts(j) /\ j.state = "Pending"
      BY <1>1, <2>1, UnsetDiffers, CountsKept
    <2>3. j.state \in Successors(jobCache.state)
      BY <2>1, <2>2, UnsetDiffers DEF Successors
    <2> HIDE DEF j
    <2> QED
      BY <1>1, <2>1, <2>2, <2>3, Saves
  <1>3. CASE Miss
    <2>1. MissesBatch(jobCache).state \in Successors(jobCache.state)
      BY <1>1, <1>3, MissCounts DEF Miss, Successors, Final
    <2> QED
      BY <1>1, <1>3, <2>1, MissCounts, Saves DEF Miss, history
  <1>4. CASE /\ jobCache.state \in {"Pending", "Running"} \cup Final
             /\ UNCHANGED <<objects, pc, copy, current, history>>
             /\ queued' \in BOOLEAN
    BY <1>1, <1>4
    DEF IInv, TypeOK, objects, history, Caching, Seen, FinalStays, Once,
        InitCreatedOnce
  <1>5. CASE Start
    <2>1. CASE Retried /\ UNCHANGED <<created, succeeded, expired>>
      BY <1>1, <1>4, <1>5, <2>1 DEF Start, Retried, reconcile, TypeOK, history
    <2>2. CASE /\ \/ ToSave(WithState(jobCache, "Running"))
                  \/ ToSave(WithState(jobCache, "Failed"))
               /\ \/ UNCHANGED <<batch, created>>
                  \/ CreateBatch(created) /\ CountCreated
      BY <1>1, <1>5, <2>2, CountsKept, Saves DEF Start, Successors
    <2> QED  BY <1>5, <2>1, <2>2 DEF Start
  <1>6. CASE Observe
    <2>1. /\ jobCache.state = "Running" /\ UNCHANGED <<batch, history>>
          /\ batchCache # Nothing
      BY <1>6 DEF Observe
    <2>2. CASE Done
      BY <1>1, <1>4, <2>1, <2>2 DEF Done
    <2>3. CASE batchCache.phase \in Final
               /\ ToSave(WithCount(WithState(jobCache, batchCache.phase), 0))
      <3>1. batchCache.phase = "Complete" => succeeded
        BY <2>1 DEF IInv, Seen
      <3> DEFINE j == WithCount(WithState(jobCache, batchCache.phase), 0)
      <3>2. Counts(j) /\ j.state = batchCache.phase
        BY <1>1, <2>3, CountsKept DEF Final
      <3>3. j.state \in Successors(jobCache.state)
        BY <2>1, <2>3, <3>2 DEF Successors
      <3> HIDE DEF j
      <3> QED
        BY <1>1, <2>1, <2>3, <3>1, <3>2, <3>3, Saves DEF j, history
    <2>4. CASE ToSave(WithCount(WithState(jobCache, "Failed"), 0))
      <3>1. WithCount(WithState(jobCache, "Failed"), 0).state
              \in Successors(jobCache.state)
        BY <1>1, <2>1, CountsKept DEF Successors, Final
      <3> QED
        BY <1>1, <2>1, <2>4, <3>1, CountsKept, Saves DEF history
    <2>5. CASE ToSave(WithCount(jobCache, 0))
      <3>1. WithCount(jobCache, 0).state \in Successors(jobCache.state)
        BY <1>1, <2>1, CountsKept DEF Successors, Final
      <3> QED
        BY <1>1, <2>1, <2>5, <3>1, CountsKept, Saves DEF history
    <2> QED  BY <1>6, <2>2, <2>3, <2>4, <2>5 DEF Observe, ObservesBatch
  <1>7. CASE Ignore
    BY <1>1, <1>4, <1>7 DEF Ignore, Done
  <1> QED  BY <1>2, <1>3, <1>5, <1>6, <1>7

LEMMA SaveStep == IInv /\ Save => IInv'
  <1> SUFFICES ASSUME IInv, Save PROVE IInv'
    OBVIOUS
  <1>1. CASE SaveOk(job.state = Unset)
    <2>1. /\ current /\ copy.state \in Successors(job.state)
          /\ jobFresh /\ jobCache = job
      BY <1>1 DEF SaveOk, IInv, Caching
    <2>2. /\ job' = copy /\ ~jobFresh' /\ jobFresh' \in BOOLEAN /\ pc' = "idle"
          /\ ~current' /\ current' \in BOOLEAN /\ queued' \in BOOLEAN
          /\ UNCHANGED <<batch, batchCache, jobCache, copy, faultsLeft, history>>
      BY <1>1 DEF SaveOk, Save, IInv, TypeOK
    <2>3. TypeOK'
      BY <2>2 DEF IInv, TypeOK, history
    <2>4. Caching' /\ Seen'
      BY <2>2 DEF IInv, Caching, Seen, history
    <2>5. FinalStays'
      <3>1. jobCache.state \notin Final
        BY <2>1, UnsetDiffers DEF Successors, Final
      <3> QED  BY <2>2, <3>1 DEF FinalStays
    <2>6. Once' /\ InitCreatedOnce'
      BY <2>2 DEF IInv, Once, InitCreatedOnce, history
    <2> QED  BY <2>3, <2>4, <2>5, <2>6 DEF IInv
  <1>2. CASE SaveRefused
    <2>1. /\ pc' = "idle" /\ ~current' /\ current' \in BOOLEAN /\ queued' \in BOOLEAN
          /\ UNCHANGED <<objects, copy, history>>
          /\ faultsLeft' \in 0..MaxFaults
      BY <1>2, FaultType DEF SaveRefused, Save, IInv
    <2> QED
      BY <2>1 DEF IInv, TypeOK, Caching, Seen, FinalStays, Once, InitCreatedOnce,
                  objects, history
  <1> QED  BY <1>1, <1>2 DEF Save

LEMMA CrashStep == IInv /\ Crash => IInv'
  <1> SUFFICES ASSUME IInv, Crash PROVE IInv'
    OBVIOUS
  <1>1. /\ pc' = "idle" /\ ~current' /\ current' \in BOOLEAN /\ queued' \in BOOLEAN
        /\ jobCache' = job /\ jobFresh' \in BOOLEAN /\ batchCache' = batch
        /\ UNCHANGED <<batch, job, copy, history>>
        /\ faultsLeft' \in 0..MaxFaults
    BY FaultType DEF Crash, Dies, IInv
  <1> QED
    BY <1>1 DEF IInv, TypeOK, Caching, Seen, FinalStays, Once, InitCreatedOnce,
                history

LEMMA SyncStep == IInv /\ (SyncJob \/ SyncBatch) => IInv'
  <1> SUFFICES ASSUME IInv, SyncJob \/ SyncBatch PROVE IInv'
    OBVIOUS
  <1>1. CASE SyncJob
    <2>1. /\ jobCache' = job /\ jobFresh' \in BOOLEAN /\ queued' \in BOOLEAN
          /\ ~jobFresh
          /\ UNCHANGED <<batch, batchCache, job, pc, copy, current, faultsLeft,
                         history>>
      BY <1>1 DEF SyncJob, JobDelivered
    <2> QED
      BY <2>1 DEF IInv, TypeOK, Caching, Seen, FinalStays, Once,
                  InitCreatedOnce, history
  <1>2. CASE SyncBatch
    <2>1. /\ batchCache' = batch /\ queued' \in BOOLEAN
          /\ UNCHANGED <<batch, job, jobCache, jobFresh, pc, copy, current,
                         faultsLeft, history>>
      BY <1>2 DEF SyncBatch, BatchDelivered, DeliverBatch
    <2> QED
      BY <2>1 DEF IInv, TypeOK, Caching, Seen, FinalStays, Once,
                  InitCreatedOnce, history
  <1> QED  BY <1>1, <1>2

LEMMA ClusterStep == IInv /\ Cluster => IInv'
  <1> SUFFICES ASSUME IInv, Cluster PROVE IInv'
    OBVIOUS
  <1>1. UNCHANGED <<batchCache, job, jobCache, jobFresh, queued, pc, copy,
                    current, faultsLeft, created>>
    BY DEF Cluster, ClusterMoves, reconcile
  <1>2. /\ batch # Nothing /\ batch \in BatchObject
        /\ \/ batch' = Nothing
           \/ \E p \in {"Complete", "Failed"} : batch' = [batch EXCEPT !.phase = p]
    BY DEF Cluster, ClusterMoves, FinishBatch, RemoveBatch, ExpireBatch, IInv,
           TypeOK, BatchType
  <1>3. batch' \in BatchType
    BY <1>2, FinishedType DEF BatchType
  <1>4. /\ succeeded' \in BOOLEAN /\ expired' \in BOOLEAN
        /\ succeeded => succeeded'
        /\ batch' # Nothing /\ batch'.phase = "Complete" => succeeded'
        /\ expired => expired'
        /\ batch' = Nothing => expired' \/ jobCache.state \in Final
    BY <1>2 DEF Cluster, IInv, TypeOK
  <1>5. TypeOK'
    BY <1>1, <1>3, <1>4 DEF IInv, TypeOK
  <1>6. Caching' /\ FinalStays'
    BY <1>1 DEF IInv, Caching, FinalStays
  <1>7. Seen'
    BY <1>1, <1>4 DEF IInv, Seen
  <1>8. Once' /\ InitCreatedOnce'
    BY <1>1, <1>4 DEF IInv, Once, InitCreatedOnce
  <1> QED  BY <1>5, <1>6, <1>7, <1>8 DEF IInv

LEMMA InvStep == IInv /\ [Next]_vars => IInv'
  <1> SUFFICES ASSUME IInv, [Next]_vars PROVE IInv'
    OBVIOUS
  <1>1. CASE UNCHANGED vars
    BY <1>1 DEF IInv, TypeOK, Caching, Seen, FinalStays, Once, InitCreatedOnce,
                vars, objects, reconcile, history
  <1> QED
    BY <1>1, ReconcileStep, SaveStep, CrashStep, SyncStep, ClusterStep
    DEF Next, Reconcile

LEMMA Invariance == Spec => []IInv
  BY InvInit, InvStep, PTL DEF Spec

-----------------------------------------------------------------------------
\* Whatever is lost, late or refused, the job and the caches stay what the API
\* allows: JobNotFoundCount passes its limit by one at most, when the job fails.
THEOREM InitTypeCorrect == Spec => []TypeOK
  BY Invariance, PTL DEF IInv

\* InitCreatedOnce is an invariant: no run of createJobIfNeeded starts a second
\* batch Job for a database, except after the first one was removed unseen.
THEOREM InitCreatedOnceHolds == Spec => []InitCreatedOnce
  BY Invariance, PTL DEF IInv

\* CompleteMeansSucceeded is an invariant: processRunningJob takes over what a
\* batch Job has ended with and nothing else.
THEOREM CompleteMeansSucceededHolds == Spec => []CompleteMeansSucceeded
  <1>1. IInv => CompleteMeansSucceeded
    BY DEF IInv, Seen, CompleteMeansSucceeded
  <1> QED  BY <1>1, Invariance, PTL

-----------------------------------------------------------------------------
(* The controller implements the life cycle of a job. *)

\* What a step does to the job object: only a save that is not refused writes it.
LEMMA JobSteps ==
    ASSUME IInv, [Next]_vars
    PROVE  \/ UNCHANGED job
           \/ job' = copy /\ copy.state \in Successors(job.state)
  <1>1. CASE UNCHANGED vars
    BY <1>1 DEF vars, objects
  <1>2. CASE Initialise \/ Start \/ Miss \/ Observe \/ Ignore
    BY <1>2 DEF Initialise, Start, Miss, Observe, ObservesBatch, Ignore, ToSave,
                Done, Retried, objects
  <1>3. CASE Save
    BY <1>3 DEF Save, SaveOk, SaveRefused, objects, IInv, Caching
  <1>4. CASE Crash \/ SyncJob \/ SyncBatch \/ Cluster
    BY <1>4 DEF Crash, Dies, SyncJob, JobDelivered, SyncBatch, BatchDelivered,
                Cluster, ClusterMoves
  <1> QED  BY <1>1, <1>2, <1>3, <1>4 DEF Next, Reconcile

\* ObeysLifecycle holds: however late the controller reads and whatever fails,
\* a DbInitJob is taken up once, runs once and never leaves its final state.
THEOREM InitObeysLifecycle == Spec => ObeysLifecycle
  <1>1. Init => Lifecycle!Init
    BY DEF Init, ControllerInit, Lifecycle!Init
  <1>2. IInv /\ [Next]_vars => [Lifecycle!Next]_(Lifecycle!vars)
    <2> SUFFICES ASSUME IInv, [Next]_vars
                 PROVE  Lifecycle!Next \/ UNCHANGED Lifecycle!vars
      OBVIOUS
    <2>1. CASE UNCHANGED job
      BY <2>1 DEF Lifecycle!vars
    <2>2. CASE job' = copy /\ copy.state \in Successors(job.state)
      <3>1. \/ job.state = Unset /\ job'.state = "Pending"
            \/ job.state = "Pending" /\ job'.state = "Running"
            \/ job.state = "Pending" /\ job'.state = "Failed"
            \/ job.state = "Running" /\ job'.state \in {"Complete", "Failed"}
            \/ job.state = "Running" /\ job'.state = "Running"
        BY <2>2, UnsetDiffers DEF Successors, Final
      <3>2. CASE job.state = Unset /\ job'.state = "Pending"
        <4>1. Lifecycle!Take
          BY <3>2, UnsetDiffers, InitAssumption DEF Lifecycle!Take
        <4> QED  BY <4>1 DEF Lifecycle!Next
      <3>3. CASE job.state = "Pending" /\ job'.state = "Running"
        <4>1. Lifecycle!Start
          BY <3>3, UnsetDiffers DEF Lifecycle!Start
        <4> QED  BY <4>1 DEF Lifecycle!Next
      <3>4. CASE job.state = "Pending" /\ job'.state = "Failed"
        <4>1. Lifecycle!Reject
          BY <3>4, UnsetDiffers DEF Lifecycle!Reject
        <4> QED  BY <4>1 DEF Lifecycle!Next
      <3>5. CASE job.state = "Running" /\ job'.state \in {"Complete", "Failed"}
        <4>1. Lifecycle!Finish
          BY <3>5, UnsetDiffers DEF Lifecycle!Finish
        <4> QED  BY <4>1 DEF Lifecycle!Next
      <3>6. CASE job.state = "Running" /\ job'.state = "Running"
        BY <3>6, UnsetDiffers DEF Lifecycle!vars
      <3> QED  BY <3>1, <3>2, <3>3, <3>4, <3>5, <3>6
    <2> QED  BY <2>1, <2>2, JobSteps
  <1> QED
    BY <1>1, <1>2, Invariance, PTL DEF Spec, ObeysLifecycle, Lifecycle!Spec
=============================================================================
