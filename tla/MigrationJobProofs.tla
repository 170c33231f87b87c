------------------------- MODULE MigrationJobProofs -------------------------
(***************************************************************************)
(* Proofs about MigrationJob, for every set of tags, every limit and any   *)
(* number of edits, replacements and faults.                               *)
(***************************************************************************)
EXTENDS MigrationJob, TLAPS

-----------------------------------------------------------------------------
(* The inductive invariant. *)

\* Types, with counts that are not bounded yet.
JobShape == [tag : Tags, last : Tags \cup {Nothing},
             state : {"Pending", "Running", "Complete", "Failed"},
             notFound : Nat]

Shape ==
    /\ batch \in BatchType /\ batchCache \in BatchType
    /\ siteTag \in Tags /\ siteRead \in Tags
    /\ job \in JobShape /\ jobCache \in JobShape /\ copy \in JobShape
    /\ jobFresh \in BOOLEAN /\ queued \in BOOLEAN /\ current \in BOOLEAN
    /\ pc \in {"idle", "save"} /\ leftover \in BOOLEAN
    /\ resets \in Nat /\ finishedBy \in Nat
    /\ changesLeft \in 0..MaxChanges /\ faultsLeft \in 0..MaxFaults

\* Every start over uses up the first tag, an edit or a replacement: those not
\* used up yet are on their way from the site to the job's status.
One(b) == IF b THEN 1 ELSE 0

Budget ==
    resets + One(job.last # job.tag) + One(job.tag # siteRead)
        + One(siteRead # siteTag) + changesLeft <= MaxChanges + 1

\* The count passes its limit only by failing the job, and is then one further
\* at most with every start over; a job that has a last tag has started over.
Counts(j) ==
    /\ j.notFound <= NotFoundLimit + resets
    /\ j.state # "Failed" => \/ j.notFound <= NotFoundLimit
                             \/ j.notFound < NotFoundLimit + resets
    /\ j.last # Nothing => resets > 0

\* No batch Job is of a later start than the last one.
RunBefore(b) == b # Nothing => b.run <= resets

Counting ==
    /\ Counts(job) /\ Counts(jobCache)
    /\ copy.notFound <= NotFoundLimit + resets
    /\ RunBefore(batch) /\ RunBefore(batchCache) /\ finishedBy <= resets

\* What a reconcile of j may save: a start over, or a step of a settled job.
Restarts(j, c) ==
    /\ j.tag # j.last
    /\ c.tag = j.tag /\ c.last = j.tag /\ c.state = "Pending"

Successors(a) ==
    CASE a = "Pending" -> {"Running"}
      [] a = "Running" -> {"Running"} \cup Final
      [] OTHER -> {}

Advances(j, c) ==
    /\ j.tag = j.last
    /\ c.tag = j.tag /\ c.last = j.last /\ c.state \in Successors(j.state)
    /\ Counts(c)

\* The cache holds a version of the job; a save that the API server will not
\* refuse is of the latest one.
Caching ==
    /\ jobFresh => jobCache = job
    /\ current => /\ pc = "save" /\ jobFresh
                  /\ Restarts(job, copy) \/ Advances(job, copy)

\* A batch Job is of the last start over, or is being deleted; when a start
\* over is about to be saved, it is deleted.
Gone(b) == b = Nothing \/ b.deleting

Runs ==
    /\ Gone(batch) \/ batch.run = resets
    /\ current /\ copy.last # job.last => Gone(batch)

\* A started job that took over nothing old sees no batch Job but its own.
Own(b) == b = Nothing \/ b.run = resets

Owning ==
    ~leftover /\ (job.state # "Pending" \/ (current /\ copy.state = "Running"))
        => Own(batch) /\ Own(batchCache)

\* What is or is about to be Complete was finished by its own batch Job.
Finished ==
    ~leftover /\ (job.state = "Complete" \/ (current /\ copy.state = "Complete"))
        => finishedBy = resets

IInv == Shape /\ Budget /\ Counting /\ Caching /\ Runs /\ Owning /\ Finished

-----------------------------------------------------------------------------
(* The values a step writes. *)

LEMMA FaultType ==
    ASSUME Shape, Fault \/ UNCHANGED faultsLeft
    PROVE  faultsLeft' \in 0..MaxFaults
  BY ControllerAssumption DEF Shape, Fault

LEMMA NewBatchType ==
    ASSUME NEW r \in Nat,
           NEW b, b = [run |-> r, phase |-> "Active", deleting |-> FALSE]
    PROVE  b \in BatchObject /\ b.run = r /\ b # Nothing
  <1>1. [run |-> r, phase |-> "Active", deleting |-> FALSE] \in BatchObject
    BY DEF BatchObject
  <1>2. b \in BatchObject /\ b.run = r
    BY <1>1
  <1> QED  BY <1>2, BatchAssumption

LEMMA FinishedType ==
    ASSUME NEW b \in BatchObject, NEW p \in {"Complete", "Failed"}
    PROVE  /\ [b EXCEPT !.phase = p] \in BatchObject
           /\ [b EXCEPT !.phase = p].run = b.run
           /\ [b EXCEPT !.phase = p].deleting = b.deleting
  BY DEF BatchObject

\* DeleteAllOf leaves nothing, or the same batch Job, marked.
LEMMA DeletedBatch ==
    ASSUME batch \in BatchType, DeleteBatch
    PROVE  /\ batch' \in BatchType /\ Gone(batch')
           /\ batch' # Nothing => batch # Nothing /\ batch'.run = batch.run
  <1>1. CASE batch # Nothing /\ SlowDeletes
    <2>1. batch \in BatchObject /\ batch' = [batch EXCEPT !.deleting = TRUE]
      BY <1>1 DEF DeleteBatch, BatchType
    <2>2. /\ [batch EXCEPT !.deleting = TRUE] \in BatchObject
          /\ [batch EXCEPT !.deleting = TRUE].run = batch.run
          /\ [batch EXCEPT !.deleting = TRUE].deleting
      BY <2>1 DEF BatchObject
    <2> QED  BY <1>1, <2>1, <2>2 DEF BatchType, Gone
  <1>2. CASE ~(batch # Nothing /\ SlowDeletes)
    BY <1>2 DEF DeleteBatch, BatchType, Gone
  <1> QED  BY <1>1, <1>2

LEMMA NewJobShape ==
    ASSUME NEW t \in Tags
    PROVE  /\ NewJob(t) \in JobShape /\ NewJob(t).tag = t
           /\ NewJob(t).last = Nothing /\ NewJob(t).state = "Pending"
           /\ NewJob(t).notFound = 0
  BY DEF NewJob, JobShape

LEMMA WithStateShape ==
    ASSUME NEW j \in JobShape,
           NEW st \in {"Pending", "Running", "Complete", "Failed"}
    PROVE  /\ WithState(j, st) \in JobShape /\ WithState(j, st).state = st
           /\ WithState(j, st).tag = j.tag /\ WithState(j, st).last = j.last
           /\ WithState(j, st).notFound = j.notFound
  BY DEF JobShape, WithState

LEMMA WithCountShape ==
    ASSUME NEW j \in JobShape, NEW n \in Nat
    PROVE  /\ WithCount(j, n) \in JobShape /\ WithCount(j, n).state = j.state
           /\ WithCount(j, n).tag = j.tag /\ WithCount(j, n).last = j.last
           /\ WithCount(j, n).notFound = n
  BY DEF JobShape, WithCount

LEMMA WithTagShape ==
    ASSUME NEW j \in JobShape, NEW t \in Tags
    PROVE  /\ [j EXCEPT !.tag = t] \in JobShape /\ [j EXCEPT !.tag = t].tag = t
           /\ [j EXCEPT !.tag = t].last = j.last
           /\ [j EXCEPT !.tag = t].state = j.state
           /\ [j EXCEPT !.tag = t].notFound = j.notFound
  BY DEF JobShape

LEMMA Numbers ==
    ASSUME Shape
    PROVE  /\ NotFoundLimit \in Nat /\ MaxChanges \in Nat /\ resets \in Nat
           /\ finishedBy \in Nat /\ changesLeft \in Nat
           /\ \A j \in {job, jobCache, copy} : j \in JobShape /\ j.notFound \in Nat
           /\ \A b \in {batch, batchCache} :
                 b # Nothing => b \in BatchObject /\ b.run \in Nat
  <1>1. ASSUME NEW j \in JobShape PROVE j.notFound \in Nat
    BY DEF JobShape
  <1>2. ASSUME NEW b \in BatchObject PROVE b.run \in Nat
    BY DEF BatchObject
  <1>3. NotFoundLimit \in Nat /\ MaxChanges \in Nat
    BY ControllerAssumption, MigrationAssumption
  <1>4. resets \in Nat /\ finishedBy \in Nat /\ changesLeft \in Nat
    BY <1>3 DEF Shape
  <1> QED  BY <1>1, <1>2, <1>3, <1>4 DEF Shape, BatchType

\* What a reconcile that has something to save does to a settled job.
LEMMA AdvancesTo ==
    ASSUME Shape, Counting, jobCache.tag = jobCache.last,
           NEW st \in Successors(jobCache.state), NEW n \in Nat,
           n <= NotFoundLimit \/ (st = "Failed" /\ n <= NotFoundLimit + resets)
             \/ (n = jobCache.notFound /\ jobCache.state # "Failed")
    PROVE  LET j == WithCount(WithState(jobCache, st), n) IN
             j \in JobShape /\ Advances(jobCache, j) /\ j.state = st
             /\ j.notFound = n
  <1>1. jobCache \in JobShape /\ st \in {"Pending", "Running", "Complete", "Failed"}
    BY DEF Shape, Successors, Final
  <1> DEFINE i == WithState(jobCache, st)
             j == WithCount(i, n)
  <1>2. /\ i \in JobShape /\ i.state = st /\ i.tag = jobCache.tag
        /\ i.last = jobCache.last
    BY <1>1, WithStateShape
  <1> HIDE DEF i
  <1>3. /\ j \in JobShape /\ j.state = st /\ j.tag = jobCache.tag
        /\ j.last = jobCache.last /\ j.notFound = n
    BY <1>2, WithCountShape
  <1> HIDE DEF j
  <1>4. Counts(jobCache)
    BY DEF Counting
  <1>5. n <= NotFoundLimit + resets
        /\ (st # "Failed" => n <= NotFoundLimit \/ n < NotFoundLimit + resets)
    BY <1>4, Numbers DEF Counts
  <1>6. Counts(j)
    BY <1>3, <1>4, <1>5 DEF Counts
  <1> QED  BY <1>3, <1>6 DEF Advances, i, j

-----------------------------------------------------------------------------
LEMMA InvInit == Init => IInv
  <1> SUFFICES ASSUME Init PROVE IInv
    OBVIOUS
  <1>1. /\ siteTag \in Tags /\ siteRead = siteTag
        /\ job = NewJob(siteTag) /\ jobCache = job /\ copy = job
        /\ batch = Nothing /\ batchCache = Nothing
        /\ pc = "idle" /\ faultsLeft = MaxFaults /\ changesLeft = MaxChanges
        /\ resets = 0 /\ finishedBy = 0
    BY DEF Init, ControllerInit, BatchInit
  <1>2. jobFresh \in BOOLEAN /\ queued \in BOOLEAN /\ ~current /\ current \in BOOLEAN
        /\ leftover \in BOOLEAN
    BY Zenon DEF Init, ControllerInit
  <1>3. /\ job \in JobShape /\ job.tag = siteTag /\ job.last = Nothing
        /\ job.state = "Pending" /\ job.notFound = 0
    BY <1>1, NewJobShape
  <1>4. /\ changesLeft \in 0..MaxChanges /\ faultsLeft \in 0..MaxFaults
    BY <1>1, ControllerAssumption, MigrationAssumption
  <1>5. Shape
    BY <1>1, <1>2, <1>3, <1>4 DEF Shape, BatchType
  <1>6. Budget
    BY <1>1, <1>3, MigrationAssumption DEF Budget, One
  <1>7. Counting
    <2>1. Counts(job)
      BY <1>1, <1>3, ControllerAssumption DEF Counts
    <2> QED  BY <1>1, <2>1 DEF Counting, RunBefore, Counts
  <1>8. Caching /\ Runs /\ Owning /\ Finished
    BY <1>1, <1>2, <1>3 DEF Caching, Runs, Gone, Owning, Finished
  <1> QED  BY <1>5, <1>6, <1>7, <1>8 DEF IInv

-----------------------------------------------------------------------------
(* What a reconcile hands to its save. *)

LEMMA Saves ==
    ASSUME IInv, NEW j \in JobShape, j.notFound <= NotFoundLimit + resets,
           Restarts(jobCache, j) \/ Advances(jobCache, j),
           Begins, ToSave(j), UNCHANGED <<site, resets, changesLeft>>,
           Fault \/ UNCHANGED faultsLeft,
           batch' \in BatchType, batch' # Nothing => batch'.run <= resets,
           finishedBy' \in Nat, finishedBy' <= resets, leftover' \in BOOLEAN
    PROVE  (Shape /\ Budget /\ Counting /\ Caching)'
  <1>1. Shape /\ Budget /\ Counting /\ Caching
    BY DEF IInv
  <1>2. /\ pc' = "save" /\ copy' = j /\ current' = jobFresh /\ queued' = FALSE
        /\ UNCHANGED <<batchCache, job, jobCache, jobFresh, siteTag, siteRead,
                       resets, changesLeft>>
    BY DEF ToSave, site
  <1>3. faultsLeft' \in 0..MaxFaults
    BY <1>1, FaultType
  <1>4. Shape'
    <2>1. queued' \in BOOLEAN /\ jobFresh' \in BOOLEAN /\ current' \in BOOLEAN
      BY <1>1, <1>2, Zenon DEF Shape
    <2> QED  BY <1>1, <1>2, <1>3, <2>1 DEF Shape
  <1>5. Budget'
    BY <1>1, <1>2 DEF Budget
  <1>6. Counting'
    BY <1>1, <1>2 DEF Counting, Counts, RunBefore
  <1>7. Caching'
    <2>1. Restarts(jobCache, j) \/ Advances(jobCache, j)'
      BY <1>2 DEF Advances, Counts
    <2> QED  BY <1>1, <1>2, <2>1 DEF Caching, Restarts, Advances, Counts
  <1> QED  BY <1>4, <1>5, <1>6, <1>7

LEMMA Kept ==
    ASSUME IInv,
           UNCHANGED <<batch, batchCache, siteTag, siteRead, job, jobCache,
                       jobFresh, pc, copy, current, resets, finishedBy,
                       changesLeft>>,
           faultsLeft' \in 0..MaxFaults, queued' \in BOOLEAN,
           leftover' \in BOOLEAN, leftover => leftover'
    PROVE  IInv'
  <1>1. Shape' /\ Budget'
    BY DEF IInv, Shape, Budget
  <1>2. Counting' /\ Caching'
    BY DEF IInv, Counting, Counts, RunBefore, Caching, Restarts, Advances
  <1>3. Runs'
    BY DEF IInv, Runs, Gone
  <1>4. Owning' /\ Finished'
    BY DEF IInv, Owning, Own, Finished
  <1> QED  BY <1>1, <1>2, <1>3, <1>4 DEF IInv

LEMMA ResetStep == IInv /\ Reset => IInv'
  <1> SUFFICES ASSUME IInv, Reset PROVE IInv'
    OBVIOUS
  <1>1. Shape /\ Counting /\ jobCache.tag # jobCache.last /\ Begins
        /\ UNCHANGED <<site, resets, finishedBy, leftover, changesLeft>>
    BY DEF IInv, Reset, history
  <1>2. CASE Fault /\ Retried
    <2>1. faultsLeft' \in 0..MaxFaults
      BY <1>1, <1>2, FaultType
    <2> QED
      BY <1>1, <1>2, <2>1, Kept DEF Retried, objects, reconcile, site, Shape
  <1> DEFINE i == [jobCache EXCEPT !.last = jobCache.tag]
             j == WithState(i, "Pending")
  <1>3. CASE DeleteBatch /\ ToSave(j) /\ UNCHANGED faultsLeft
    <2>1. /\ i \in JobShape /\ i.last = jobCache.tag /\ i.tag = jobCache.tag
          /\ i.notFound = jobCache.notFound
      <3>1. jobCache \in JobShape
        BY <1>1 DEF Shape
      <3> QED  BY <3>1 DEF JobShape
    <2> HIDE DEF i
    <2>2. /\ j \in JobShape /\ j.last = jobCache.tag /\ j.tag = jobCache.tag
          /\ j.state = "Pending" /\ j.notFound = jobCache.notFound
      BY <2>1, WithStateShape
    <2> HIDE DEF j
    <2>3. j.notFound <= NotFoundLimit + resets /\ Restarts(jobCache, j)
      BY <1>1, <2>2 DEF Counting, Counts, Restarts
    <2>4. batch' \in BatchType /\ Gone(batch')
          /\ (batch' # Nothing => batch # Nothing /\ batch'.run = batch.run)
      BY <1>1, <1>3, DeletedBatch DEF Shape
    <2>5. (Shape /\ Budget /\ Counting /\ Caching)'
      <3>1. finishedBy' \in Nat /\ finishedBy' <= resets /\ leftover' \in BOOLEAN
        BY <1>1 DEF Shape, Counting
      <3>2. batch' # Nothing => batch'.run <= resets
        BY <1>1, <2>4 DEF Counting, RunBefore
      <3> QED  BY <1>1, <1>3, <2>2, <2>3, <2>4, <3>1, <3>2, Saves
    <2>6. Runs'
      BY <2>4 DEF Runs, Gone
    <2>7. copy'.state = "Pending" /\ UNCHANGED <<job, batchCache>>
      BY <1>3, <2>2 DEF ToSave
    <2>8. Owning'
      BY <1>1, <2>4, <2>7 DEF IInv, Owning, Own
    <2>9. Finished'
      BY <1>1, <2>7 DEF IInv, Finished
    <2> QED  BY <2>5, <2>6, <2>8, <2>9 DEF IInv
  <1> QED  BY <1>2, <1>3 DEF Reset

\* createJobIfNeeded: what it takes over undeleted, or creates, is its own.
LEMMA StartStep == IInv /\ Start => IInv'
  <1> SUFFICES ASSUME IInv, Start PROVE IInv'
    OBVIOUS
  <1>1. /\ Shape /\ Counting /\ Caching /\ Begins
        /\ jobCache.tag = jobCache.last /\ jobCache.state = "Pending"
        /\ UNCHANGED <<site, resets, finishedBy, changesLeft>>
    BY DEF IInv, Start, Settled
  <1>2. CASE Retried /\ (Fault \/ UNCHANGED faultsLeft) /\ UNCHANGED leftover
    <2>1. faultsLeft' \in 0..MaxFaults
      BY <1>1, <1>2, FaultType
    <2> QED
      BY <1>1, <1>2, <2>1, Kept DEF Retried, objects, reconcile, site, Shape
  <1> DEFINE j == WithState(jobCache, "Running")
  <1>3. CASE /\ ToSave(j) /\ UNCHANGED faultsLeft
             /\ \/ /\ batchCache # Nothing /\ UNCHANGED batch
                   /\ leftover' = (leftover \/ ListsDeleted)
                \/ /\ batchCache = Nothing /\ CreateBatch(resets)
                   /\ UNCHANGED leftover
    <2>1. /\ j \in JobShape /\ j.state = "Running" /\ j.tag = jobCache.tag
          /\ j.last = jobCache.last /\ j.notFound = jobCache.notFound
      <3>1. jobCache \in JobShape
        BY <1>1 DEF Shape
      <3> QED  BY <3>1, WithStateShape
    <2> HIDE DEF j
    <2>2. j.notFound <= NotFoundLimit + resets /\ Advances(jobCache, j)
      BY <1>1, <2>1 DEF Counting, Counts, Advances, Successors
    <2>3. /\ batch' \in BatchType
          /\ batch' # Nothing => batch'.run <= resets
          /\ leftover' \in BOOLEAN /\ (leftover => leftover')
      <3>1. CASE batchCache # Nothing /\ UNCHANGED batch
                 /\ leftover' = (leftover \/ ListsDeleted)
        BY <1>1, <3>1 DEF Shape, Counting, RunBefore
      <3>2. CASE CreateBatch(resets) /\ UNCHANGED leftover
        <4>1. batch' \in BatchObject /\ batch'.run = resets
          BY <1>1, <3>2, Numbers, NewBatchType DEF CreateBatch
        <4>2. batch' \in BatchType /\ batch'.run <= resets
          BY <1>1, <4>1, Numbers DEF BatchType
        <4>3. leftover' \in BOOLEAN /\ (leftover => leftover')
          BY <1>1, <3>2, Zenon DEF Shape
        <4> QED  BY <4>2, <4>3
      <3> QED  BY <1>3, <3>1, <3>2
    <2>4. (Shape /\ Budget /\ Counting /\ Caching)'
      <3>1. finishedBy' \in Nat /\ finishedBy' <= resets
        BY <1>1 DEF Shape, Counting
      <3> QED  BY <1>1, <1>3, <2>1, <2>2, <2>3, <3>1, Saves
    <2>5. Gone(batch') \/ batch'.run = resets
      <3>1. CASE UNCHANGED batch
        BY <3>1 DEF IInv, Runs
      <3>2. CASE CreateBatch(resets)
        BY <1>1, <3>2, Numbers, NewBatchType DEF CreateBatch
      <3> QED  BY <1>3, <3>1, <3>2
    <2>6. Runs'
      <3>1. current' => copy'.last = job'.last
        BY <1>1, <1>3, <2>1 DEF ToSave, Caching
      <3> QED  BY <1>1, <2>5, <3>1 DEF Runs, Gone
    <2>7. ~leftover' => Own(batch') /\ Own(batchCache)
      <3>1. CASE batchCache # Nothing /\ UNCHANGED batch
                 /\ leftover' = (leftover \/ ListsDeleted)
        BY <3>1 DEF ListsDeleted, IInv, Runs, Gone, Own
      <3>2. CASE batchCache = Nothing /\ CreateBatch(resets)
        BY <1>1, <3>2, Numbers, NewBatchType DEF CreateBatch, Own
      <3> QED  BY <1>3, <3>1, <3>2
    <2>8. Owning'
      BY <1>1, <1>3, <2>7 DEF Owning, Own, ToSave
    <2>9. Finished'
      BY <1>1, <1>3, <2>1, <2>3 DEF ToSave, IInv, Finished
    <2> QED  BY <2>4, <2>6, <2>8, <2>9 DEF IInv
  <1> QED  BY <1>2, <1>3 DEF Start

LEMMA MissStep == IInv /\ Miss => IInv'
  <1> SUFFICES ASSUME IInv, Miss PROVE IInv'
    OBVIOUS
  <1>1. /\ Shape /\ Counting /\ Caching /\ Begins
        /\ jobCache.tag = jobCache.last /\ jobCache.state = "Running"
        /\ ToSave(MissesBatch(jobCache))
        /\ UNCHANGED <<batch, faultsLeft, site, resets, finishedBy, leftover,
                       changesLeft>>
    BY DEF IInv, Miss, Settled, history
  <1> DEFINE n == jobCache.notFound + 1
             st == IF n > NotFoundLimit THEN "Failed" ELSE "Running"
             j == WithCount(WithState(jobCache, st), n)
  <1>2. MissesBatch(jobCache) = j
    BY DEF MissesBatch
  <1>3. resets > 0
    BY <1>1, MigrationAssumption DEF Counting, Counts, Shape, JobShape
  <1>4. /\ n \in Nat
        /\ n <= NotFoundLimit \/ (st = "Failed" /\ n <= NotFoundLimit + resets)
    BY <1>1, <1>3, Numbers DEF Counting, Counts
  <1>5. st \in Successors(jobCache.state) /\ st \in {"Running", "Failed"}
    BY <1>1 DEF Successors, Final
  <1> HIDE DEF n, st
  <1>6. j \in JobShape /\ Advances(jobCache, j) /\ j.state = st /\ j.notFound = n
    BY <1>1, <1>4, <1>5, AdvancesTo
  <1> HIDE DEF j
  <1>7. j.notFound <= NotFoundLimit + resets
    BY <1>6 DEF Advances, Counts
  <1>8. (Shape /\ Budget /\ Counting /\ Caching)'
    <2>1. /\ batch' \in BatchType /\ (batch' # Nothing => batch'.run <= resets)
          /\ finishedBy' \in Nat /\ finishedBy' <= resets /\ leftover' \in BOOLEAN
      BY <1>1 DEF Shape, Counting, RunBefore
    <2> QED  BY <1>1, <1>2, <1>6, <1>7, <2>1, Saves
  <1>9. /\ copy' = j /\ current' = jobFresh /\ UNCHANGED <<job, batchCache>>
        /\ current' => job.state = "Running" /\ copy'.last = job.last
    BY <1>1, <1>2, <1>6 DEF ToSave, Caching, Advances
  <1>10. Runs'
    BY <1>1, <1>9 DEF IInv, Runs, Gone
  <1>11. Owning'
    BY <1>1, <1>9 DEF IInv, Owning, Own
  <1>12. Finished'
    BY <1>1, <1>5, <1>6, <1>9 DEF IInv, Finished
  <1> QED  BY <1>8, <1>10, <1>11, <1>12 DEF IInv

\* processRunningJob takes over the end of its own batch Job.
LEMMA ObserveStep == IInv /\ Observe => IInv'
  <1> SUFFICES ASSUME IInv, Observe PROVE IInv'
    OBVIOUS
  <1>1. /\ Shape /\ Counting /\ Caching /\ Begins /\ batchCache # Nothing
        /\ jobCache.tag = jobCache.last /\ jobCache.state = "Running"
        /\ finishedBy' = (IF batchCache.phase = "Complete" THEN batchCache.run
                          ELSE finishedBy)
        /\ UNCHANGED <<batch, site, resets, leftover, changesLeft>>
    BY DEF IInv, Observe, Settled
  <1>2. CASE batchCache.phase = "Active" /\ Done /\ UNCHANGED faultsLeft
    <2>1. UNCHANGED finishedBy
      BY <1>1, <1>2
    <2> QED
      BY <1>1, <1>2, <2>1, Kept DEF Done, objects, site, Shape
  <1>3. ASSUME NEW st \in {"Running", "Complete", "Failed"},
               ToSave(WithCount(WithState(jobCache, st), 0)),
               st = "Complete" => batchCache.phase = "Complete",
               Fault \/ UNCHANGED faultsLeft
        PROVE  IInv'
    <2> DEFINE j == WithCount(WithState(jobCache, st), 0)
    <2>1. st \in Successors(jobCache.state)
      BY <1>1 DEF Successors, Final
    <2>2. 0 \in Nat /\ 0 <= NotFoundLimit
      BY Numbers, <1>1
    <2>3. j \in JobShape /\ Advances(jobCache, j) /\ j.state = st /\ j.notFound = 0
      BY <1>1, <2>1, <2>2, AdvancesTo
    <2>4. ToSave(j)
      BY <1>3
    <2> HIDE DEF j
    <2>5. j.notFound <= NotFoundLimit + resets
      BY <2>3 DEF Advances, Counts
    <2>6. (Shape /\ Budget /\ Counting /\ Caching)'
      <3>1. /\ batch' \in BatchType /\ (batch' # Nothing => batch'.run <= resets)
            /\ leftover' \in BOOLEAN
        BY <1>1 DEF Shape, Counting, RunBefore
      <3>2. finishedBy' \in Nat /\ finishedBy' <= resets
        BY <1>1, Numbers DEF Counting, RunBefore
      <3> QED  BY <1>1, <1>3, <2>3, <2>4, <2>5, <3>1, <3>2, Saves
    <2>7. /\ copy' = j /\ current' = jobFresh /\ UNCHANGED <<job, batchCache>>
          /\ current' => job.state = "Running" /\ copy'.last = job.last
      BY <1>1, <2>3, <2>4 DEF ToSave, Caching, Advances
    <2>8. Runs'
      BY <1>1, <2>7 DEF IInv, Runs, Gone
    <2>9. Owning'
      BY <1>1, <2>7 DEF IInv, Owning, Own
    <2>10. Finished'
      <3>1. ~leftover' /\ (job'.state = "Complete" \/ (current' /\ st = "Complete"))
              => Own(batchCache)
        BY <1>1, <2>7 DEF IInv, Owning
      <3> QED  BY <1>1, <1>3, <2>3, <2>7, <3>1 DEF IInv, Finished, Own
    <2> QED  BY <2>6, <2>8, <2>9, <2>10 DEF IInv
  <1>4. CASE /\ batchCache.phase \in Final
             /\ ToSave(WithCount(WithState(jobCache, batchCache.phase), 0))
             /\ UNCHANGED faultsLeft
    BY <1>3, <1>4 DEF Final
  <1>5. CASE ToSave(WithCount(WithState(jobCache, "Failed"), 0)) /\ Fault
    BY <1>3, <1>5
  <1>6. CASE ToSave(WithCount(jobCache, 0)) /\ UNCHANGED faultsLeft
    <2>1. jobCache \in JobShape
      BY <1>1 DEF Shape
    <2>2. WithState(jobCache, "Running") = jobCache
      BY <1>1, <2>1 DEF WithState, JobShape
    <2> QED  BY <1>3, <1>6, <2>2
  <1> QED  BY <1>1, <1>2, <1>4, <1>5, <1>6 DEF Observe, ObservesBatch

LEMMA IgnoreStep == IInv /\ Ignore => IInv'
  <1> SUFFICES ASSUME IInv, Ignore PROVE IInv'
    OBVIOUS
  <1> QED
    BY Kept DEF Ignore, Done, objects, site, history, IInv, Shape

-----------------------------------------------------------------------------
(* The save, and the steps of the others. *)

LEMMA SaveStep == IInv /\ Save => IInv'
  <1> SUFFICES ASSUME IInv, Save PROVE IInv'
    OBVIOUS
  <1>1. Shape /\ Budget /\ Counting /\ Caching
    BY DEF IInv
  <1>2. CASE SaveRefused /\ UNCHANGED <<resets, leftover>>
    <2>1. /\ pc' = "idle" /\ ~current' /\ current' \in BOOLEAN
          /\ queued' \in BOOLEAN /\ faultsLeft' \in 0..MaxFaults
          /\ UNCHANGED <<objects, copy, resets, leftover, finishedBy, site,
                         changesLeft>>
      BY <1>1, <1>2, FaultType DEF SaveRefused, Save
    <2>2. Shape' /\ Budget'
      BY <1>1, <2>1 DEF Shape, Budget, objects, site
    <2>3. Counting' /\ Caching'
      BY <1>1, <2>1 DEF Counting, Counts, RunBefore, Caching, objects
    <2>4. Runs' /\ Owning' /\ Finished'
      BY <2>1 DEF IInv, Runs, Gone, Owning, Own, Finished, objects
    <2> QED  BY <2>2, <2>3, <2>4 DEF IInv
  <1>3. CASE /\ SaveOk(copy.last # job.last)
             /\ IF copy.last # job.last
                THEN resets' = resets + 1 /\ leftover' = FALSE
                ELSE UNCHANGED <<resets, leftover>>
    <2>1. /\ job' = copy /\ ~jobFresh' /\ jobFresh' \in BOOLEAN /\ pc' = "idle"
          /\ ~current' /\ current' \in BOOLEAN /\ queued' \in BOOLEAN
          /\ UNCHANGED <<batch, batchCache, jobCache, copy, faultsLeft,
                         finishedBy, siteTag, siteRead, changesLeft>>
      BY <1>1, <1>3 DEF SaveOk, Save, site, Shape
    <2>2. current /\ (Restarts(job, copy) \/ Advances(job, copy))
      BY <1>1, <1>3 DEF SaveOk, Caching
    <2>3. CASE Restarts(job, copy)
      <3>1. /\ copy.last # job.last /\ resets' = resets + 1 /\ leftover' = FALSE
            /\ copy.tag = job.tag /\ copy.last = job.tag /\ copy.state = "Pending"
            /\ job.last # job.tag
        BY <1>3, <2>3 DEF Restarts
      <3>2. Shape'
        <4>1. resets' \in Nat
          BY <1>1, <3>1, Numbers
        <4>2. leftover' \in BOOLEAN
          BY <3>1
        <4> QED  BY <1>1, <2>1, <4>1, <4>2 DEF Shape
      <3>3. Budget'
        <4>1. One(job'.last # job'.tag) = 0 /\ One(job.last # job.tag) = 1
          BY <2>1, <3>1 DEF One
        <4>2. UNCHANGED <<One(job.tag # siteRead), One(siteRead # siteTag)>>
          BY <2>1, <3>1
        <4>3. One(job.tag # siteRead) \in Nat /\ One(siteRead # siteTag) \in Nat
          BY DEF One
        <4> QED
          BY <1>1, <2>1, <3>1, <4>1, <4>2, <4>3, Numbers DEF Budget
      <3>4. Counting'
        <4>1. Counts(jobCache)' /\ RunBefore(batch)' /\ RunBefore(batchCache)'
              /\ finishedBy' <= resets'
          BY <1>1, <2>1, <3>1, Numbers DEF Counting, Counts, RunBefore
        <4>2. Counts(job)' /\ copy'.notFound <= NotFoundLimit + resets'
          BY <1>1, <2>1, <3>1, Numbers DEF Counting, Counts
        <4> QED  BY <4>1, <4>2 DEF Counting
      <3>5. Caching' /\ Owning' /\ Finished'
        BY <2>1, <3>1 DEF Caching, Owning, Finished
      <3>6. Runs'
        BY <2>1, <2>2, <3>1 DEF IInv, Runs, Gone
      <3> QED  BY <3>2, <3>3, <3>4, <3>5, <3>6 DEF IInv
    <2>4. CASE Advances(job, copy)
      <3>1. /\ copy.last = job.last /\ copy.tag = job.tag
            /\ UNCHANGED <<resets, leftover>>
            /\ copy.state \in Successors(job.state) /\ Counts(copy)
        BY <1>3, <2>4 DEF Advances
      <3>2. Shape' /\ Budget'
        BY <1>1, <2>1, <3>1 DEF Shape, Budget
      <3>3. Counting' /\ Caching'
        BY <1>1, <2>1, <3>1 DEF Counting, Counts, RunBefore, Caching
      <3>4. Runs'
        BY <2>1, <3>1 DEF IInv, Runs, Gone
      <3>5. Owning' /\ Finished'
        <4>1. \/ job.state = "Pending" /\ copy.state = "Running"
              \/ /\ job.state = "Running"
                 /\ copy.state \in {"Running", "Complete", "Failed"}
          BY <1>1, <3>1 DEF Successors, Final
        <4> QED
          BY <2>1, <2>2, <3>1, <4>1 DEF IInv, Owning, Own, Finished
      <3> QED  BY <3>2, <3>3, <3>4, <3>5 DEF IInv
    <2> QED  BY <2>2, <2>3, <2>4
  <1> QED  BY <1>2, <1>3 DEF Save

LEMMA CrashStep == IInv /\ Crash => IInv'
  <1> SUFFICES ASSUME IInv, Crash PROVE IInv'
    OBVIOUS
  <1>1. /\ pc' = "idle" /\ ~current' /\ current' \in BOOLEAN /\ queued' \in BOOLEAN
        /\ jobCache' = job /\ jobFresh' \in BOOLEAN /\ batchCache' = batch
        /\ UNCHANGED <<batch, job, copy, siteTag, siteRead, resets, finishedBy,
                       leftover, changesLeft>>
        /\ faultsLeft' \in 0..MaxFaults
    BY FaultType DEF Crash, Dies, IInv, site, history
  <1>2. Shape' /\ Budget'
    BY <1>1 DEF IInv, Shape, Budget
  <1>3. Counting' /\ Caching'
    BY <1>1 DEF IInv, Counting, Counts, RunBefore, Caching
  <1>4. Runs' /\ Owning' /\ Finished'
    BY <1>1 DEF IInv, Runs, Gone, Owning, Own, Finished
  <1> QED  BY <1>2, <1>3, <1>4 DEF IInv

LEMMA SyncJobStep == IInv /\ SyncJob => IInv'
  <1> SUFFICES ASSUME IInv, SyncJob PROVE IInv'
    OBVIOUS
  <1>1. /\ jobCache' = job /\ jobFresh' \in BOOLEAN /\ queued' \in BOOLEAN
        /\ ~jobFresh /\ UNCHANGED current
        /\ UNCHANGED <<batch, batchCache, job, pc, copy, faultsLeft, siteTag,
                       siteRead, resets, finishedBy, leftover, changesLeft>>
    BY DEF SyncJob, JobDelivered, site, history
  <1>2. Shape' /\ Budget'
    BY <1>1 DEF IInv, Shape, Budget
  <1>3. Counting' /\ Caching'
    BY <1>1 DEF IInv, Counting, Counts, RunBefore, Caching
  <1>4. Runs' /\ Owning' /\ Finished'
    BY <1>1 DEF IInv, Runs, Gone, Owning, Own, Finished
  <1> QED  BY <1>2, <1>3, <1>4 DEF IInv

LEMMA SyncBatchStep == IInv /\ SyncBatch => IInv'
  <1> SUFFICES ASSUME IInv, SyncBatch PROVE IInv'
    OBVIOUS
  <1>1. /\ batchCache' = batch /\ queued' \in BOOLEAN
        /\ UNCHANGED <<batch, job, jobCache, jobFresh, pc, copy, current,
                       faultsLeft, siteTag, siteRead, resets, finishedBy,
                       leftover, changesLeft>>
    BY DEF SyncBatch, BatchDelivered, DeliverBatch, site, history
  <1>2. Shape' /\ Budget'
    BY <1>1 DEF IInv, Shape, Budget
  <1>3. Counting' /\ Caching'
    BY <1>1 DEF IInv, Counting, Counts, RunBefore, Caching, Restarts, Advances
  <1>4. Runs' /\ Owning' /\ Finished'
    BY <1>1 DEF IInv, Runs, Gone, Owning, Own, Finished
  <1> QED  BY <1>2, <1>3, <1>4 DEF IInv

LEMMA ClusterStep == IInv /\ Cluster => IInv'
  <1> SUFFICES ASSUME IInv, Cluster PROVE IInv'
    OBVIOUS
  <1>1. UNCHANGED <<batchCache, job, jobCache, jobFresh, queued, pc, copy,
                    current, faultsLeft, siteTag, siteRead, resets, finishedBy,
                    leftover, changesLeft>>
    BY DEF Cluster, ClusterMoves, reconcile, site, history
  <1>2. /\ batch # Nothing /\ batch \in BatchObject
        /\ \/ batch' = Nothing
           \/ \E p \in {"Complete", "Failed"} : batch' = [batch EXCEPT !.phase = p]
    BY DEF Cluster, ClusterMoves, FinishBatch, RemoveBatch, ExpireBatch, IInv,
           Shape, BatchType
  <1>3. /\ batch' \in BatchType
        /\ batch' = Nothing \/ (/\ batch'.run = batch.run
                                /\ batch'.deleting = batch.deleting)
    BY <1>2, FinishedType DEF BatchType
  <1>4. Shape' /\ Budget'
    BY <1>1, <1>3 DEF IInv, Shape, Budget
  <1>5. Counting' /\ Caching'
    BY <1>1, <1>2, <1>3
    DEF IInv, Counting, Counts, RunBefore, Caching, Restarts, Advances
  <1>6. Runs'
    BY <1>1, <1>2, <1>3 DEF IInv, Runs, Gone
  <1>7. Owning' /\ Finished'
    BY <1>1, <1>2, <1>3 DEF IInv, Owning, Own, Finished
  <1> QED  BY <1>4, <1>5, <1>6, <1>7 DEF IInv

\* The user's and the site reconciler's edits: what stays of the invariant.
LEMMA EditsKeep ==
    ASSUME IInv, UNCHANGED <<batch, batchCache, job, jobCache, jobFresh, pc,
                             copy, current, resets, finishedBy, leftover>>
    PROVE  (Counting /\ Caching /\ Runs /\ Owning /\ Finished)'
  <1>1. Counting' /\ Caching'
    BY DEF IInv, Counting, Counts, RunBefore, Caching, Restarts, Advances
  <1>2. Runs' /\ Owning' /\ Finished'
    BY DEF IInv, Runs, Gone, Owning, Own, Finished
  <1> QED  BY <1>1, <1>2

LEMMA EditStep ==
    ASSUME IInv, ReadSite \/ \E t \in Tags : ChangeTag(t)
    PROVE  IInv'
  <1>1. UNCHANGED <<batch, batchCache, job, jobCache, jobFresh, queued, pc, copy,
                    current, faultsLeft, resets, finishedBy, leftover>>
    BY DEF ReadSite, ChangeTag, objects, reconcile, history
  <1>2. Counting' /\ Caching' /\ Runs' /\ Owning' /\ Finished'
    BY <1>1, EditsKeep
  <1>3. Shape' /\ Budget'
    <2>1. CASE ReadSite
      <3>1. Shape'
        BY <1>1, <2>1 DEF IInv, Shape, ReadSite
      <3>2. /\ One(siteRead # siteTag) = 1 /\ One(siteRead' # siteTag') = 0
            /\ UNCHANGED <<resets, changesLeft, job>>
        BY <1>1, <2>1 DEF ReadSite, One
      <3>3. One(job.tag # siteRead) >= 0 /\ One(job.tag # siteRead') <= 1
            /\ One(job.tag # siteRead) \in Nat /\ One(job.tag # siteRead') \in Nat
            /\ One(job.last # job.tag) \in Nat
        BY DEF One
      <3> QED
        BY <3>1, <3>2, <3>3, Numbers DEF IInv, Budget
    <2>2. CASE \E t \in Tags : ChangeTag(t)
      <3>1. /\ siteTag' \in Tags /\ changesLeft > 0
            /\ changesLeft' = changesLeft - 1 /\ UNCHANGED siteRead
        BY <2>2 DEF ChangeTag
      <3>2. changesLeft' \in 0..MaxChanges
        BY <3>1, Numbers DEF IInv, Shape
      <3>3. Shape'
        BY <1>1, <3>1, <3>2 DEF IInv, Shape
      <3>4. One(siteRead # siteTag) >= 0 /\ One(siteRead # siteTag') <= 1
            /\ One(siteRead # siteTag) \in Nat /\ One(siteRead # siteTag') \in Nat
            /\ One(job.last # job.tag) \in Nat /\ One(job.tag # siteRead) \in Nat
        BY DEF One
      <3>5. UNCHANGED <<resets, job>>
        BY <1>1
      <3> QED
        BY <3>1, <3>3, <3>4, <3>5, Numbers DEF IInv, Budget
    <2> QED  BY <2>1, <2>2
  <1> QED  BY <1>2, <1>3 DEF IInv

\* The job gets a new tag, or is replaced: what the controller read or is about
\* to save is no longer current.
LEMMA UpdateSpecStep == IInv /\ UpdateSpec => IInv'
  <1> SUFFICES ASSUME IInv, UpdateSpec PROVE IInv'
    OBVIOUS
  <1>1. /\ jobFresh /\ job.tag # siteRead /\ job' = [job EXCEPT !.tag = siteRead]
        /\ ~jobFresh' /\ jobFresh' \in BOOLEAN /\ ~current' /\ current' \in BOOLEAN
        /\ UNCHANGED <<batch, batchCache, jobCache, queued, pc, copy, faultsLeft,
                       siteTag, siteRead, resets, finishedBy, leftover,
                       changesLeft>>
    BY DEF UpdateSpec, site, history
  <1>2. /\ job' \in JobShape /\ job'.tag = siteRead /\ job'.last = job.last
        /\ job'.state = job.state /\ job'.notFound = job.notFound
    BY <1>1, WithTagShape DEF IInv, Shape
  <1>3. Shape'
    BY <1>1, <1>2 DEF IInv, Shape
  <1>4. Budget'
    <2>1. One(job.tag # siteRead) = 1 /\ One(job'.tag # siteRead') = 0
      BY <1>1, <1>2 DEF One
    <2>2. /\ One(job.last # job.tag) \in Nat /\ One(job'.last # job'.tag) \in Nat
          /\ One(job'.last # job'.tag) <= 1 /\ One(siteRead # siteTag) \in Nat
      BY DEF One
    <2>3. UNCHANGED <<resets, siteRead, siteTag, changesLeft>>
      BY <1>1
    <2> QED  BY <2>1, <2>2, <2>3, Numbers DEF IInv, Budget
  <1>5. Counting' /\ Caching'
    BY <1>1, <1>2 DEF IInv, Counting, Counts, RunBefore, Caching
  <1>6. Runs' /\ Owning' /\ Finished'
    BY <1>1, <1>2 DEF IInv, Runs, Gone, Owning, Own, Finished
  <1> QED  BY <1>3, <1>4, <1>5, <1>6 DEF IInv

LEMMA ReplaceStep == IInv /\ Replace => IInv'
  <1> SUFFICES ASSUME IInv, Replace PROVE IInv'
    OBVIOUS
  <1>1. /\ changesLeft > 0 /\ changesLeft' = changesLeft - 1 /\ DeleteBatch
        /\ job' = NewJob(siteRead)
        /\ ~jobFresh' /\ jobFresh' \in BOOLEAN /\ ~current' /\ current' \in BOOLEAN
        /\ UNCHANGED <<batchCache, jobCache, queued, pc, copy, faultsLeft,
                       siteTag, siteRead, resets, finishedBy, leftover>>
    BY DEF Replace, site, history
  <1>2. /\ job' \in JobShape /\ job'.tag = siteRead /\ job'.last = Nothing
        /\ job'.state = "Pending" /\ job'.notFound = 0
    BY <1>1, NewJobShape DEF IInv, Shape
  <1>3. /\ batch' \in BatchType /\ Gone(batch')
        /\ batch' # Nothing => batch # Nothing /\ batch'.run = batch.run
    BY <1>1, DeletedBatch DEF IInv, Shape
  <1>4. Shape'
    <2>1. changesLeft' \in 0..MaxChanges
      BY <1>1, Numbers DEF IInv, Shape
    <2> QED  BY <1>1, <1>2, <1>3, <2>1 DEF IInv, Shape
  <1>5. Budget'
    <2>1. /\ One(job.last # job.tag) \in Nat /\ One(job'.last # job'.tag) \in Nat
          /\ One(job'.last # job'.tag) <= 1 /\ One(siteRead # siteTag) \in Nat
          /\ One(job.tag # siteRead) \in Nat
      BY DEF One
    <2>2. One(job'.tag # siteRead') = 0
      BY <1>1, <1>2 DEF One
    <2>3. UNCHANGED <<resets, siteRead, siteTag>>
      BY <1>1
    <2> QED  BY <1>1, <2>1, <2>2, <2>3, Numbers DEF IInv, Budget
  <1>6. Counting'
    <2>1. Counts(job)'
      BY <1>1, <1>2, Numbers DEF IInv, Counts
    <2>2. RunBefore(batch)'
      BY <1>1, <1>3 DEF IInv, Counting, RunBefore
    <2> QED  BY <1>1, <2>1, <2>2 DEF IInv, Counting, Counts, RunBefore
  <1>7. Caching'
    BY <1>1 DEF Caching
  <1>8. Runs' /\ Owning' /\ Finished'
    BY <1>1, <1>2, <1>3 DEF Runs, Gone, Owning, Finished
  <1> QED  BY <1>4, <1>5, <1>6, <1>7, <1>8 DEF IInv

LEMMA InvStep == IInv /\ [Next]_vars => IInv'
  <1> SUFFICES ASSUME IInv, [Next]_vars PROVE IInv'
    OBVIOUS
  <1>1. CASE UNCHANGED vars
    BY <1>1, Kept DEF vars, objects, reconcile, site, history, IInv, Shape
  <1> QED
    BY <1>1, ResetStep, StartStep, MissStep, ObserveStep, IgnoreStep, SaveStep,
       CrashStep, SyncJobStep, SyncBatchStep, ClusterStep, EditStep,
       UpdateSpecStep, ReplaceStep
    DEF Next, Reconcile

LEMMA Invariance == Spec => []IInv
  BY InvInit, InvStep, PTL DEF Spec

-----------------------------------------------------------------------------
\* The job, the caches and the counters hold what the API allows, JobNotFoundCount
\* among them: it passes its limit by one for every start over at most.
THEOREM MigrationTypeCorrect == Spec => []TypeOK
  <1>1. IInv => TypeOK
    <2> SUFFICES ASSUME IInv PROVE TypeOK
      OBVIOUS
    <2>1. Shape /\ Budget /\ Counting
      BY DEF IInv
    <2>2. resets \in 0..(MaxChanges + 1)
      <3>1. /\ One(job.last # job.tag) \in Nat /\ One(job.tag # siteRead) \in Nat
            /\ One(siteRead # siteTag) \in Nat
        BY DEF One
      <3> QED  BY <2>1, <3>1, Numbers DEF Budget
    <2>3. finishedBy \in 0..(MaxChanges + 1)
      BY <2>1, <2>2, Numbers DEF Counting
    <2>4. ASSUME NEW j \in JobShape, j.notFound <= NotFoundLimit + resets
          PROVE  j \in Job
      <3>1. j.notFound \in 0..(NotFoundLimit + 1 + MaxChanges)
        <4>1. j.notFound \in Nat
          BY DEF JobShape
        <4> QED  BY <2>1, <2>2, <2>4, <4>1, Numbers
      <3> QED  BY <3>1 DEF JobShape, Job
    <2>5. job \in Job /\ jobCache \in Job /\ copy \in Job
      BY <2>1, <2>4 DEF Shape, Counting, Counts
    <2> QED  BY <2>1, <2>2, <2>3, <2>5 DEF Shape, TypeOK
  <1> QED  BY <1>1, Invariance, PTL

\* CompleteIsOwn is an invariant: deleteAssociatedJobs, the refused saves of a
\* stale copy and AlreadyExists see to it that a migration is never reported
\* that a batch Job for another tag has done.
THEOREM CompleteIsOwnHolds == Spec => []CompleteIsOwn
  <1>1. IInv => CompleteIsOwn
    BY DEF IInv, Finished, CompleteIsOwn
  <1> QED  BY <1>1, Invariance, PTL

-----------------------------------------------------------------------------
(* The controller implements the life cycle of a job. *)

\* What a step does to the job object.
LEMMA JobSteps ==
    ASSUME IInv, [Next]_vars
    PROVE  \/ UNCHANGED job
           \/ job' = copy /\ (Restarts(job, copy) \/ Advances(job, copy))
           \/ siteRead \in Tags /\ job' = [job EXCEPT !.tag = siteRead]
           \/ siteRead \in Tags /\ job' = NewJob(siteRead)
  <1>1. CASE UNCHANGED vars
    BY <1>1 DEF vars, objects
  <1>2. CASE Reset \/ Start \/ Miss \/ Observe \/ Ignore
    BY <1>2 DEF Reset, Start, Miss, Observe, ObservesBatch, Ignore, ToSave,
                Done, Retried, objects
  <1>3. CASE Save
    BY <1>3 DEF Save, SaveOk, SaveRefused, objects, IInv, Caching
  <1>4. CASE Crash \/ SyncJob \/ SyncBatch \/ Cluster
    BY <1>4 DEF Crash, Dies, SyncJob, JobDelivered, SyncBatch, BatchDelivered,
                Cluster, ClusterMoves
  <1>5. CASE ReadSite \/ \E t \in Tags : ChangeTag(t)
    BY <1>5 DEF ReadSite, ChangeTag, objects
  <1>6. CASE UpdateSpec \/ Replace
    BY <1>6 DEF UpdateSpec, Replace, IInv, Shape
  <1> QED  BY <1>1, <1>2, <1>3, <1>4, <1>5, <1>6 DEF Next, Reconcile

\* ObeysLifecycle holds: however late the controller reads, whatever fails and
\* whoever writes the job between its read and its save, a migration is taken
\* up when the tag is new and goes from Pending over Running to its end.
THEOREM MigrationObeysLifecycle == Spec => ObeysLifecycle
  <1>1. Init => Lifecycle!Init
    BY NewJobShape DEF Init, ControllerInit, Lifecycle!Init
  <1>2. IInv /\ [Next]_vars => [Lifecycle!Next]_(Lifecycle!vars)
    <2> SUFFICES ASSUME IInv, [Next]_vars
                 PROVE  Lifecycle!Next \/ UNCHANGED Lifecycle!vars
      OBVIOUS
    <2>1. job \in JobShape
      BY DEF IInv, Shape
    <2>2. CASE UNCHANGED job
      BY <2>2 DEF Lifecycle!vars
    <2>3. CASE job' = copy /\ Restarts(job, copy)
      <3>1. Lifecycle!Take
        BY <2>3 DEF Restarts, Lifecycle!Take
      <3> QED  BY <3>1 DEF Lifecycle!Next
    <2>4. CASE job' = copy /\ Advances(job, copy)
      <3>1. /\ job.tag = job.last /\ job'.tag = job.tag /\ job'.last = job.last
            /\ \/ job.state = "Pending" /\ job'.state = "Running"
               \/ job.state = "Running" /\ job'.state \in {"Complete", "Failed"}
               \/ job.state = "Running" /\ job'.state = "Running"
        BY <2>1, <2>4 DEF Advances, Successors, Final, JobShape
      <3>2. CASE job.state = "Pending" /\ job'.state = "Running"
        <4>1. Lifecycle!Start
          BY <3>1, <3>2 DEF Lifecycle!Start
        <4> QED  BY <4>1 DEF Lifecycle!Next
      <3>3. CASE job.state = "Running" /\ job'.state \in {"Complete", "Failed"}
        <4>1. Lifecycle!Finish
          BY <3>1, <3>3 DEF Lifecycle!Finish
        <4> QED  BY <4>1 DEF Lifecycle!Next
      <3>4. CASE job.state = "Running" /\ job'.state = "Running"
        BY <3>1, <3>4 DEF Lifecycle!vars
      <3> QED  BY <3>1, <3>2, <3>3, <3>4
    <2>5. CASE siteRead \in Tags /\ job' = [job EXCEPT !.tag = siteRead]
      <3>1. Lifecycle!Ask
        BY <2>1, <2>5, WithTagShape DEF Lifecycle!Ask
      <3> QED  BY <3>1 DEF Lifecycle!Next
    <2>6. CASE siteRead \in Tags /\ job' = NewJob(siteRead)
      <3>1. Lifecycle!Replace
        BY <2>6, NewJobShape DEF Lifecycle!Replace
      <3> QED  BY <3>1 DEF Lifecycle!Next
    <2> QED  BY <2>2, <2>3, <2>4, <2>5, <2>6, JobSteps
  <1> QED
    BY <1>1, <1>2, Invariance, PTL DEF Spec, ObeysLifecycle, Lifecycle!Spec
=============================================================================
