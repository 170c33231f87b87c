--------------------------- MODULE JobController ---------------------------
(***************************************************************************)
(* The frame the DbInitJob and the DbMigrationJob controllers share: one   *)
(* job object and one work queue key.  A reconcile reads the job from the  *)
(* cache, acts on the batch Job, and then saves the status; the API server *)
(* refuses the save if the job was written since the version it read.      *)
(***************************************************************************)
EXTENDS BatchJob

CONSTANTS
    JobLags,        \* the informer cache of the job may be behind
    NotFoundLimit,  \* DbInitMaxJobFailedLoadLimit
    MaxFaults       \* bound: failed API calls, crashes and missed deadlines

ASSUME ControllerAssumption ==
    JobLags \in BOOLEAN /\ NotFoundLimit \in Nat /\ MaxFaults \in Nat

VARIABLES
    job,        \* the job object at the API server
    jobCache,   \* the informer cache's copy ...
    jobFresh,   \* ... and whether it is the latest version
    queued,     \* the job's key is in the work queue
    pc,         \* "idle", or "save" with a status to write
    copy,       \* the job as the reconcile will save it
    current,    \* no one has written the job since the version it read
    faultsLeft

objects == <<batch, batchCache, job, jobCache, jobFresh>>
reconcile == <<queued, pc, copy, current>>

Final == {"Complete", "Failed"}

ControllerInit(j) ==
    /\ BatchInit
    /\ job = j /\ jobCache = j /\ jobFresh = TRUE
    /\ queued = TRUE /\ pc = "idle" /\ copy = j /\ current = FALSE
    /\ faultsLeft = MaxFaults

-----------------------------------------------------------------------------
\* A cache that does not lag is delivered before anything else happens.
InSync == BatchInSync /\ (JobLags \/ jobFresh)

Fault == faultsLeft > 0 /\ faultsLeft' = faultsLeft - 1

\* The status fields processRunningJob writes.
WithState(j, st) == [j EXCEPT !.state = st]
WithCount(j, n) == [j EXCEPT !.notFound = n]

\* A reconcile begins: it works on the cached job.
Begins == InSync /\ pc = "idle" /\ queued

\* It has a status to save.
ToSave(j) ==
    /\ pc' = "save" /\ copy' = j /\ current' = jobFresh /\ queued' = FALSE
    /\ UNCHANGED <<batchCache, job, jobCache, jobFresh>>

\* It returns nothing to do ...
Done == queued' = FALSE /\ UNCHANGED <<objects, pc, copy, current>>

\* ... or an error, and the key goes back to the queue.
Retried == UNCHANGED <<objects, reconcile>>

\* The batch Job is not listed: fail after too many times.
MissesBatch(j) ==
    LET n == j.notFound + 1 IN
    WithCount(WithState(j, IF n > NotFoundLimit THEN "Failed" ELSE "Running"), n)

\* The batch Job is listed: take over its result, or fail at the deadline, or
\* wait (saving the count if it has to be cleared).
ObservesBatch(j) ==
    \/ /\ batchCache.phase \in Final
       /\ ToSave(WithCount(WithState(j, batchCache.phase), 0))
       /\ UNCHANGED faultsLeft
    \/ /\ batchCache.phase = "Active" /\ Fault
       /\ ToSave(WithCount(WithState(j, "Failed"), 0))
    \/ /\ batchCache.phase = "Active" /\ j.notFound > 0
       /\ ToSave(WithCount(j, 0))
       /\ UNCHANGED faultsLeft
    \/ /\ batchCache.phase = "Active" /\ j.notFound = 0
       /\ Done
       /\ UNCHANGED faultsLeft

\* SaveStatusUpdatesIfObjectChanged: "again" is the Requeue of its result.
SaveOk(again) ==
    /\ InSync /\ pc = "save" /\ current
    /\ job' = copy /\ jobFresh' = FALSE
    /\ pc' = "idle" /\ current' = FALSE /\ queued' = (queued \/ again)
    /\ UNCHANGED <<batch, batchCache, jobCache, copy, faultsLeft>>

\* A Conflict, or a call that fails.
SaveRefused ==
    /\ InSync /\ pc = "save"
    /\ \/ ~current /\ UNCHANGED faultsLeft
       \/ current /\ Fault
    /\ pc' = "idle" /\ current' = FALSE /\ queued' = TRUE
    /\ UNCHANGED <<objects, copy>>

\* The operator dies and starts again with fresh caches.
Dies ==
    /\ InSync /\ Fault
    /\ pc' = "idle" /\ current' = FALSE /\ queued' = TRUE
    /\ jobCache' = job /\ jobFresh' = TRUE /\ batchCache' = batch
    /\ UNCHANGED <<batch, job, copy>>

\* For(&...Job{}) and Owns(&batchv1.Job{}): both queue the job's key.
JobDelivered ==
    /\ BatchInSync /\ ~jobFresh
    /\ jobCache' = job /\ jobFresh' = TRUE /\ queued' = TRUE
    /\ UNCHANGED <<batch, batchCache, job, pc, copy, current, faultsLeft>>

BatchDelivered ==
    /\ DeliverBatch /\ queued' = TRUE
    /\ UNCHANGED <<batch, job, jobCache, jobFresh, pc, copy, current,
                   faultsLeft>>

ClusterMoves ==
    /\ InSync
    /\ FinishBatch \/ RemoveBatch \/ ExpireBatch
    /\ UNCHANGED <<batchCache, job, jobCache, jobFresh, reconcile, faultsLeft>>
=============================================================================
