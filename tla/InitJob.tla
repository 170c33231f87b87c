------------------------------- MODULE InitJob -------------------------------
(***************************************************************************)
(* The DbInitJob controller: one DbInitJob, which the site reconciler      *)
(* created and never updates, and the batch Job that fills the service's   *)
(* database.  Running that batch Job twice is what must not happen.        *)
(***************************************************************************)
EXTENDS JobController

\* Bound: batch Jobs are counted up to this number.
MaxCreated == 2

\* The state of a DbInitJob that was not reconciled yet.
Unset == ""

Job == [state : {Unset, "Pending", "Running", "Complete", "Failed"},
        notFound : 0..(NotFoundLimit + 1)]

\* A DbInitJob has one version of its input: number 1.
ASSUME InitAssumption == Nothing # 1

VARIABLES
    created,   \* history: how many batch Jobs were created
    succeeded, \* history: a batch Job has succeeded
    expired    \* history: a batch Job went before its end was seen noted

history == <<created, succeeded, expired>>
vars == <<objects, reconcile, faultsLeft, history>>

Init ==
    /\ ControllerInit([state |-> Unset, notFound |-> 0])
    /\ created = 0 /\ succeeded = FALSE /\ expired = FALSE

-----------------------------------------------------------------------------
\* doReconcile: give a new job its state and its deadline.
Initialise ==
    /\ Begins /\ jobCache.state = Unset
    /\ ToSave(WithState(jobCache, "Pending"))
    /\ UNCHANGED <<batch, faultsLeft, history>>

CountCreated == created' = IF created < MaxCreated THEN created + 1 ELSE created

\* Mutant: the batch Job gets a generated name.
Start_FreshName ==
    /\ Begins /\ jobCache.state = "Pending" /\ batchCache = Nothing
    /\ batch' = [run |-> created, phase |-> "Active", deleting |-> FALSE]
    /\ CountCreated
    /\ ToSave(WithState(jobCache, "Running"))
    /\ UNCHANGED <<faultsLeft, succeeded, expired>>

\* createJobIfNeeded: a batch Job that is listed is ours; otherwise the job is
\* failed if the configs, read now, name no database or no DbInitPodSpec, or
\* gets its batch Job.  Create fails with AlreadyExists when the list was stale.
Start ==
    /\ Begins /\ jobCache.state = "Pending"
    /\ \/ /\ batchCache # Nothing
          /\ ToSave(WithState(jobCache, "Running"))
          /\ UNCHANGED <<batch, faultsLeft, created>>
       \/ /\ batchCache = Nothing
          /\ ToSave(WithState(jobCache, "Failed"))
          /\ UNCHANGED <<batch, faultsLeft, created>>
       \/ /\ batchCache = Nothing /\ CreateBatch(created)
          /\ CountCreated
          /\ ToSave(WithState(jobCache, "Running"))
          /\ UNCHANGED faultsLeft
       \/ /\ batchCache = Nothing /\ batch # Nothing
          /\ Retried /\ UNCHANGED <<faultsLeft, created>>
       \/ Fault /\ Retried /\ UNCHANGED created
    /\ UNCHANGED <<succeeded, expired>>

\* processRunningJob, when the batch Job is not listed ...
Miss ==
    /\ Begins /\ jobCache.state = "Running" /\ batchCache = Nothing
    /\ ToSave(MissesBatch(jobCache))
    /\ UNCHANGED <<batch, faultsLeft, history>>

\* Mutant: a batch Job that has ended has succeeded.
Observe_AnyEnd ==
    /\ Begins /\ jobCache.state = "Running" /\ batchCache # Nothing
    /\ batchCache.phase \in Final
    /\ ToSave(WithState(jobCache, "Complete"))
    /\ UNCHANGED <<batch, faultsLeft, history>>

\* ... and when it is.
Observe ==
    /\ Begins /\ jobCache.state = "Running" /\ batchCache # Nothing
    /\ ObservesBatch(jobCache)
    /\ UNCHANGED <<batch, history>>

\* A job in a final state is left alone.
Ignore ==
    /\ Begins /\ jobCache.state \in Final
    /\ Done
    /\ UNCHANGED <<faultsLeft, history>>

\* Mutant: the status is patched without a resource version.
Save_NoConflict ==
    /\ InSync /\ pc = "save"
    /\ job' = copy /\ jobFresh' = FALSE
    /\ pc' = "idle" /\ current' = FALSE /\ queued' = TRUE
    /\ UNCHANGED <<batch, batchCache, jobCache, copy, faultsLeft, history>>

Save == (SaveOk(job.state = Unset) \/ SaveRefused) /\ UNCHANGED history

Crash == Dies /\ UNCHANGED history

\* Mutant: the controller does not watch its own objects' status.
SyncJob_NotQueued ==
    /\ BatchInSync /\ ~jobFresh
    /\ jobCache' = job /\ jobFresh' = TRUE
    /\ UNCHANGED <<batch, batchCache, job, reconcile, faultsLeft, history>>

SyncJob == JobDelivered /\ UNCHANGED history
SyncBatch == BatchDelivered /\ UNCHANGED history

Cluster ==
    /\ ClusterMoves
    /\ succeeded' = (succeeded \/ (batch' # Nothing /\ batch'.phase = "Complete"))
    /\ expired' = (expired \/ (/\ batch # Nothing /\ batch' = Nothing
                               /\ jobCache.state \notin Final))
    /\ UNCHANGED created

-----------------------------------------------------------------------------
Reconcile == Initialise \/ Start \/ Miss \/ Observe \/ Ignore \/ Save

Next == Reconcile \/ Crash \/ SyncJob \/ SyncBatch \/ Cluster

\* As for MigrationJob: the queue, the watches and the cluster make progress.
Fairness ==
    /\ WF_vars(Reconcile) /\ WF_vars(SyncJob) /\ WF_vars(SyncBatch)
    /\ WF_vars(Cluster)

Spec == Init /\ [][Next]_vars
FairSpec == Spec /\ Fairness

-----------------------------------------------------------------------------
(***************************************************************************)
(* Properties.                                                             *)
(***************************************************************************)

\* The job, the caches and the counters hold what the API allows.
TypeOK ==
    /\ batch \in BatchType /\ batchCache \in BatchType
    /\ job \in Job /\ jobCache \in Job /\ copy \in Job
    /\ jobFresh \in BOOLEAN /\ queued \in BOOLEAN /\ current \in BOOLEAN
    /\ pc \in {"idle", "save"}
    /\ created \in 0..MaxCreated
    /\ succeeded \in BOOLEAN /\ expired \in BOOLEAN
    /\ faultsLeft \in 0..MaxFaults

\* A second batch Job fills the database ("retrying a half way complete failed
\* init can cause unexpected results") only if the first one expired before its
\* end was noted: neither a stale list, nor a lost save, nor a crash between
\* the Create and the save starts another while the first is there.
InitCreatedOnce == created > 1 => expired

\* Complete is never claimed of an init that did not succeed.
CompleteMeansSucceeded == job.state = "Complete" => succeeded

\* The status obeys the job's life cycle.
Lifecycle == INSTANCE JobLifecycle WITH
    Versions <- {1}, wanted <- 1,
    taken <- IF job.state = Unset THEN Nothing ELSE 1,
    state <- IF job.state = Unset THEN "Pending" ELSE job.state
ObeysLifecycle == Lifecycle!Spec

\* Every init job ends in a final state, and the controller rests.
Finishes == <>[](pc = "idle" /\ ~queued /\ job.state \in Final)
=============================================================================
