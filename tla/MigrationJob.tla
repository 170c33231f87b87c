---------------------------- MODULE MigrationJob ----------------------------
(***************************************************************************)
(* The DbMigrationJob controller: one DbMigrationJob and the batch Job it  *)
(* creates from the site.  Tags change under it: the user edits the site,  *)
(* the site reconciler copies the tag into the job, or deletes the job and *)
(* creates it again when the site is disabled and enabled.                 *)
(***************************************************************************)
EXTENDS JobController

CONSTANTS
    Tags,       \* image tags
    MaxChanges  \* bound: edits of the site's tag, and replacements of the job

\* Spec.ImageTag, and of the status LastMigratedImageTag, State and
\* JobNotFoundCount.  A reset does not clear the count, so it can grow by one
\* with every new tag once it is past the limit.
Job == [tag : Tags, last : Tags \cup {Nothing},
        state : {"Pending", "Running", "Complete", "Failed"},
        notFound : 0..(NotFoundLimit + 1 + MaxChanges)]

ASSUME MigrationAssumption == MaxChanges \in Nat /\ Nothing \notin Tags

VARIABLES
    siteTag,    \* the image tag of the site, in the cache all read it from
    siteRead,   \* ... as the site reconciler last read it
    resets,     \* history: how often the job started over
    finishedBy, \* history: the run of the batch Job last seen complete
    leftover,   \* history: since then it took over a batch Job that was, or
                \* was being, deleted
    changesLeft

site == <<siteTag, siteRead>>
history == <<resets, finishedBy, leftover>>
vars == <<objects, reconcile, faultsLeft, site, history, changesLeft>>

NewJob(t) == [tag |-> t, last |-> Nothing, state |-> "Pending", notFound |-> 0]

Init ==
    /\ siteTag \in Tags /\ siteRead = siteTag
    /\ ControllerInit(NewJob(siteTag))
    /\ resets = 0 /\ finishedBy = 0 /\ leftover = FALSE /\ changesLeft = MaxChanges

-----------------------------------------------------------------------------
(***************************************************************************)
(* doReconcile.  Each action is one way through it up to the save.         *)
(***************************************************************************)

\* Mutant: the old batch Job is left alone.
Reset_KeepsBatch ==
    /\ Begins /\ jobCache.tag # jobCache.last
    /\ ToSave(WithState([jobCache EXCEPT !.last = jobCache.tag], "Pending"))
    /\ UNCHANGED <<batch, faultsLeft, site, history, changesLeft>>

\* A new job or a new tag: delete the batch Job (deleteAssociatedJobs), start
\* over.
Reset ==
    /\ Begins /\ jobCache.tag # jobCache.last
    /\ \/ /\ DeleteBatch
          /\ ToSave(WithState([jobCache EXCEPT !.last = jobCache.tag],
                              "Pending"))
          /\ UNCHANGED faultsLeft
       \/ Fault /\ Retried
    /\ UNCHANGED <<site, history, changesLeft>>

Settled(st) == jobCache.tag = jobCache.last /\ jobCache.state = st

\* The listed batch Job is being deleted, or is there no more.
ListsDeleted ==
    batch = Nothing \/ batch.deleting \/ batch.run # batchCache.run

\* createJobIfNeeded: a batch Job that is listed is taken for ours; otherwise
\* one is created.  Create fails with AlreadyExists when the list was stale.
Start ==
    /\ Begins /\ Settled("Pending")
    /\ \/ /\ \/ /\ batchCache # Nothing /\ UNCHANGED batch
                /\ leftover' = (leftover \/ ListsDeleted)
             \/ /\ batchCache = Nothing /\ CreateBatch(resets)
                /\ UNCHANGED leftover
          /\ ToSave(WithState(jobCache, "Running"))
          /\ UNCHANGED faultsLeft
       \/ /\ batchCache = Nothing /\ batch # Nothing
          /\ Retried /\ UNCHANGED <<faultsLeft, leftover>>
       \/ Fault /\ Retried /\ UNCHANGED leftover
    /\ UNCHANGED <<site, resets, finishedBy, changesLeft>>

\* Mutant: a batch Job that is not listed is waited for without limit.
Miss_NoLimit ==
    /\ Begins /\ Settled("Running") /\ batchCache = Nothing
    /\ ToSave(WithCount(jobCache, jobCache.notFound + 1))
    /\ UNCHANGED <<batch, faultsLeft, site, history, changesLeft>>

\* processRunningJob, when the batch Job is not listed ...
Miss ==
    /\ Begins /\ Settled("Running") /\ batchCache = Nothing
    /\ ToSave(MissesBatch(jobCache))
    /\ UNCHANGED <<batch, faultsLeft, site, history, changesLeft>>

\* ... and when it is.
Observe ==
    /\ Begins /\ Settled("Running") /\ batchCache # Nothing
    /\ ObservesBatch(jobCache)
    /\ finishedBy' = IF batchCache.phase = "Complete" THEN batchCache.run
                     ELSE finishedBy
    /\ UNCHANGED <<batch, site, resets, leftover, changesLeft>>

\* A job in a final state is left alone.
Ignore ==
    /\ Begins /\ (Settled("Complete") \/ Settled("Failed"))
    /\ Done
    /\ UNCHANGED <<faultsLeft, site, history, changesLeft>>

\* Mutant: the status is patched without a resource version.
Save_NoConflict ==
    /\ InSync /\ pc = "save"
    /\ job' = [copy EXCEPT !.tag = job.tag] /\ jobFresh' = FALSE
    /\ pc' = "idle" /\ current' = FALSE /\ queued' = TRUE
    /\ resets' = IF copy.last # job.last THEN resets + 1 ELSE resets
    /\ UNCHANGED <<batch, batchCache, jobCache, copy, faultsLeft, finishedBy,
                   leftover, site, changesLeft>>

Save ==
    /\ \/ /\ SaveOk(copy.last # job.last)
          /\ IF copy.last # job.last
             THEN resets' = resets + 1 /\ leftover' = FALSE
             ELSE UNCHANGED <<resets, leftover>>
       \/ SaveRefused /\ UNCHANGED <<resets, leftover>>
    /\ UNCHANGED <<finishedBy, site, changesLeft>>

Crash == Dies /\ UNCHANGED <<site, history, changesLeft>>

SyncJob == JobDelivered /\ UNCHANGED <<site, history, changesLeft>>

\* Mutant: the controller does not own the batch Jobs.
SyncBatch_NotOwned ==
    /\ DeliverBatch
    /\ UNCHANGED <<batch, job, jobCache, jobFresh, reconcile, faultsLeft,
                   site, history, changesLeft>>

SyncBatch == BatchDelivered /\ UNCHANGED <<site, history, changesLeft>>

Cluster == ClusterMoves /\ UNCHANGED <<site, history, changesLeft>>

-----------------------------------------------------------------------------
(***************************************************************************)
(* The user changes the image tag; the site reconciler picks it up ...     *)
(***************************************************************************)
ChangeTag(t) ==
    /\ InSync /\ changesLeft > 0 /\ t # siteTag
    /\ siteTag' = t /\ changesLeft' = changesLeft - 1
    /\ UNCHANGED <<objects, reconcile, faultsLeft, siteRead, history>>

ReadSite ==
    /\ InSync /\ siteRead # siteTag
    /\ siteRead' = siteTag
    /\ UNCHANGED <<objects, reconcile, faultsLeft, siteTag, history,
                   changesLeft>>

\* ... and updates the job (a stale list is refused with a Conflict).
UpdateSpec ==
    /\ InSync /\ jobFresh /\ job.tag # siteRead
    /\ job' = [job EXCEPT !.tag = siteRead]
    /\ jobFresh' = FALSE /\ current' = FALSE
    /\ UNCHANGED <<batch, batchCache, jobCache, queued, pc, copy, faultsLeft,
                   site, history, changesLeft>>

\* The site is disabled and enabled: the job is deleted, its batch Job with
\* it, and a new one of the same name is created.
Replace ==
    /\ InSync /\ changesLeft > 0
    /\ DeleteBatch
    /\ job' = NewJob(siteRead) /\ jobFresh' = FALSE /\ current' = FALSE
    /\ changesLeft' = changesLeft - 1
    /\ UNCHANGED <<batchCache, jobCache, queued, pc, copy, faultsLeft, site,
                   history>>

-----------------------------------------------------------------------------
Reconcile == Reset \/ Start \/ Miss \/ Observe \/ Ignore \/ Save

Next ==
    \/ Reconcile \/ Crash \/ SyncJob \/ SyncBatch \/ Cluster
    \/ ReadSite \/ UpdateSpec \/ Replace
    \/ \E t \in Tags : ChangeTag(t)

\* The queue is worked off, the watches deliver, the cluster's controllers
\* and the site reconciler run; nothing is assumed of the user.
Fairness ==
    /\ WF_vars(Reconcile) /\ WF_vars(SyncJob) /\ WF_vars(SyncBatch)
    /\ WF_vars(Cluster) /\ WF_vars(ReadSite \/ UpdateSpec)

Spec == Init /\ [][Next]_vars
FairSpec == Spec /\ Fairness

-----------------------------------------------------------------------------
(***************************************************************************)
(* Properties.                                                             *)
(***************************************************************************)

\* The job and the caches hold what the API allows; JobNotFoundCount passes
\* the limit by no more than one step for each tag.
TypeOK ==
    /\ batch \in BatchType /\ batchCache \in BatchType
    /\ siteTag \in Tags /\ siteRead \in Tags
    /\ job \in Job /\ jobCache \in Job /\ copy \in Job
    /\ jobFresh \in BOOLEAN /\ queued \in BOOLEAN /\ current \in BOOLEAN
    /\ pc \in {"idle", "save"}
    /\ resets \in 0..(MaxChanges + 1) /\ finishedBy \in 0..(MaxChanges + 1)
    /\ leftover \in BOOLEAN
    /\ changesLeft \in 0..MaxChanges /\ faultsLeft \in 0..MaxFaults

\* A job that says Complete was completed by a batch Job created for its
\* LastMigratedImageTag ("Name of the image that the last migration was
\* executed"), not by one left over from an earlier tag; unless
\* createJobIfNeeded found that one still listed after it was deleted.
CompleteIsOwn == job.state = "Complete" /\ ~leftover => finishedBy = resets

\* The status obeys the job's life cycle whatever the controller read late,
\* and whatever was written between its read and its save.
Lifecycle == INSTANCE JobLifecycle WITH
    Versions <- Tags, wanted <- job.tag, taken <- job.last, state <- job.state
ObeysLifecycle == Lifecycle!Spec

\* Once the tag stays, the job ends in a final state for that tag and the
\* controller rests: neither a missed event, nor a batch Job that was deleted
\* or expired, nor a conflict leaves it Pending or Running.
Finishes ==
    <>[](/\ pc = "idle" /\ ~queued
         /\ job.state \in Final /\ job.last = job.tag /\ job.tag = siteTag)
=============================================================================
