------------------------------ MODULE BatchJob ------------------------------
(***************************************************************************)
(* The Kubernetes batch Job behind a DbInitJob, a DbMigrationJob or a      *)
(* Backup, as those controllers use it.  Its name is derived from the      *)
(* owner's, so at most one exists; the owner's controller lists it from    *)
(* the informer cache and creates and deletes it at the API server.  The   *)
(* Job controller, the TTL controller and the garbage collector are not    *)
(* part of the repository.                                                 *)
(***************************************************************************)
EXTENDS Naturals

CONSTANTS
    Nothing,      \* "no such object", "not set"
    BatchLags,    \* the informer cache of batch Jobs may be behind
    SlowDeletes,  \* a deleted batch Job may stay for a while
    Expires       \* a finished batch Job is removed after its TTL

VARIABLES
    batch,        \* the batch Job at the API server
    batchCache    \* the informer cache's copy

\* "run" identifies what the Job was created for.
BatchObject == [run : Nat, phase : {"Active", "Complete", "Failed"},
                deleting : BOOLEAN]
BatchType == BatchObject \cup {Nothing}

ASSUME BatchAssumption ==
    /\ BatchLags \in BOOLEAN /\ SlowDeletes \in BOOLEAN /\ Expires \in BOOLEAN
    /\ Nothing \notin BatchObject

BatchInit == batch = Nothing /\ batchCache = Nothing

\* A cache that does not lag is delivered before anything else happens.
BatchInSync == BatchLags \/ batchCache = batch

\* Create: rejected (AlreadyExists) while a Job of that name exists.
CreateBatch(run) ==
    /\ batch = Nothing
    /\ batch' = [run |-> run, phase |-> "Active", deleting |-> FALSE]

\* DeleteAllOf: with a finalizer to work off, the Job stays, marked.
DeleteBatch ==
    batch' = IF batch # Nothing /\ SlowDeletes
             THEN [batch EXCEPT !.deleting = TRUE] ELSE Nothing

\* The pods succeed or fail; ActiveDeadlineSeconds ends those that hang.
FinishBatch ==
    /\ batch # Nothing /\ batch.phase = "Active"
    /\ \E p \in {"Complete", "Failed"} : batch' = [batch EXCEPT !.phase = p]

\* A deleted Job goes; a finished one goes TTLSecondsAfterFinished later.
RemoveBatch == batch # Nothing /\ batch.deleting /\ batch' = Nothing
ExpireBatch ==
    Expires /\ batch # Nothing /\ batch.phase # "Active" /\ batch' = Nothing

\* The watch delivers the Job's present version.
DeliverBatch == batchCache # batch /\ batchCache' = batch
=============================================================================
