----------------------------- MODULE BackupJob -----------------------------
(***************************************************************************)
(* One Backup of one site: the Backup controller, which runs a batch Job   *)
(* for each service, and the site reconciler, which creates the Backup     *)
(* when it is due and, for the final one, waits for it before it lets a    *)
(* deleted site and its databases go.                                      *)
(***************************************************************************)
EXTENDS Naturals

CONSTANTS
    Services,        \* the services a site may list
    BackupServices,  \* those whose ServiceConfig has a BackupPodSpec
    Nothing,         \* "no such object"
    Lags,            \* the informer caches may be behind
    MaxEdits,        \* bound: edits of the site's list of services
    MaxFaults        \* bound: failed calls, crashes and batch Jobs that
                     \* expire before anyone looked

Final == {"Complete", "Failed"}
\* A State that was not set yet.
Unset == ""
States == {Unset, "Pending", "Running"} \cup Final

\* BackupStatus: State, and the State of each service.
Backup == [state : States, svc : [Services -> States]]
Phases == {"Active", "Complete", "Failed"}
Maybe(S) == S \cup {Nothing}

\* Of the StagingSite: Status.Services, the deletion timestamp, State =
\* Pending as handleDelete wants it; gone when the finalizer is removed.
Site == [services : SUBSET Services, deleting : BOOLEAN, pending : BOOLEAN,
         gone : BOOLEAN]

ASSUME BackupAssumption ==
    /\ BackupServices \subseteq Services
    /\ Lags \in BOOLEAN /\ MaxEdits \in Nat /\ MaxFaults \in Nat
    /\ Nothing \notin Backup \cup Phases

VARIABLES
    kind,         \* "Scheduled", or "Final": the site is deleted, and has
                  \* BackupBeforeDelete
    site,
    backup,       \* the Backup at the API server
    backupCache,  \* the informer cache's copy ...
    fresh,        \* ... and whether it is the latest version
    batch,        \* the batch Jobs, by service
    batchCache,
    siteQueued,   \* the site's key is in its work queue
    queued,       \* the Backup's key is in its work queue
    pc,           \* the Backup's reconcile: "idle" or "save"
    copy,         \* the status it will save ...
    changed,      \* ... if it has to ...
    current,      \* ... and no one has written the Backup since
    retry,        \* it will return an error, or ask for a requeue
    succeeded,    \* history: the services whose batch Job succeeded
    failed,       \* history: those whose batch Job failed
    editsLeft, faultsLeft

reconcile == <<queued, pc, copy, changed, current, retry>>
caches == <<backupCache, fresh, batchCache>>
history == <<succeeded, failed>>
vars == <<kind, site, backup, batch, caches, siteQueued, reconcile, history,
          editsLeft, faultsLeft>>

None == [s \in Services |-> Nothing]
NewBackup == [state |-> Unset, svc |-> [s \in Services |-> Unset]]

Init ==
    /\ kind \in {"Scheduled", "Final"}
    /\ \E S \in SUBSET Services :
         site = [services |-> S, deleting |-> FALSE, pending |-> FALSE,
                 gone |-> FALSE]
    /\ backup = Nothing /\ backupCache = Nothing /\ fresh = TRUE
    /\ batch = None /\ batchCache = None
    /\ siteQueued = FALSE /\ queued = FALSE /\ pc = "idle"
    /\ copy = NewBackup
    /\ changed = FALSE /\ current = FALSE /\ retry = FALSE
    /\ succeeded = {} /\ failed = {}
    /\ editsLeft = MaxEdits /\ faultsLeft = MaxFaults

-----------------------------------------------------------------------------
InSync == ~site.gone /\ (Lags \/ (fresh /\ batchCache = batch))

Fault == faultsLeft > 0 /\ faultsLeft' = faultsLeft - 1

(***************************************************************************)
(* The Backup controller.                                                  *)
(***************************************************************************)

\* loadServicesForSite: the services to back up, Pending if they are new.
Loaded == site.services \cap BackupServices
Svc == [s \in Services |-> IF s \in Loaded /\ backupCache.svc[s] = Unset
                           THEN "Pending" ELSE backupCache.svc[s]]

\* The service has ended before; its batch Job is not in the cache.
Ended(s) == Svc[s] \in Final
Missing(s) == ~Ended(s) /\ batchCache[s] = Nothing

\* Mutant: a batch Job that has ended has succeeded.
Outcome_AnyEnd(s) ==
    IF Ended(s) THEN Svc[s]
    ELSE IF Missing(s) THEN "Running"
    ELSE IF batchCache[s] = "Active" THEN Svc[s] ELSE "Complete"

\* Mutant: the phase is stored as it is.
Outcome_Raw(s) ==
    IF Ended(s) THEN Svc[s]
    ELSE IF Missing(s) THEN "Running" ELSE batchCache[s]

\* What processServiceInJob makes of one service.
Outcome(s) ==
    IF Ended(s) THEN Svc[s]
    ELSE IF Missing(s) THEN "Running"
    ELSE IF batchCache[s] = "Active" THEN Svc[s] ELSE batchCache[s]

Begins == InSync /\ pc = "idle" /\ queued /\ backupCache # Nothing

ToSave(b, chg, again) ==
    /\ pc' = "save" /\ copy' = b /\ changed' = chg /\ current' = fresh
    /\ retry' = again /\ queued' = FALSE
    /\ UNCHANGED <<kind, site, backup, caches, siteQueued, history, editsLeft>>

\* ensureStatusIsInitialised.
Initialise ==
    /\ Begins /\ backupCache.state = Unset
    /\ ToSave([backupCache EXCEPT !.state = "Pending"], TRUE, TRUE)
    /\ UNCHANGED <<batch, faultsLeft>>

\* The site or a ServiceConfig cannot be read: the services already loaded are
\* noted as Pending.
LoadFails ==
    /\ Begins /\ backupCache.state # Unset /\ Fault
    /\ \E L \in SUBSET Loaded :
         LET svc == [s \in Services |-> IF s \in L THEN Svc[s]
                                                 ELSE backupCache.svc[s]]
         IN  ToSave([backupCache EXCEPT !.svc = svc], svc # backupCache.svc,
                    TRUE)
    /\ UNCHANGED batch

\* No service of the site has a BackupPodSpec.
NothingToDo ==
    /\ Begins /\ backupCache.state # Unset /\ Loaded = {}
    /\ ToSave([backupCache EXCEPT !.state = "Complete"], TRUE, FALSE)
    /\ UNCHANGED <<batch, faultsLeft>>

\* The State after the services in P were walked in any order: a create makes
\* it Running, a failed service Failed, and the last of them counts.
StateAfter(P) ==
    LET creates == \E s \in P : Missing(s)
        fails == \E s \in P : Outcome(s) = "Failed"
    IN  (IF creates THEN {"Running"} ELSE {})
        \cup (IF fails THEN {"Failed"} ELSE {})
        \cup (IF creates \/ fails THEN {} ELSE {backupCache.state})

AfterWalk(P) == [s \in Services |-> IF s \in P THEN Outcome(s) ELSE Svc[s]]
Created(P) ==
    /\ \A s \in P : Missing(s) => batch[s] = Nothing
    /\ batch' = [s \in Services |->
                   IF s \in P /\ Missing(s) THEN "Active" ELSE batch[s]]
Changes(P) ==
    AfterWalk(P) # backupCache.svc \/ \E s \in P : Ended(s) \/ Missing(s)

\* processServiceInJob walked all services.  A Backup in a final state is
\* processed like any other.
Process ==
    /\ Begins /\ backupCache.state # Unset /\ Loaded # {}
    /\ Created(Loaded)
    /\ \E st \in StateAfter(Loaded) :
         LET all == \A s \in Loaded : AfterWalk(Loaded)[s] \in Final
             complete == all /\ st # "Failed"
         IN  ToSave([state |-> IF complete THEN "Complete" ELSE st,
                     svc |-> AfterWalk(Loaded)],
                    Changes(Loaded) \/ complete, FALSE)
    /\ UNCHANGED faultsLeft

\* It stopped at a service: the Create of its batch Job is refused because the
\* cache was stale, or fails, or a call before it fails.
Stopped ==
    /\ Begins /\ backupCache.state # Unset
    /\ \E s \in Loaded, P \in SUBSET Loaded :
         /\ s \notin P /\ Created(P)
         /\ \/ /\ Missing(s)
               /\ \/ batch[s] # Nothing /\ UNCHANGED faultsLeft
                  \/ Fault
               /\ ToSave([state |-> "Running", svc |-> AfterWalk(P)], TRUE,
                         TRUE)
            \/ /\ Fault
               /\ \E st \in StateAfter(P) :
                    ToSave([state |-> st, svc |-> AfterWalk(P)], Changes(P),
                           TRUE)

\* SaveStatusUpdatesIfObjectChanged, with an error too.
Save ==
    /\ InSync /\ pc = "save"
    /\ \/ /\ changed /\ current
          /\ backup' = copy /\ fresh' = (fresh /\ copy = backup)
          /\ queued' = (queued \/ retry) /\ UNCHANGED faultsLeft
       \/ /\ changed
          /\ \/ ~current /\ UNCHANGED faultsLeft
             \/ current /\ Fault
          /\ queued' = TRUE /\ UNCHANGED <<backup, fresh>>
       \/ /\ ~changed
          /\ queued' = (queued \/ retry)
          /\ UNCHANGED <<backup, fresh, faultsLeft>>
    /\ pc' = "idle" /\ copy' = NewBackup /\ changed' = FALSE
    /\ current' = FALSE /\ retry' = FALSE
    /\ UNCHANGED <<kind, site, backupCache, batch, batchCache, siteQueued,
                   history, editsLeft>>

-----------------------------------------------------------------------------
(***************************************************************************)
(* The site reconciler, the user and the cluster.                          *)
(***************************************************************************)

\* Create, which handleBackup calls when the backup time of a live site has
\* passed, or a Backup the user makes by hand.
Schedule ==
    /\ InSync /\ kind = "Scheduled" /\ backup = Nothing /\ ~site.deleting
    /\ backup' = NewBackup /\ fresh' = FALSE
    /\ UNCHANGED <<kind, site, backupCache, batch, batchCache, siteQueued,
                   reconcile, history, editsLeft, faultsLeft>>

\* Mutant: any final backup that exists will do.
BackupIsComplete_Exists == backupCache # Nothing

\* EnsureFinalBackupIsComplete is satisfied: a failed backup only gets logged.
BackupIsComplete == backupCache # Nothing /\ backupCache.state \in Final

\* handleDelete: State to Pending first; then create the final backup, or wait
\* for it, or remove the finalizer.
HandleDelete ==
    /\ InSync /\ site.deleting /\ siteQueued
    /\ \/ /\ ~site.pending
          /\ site' = [site EXCEPT !.pending = TRUE]
          /\ UNCHANGED <<siteQueued, backup, fresh, faultsLeft>>
       \/ /\ site.pending /\ backupCache = Nothing
          /\ \/ /\ backup = Nothing
                /\ backup' = NewBackup /\ fresh' = FALSE /\ siteQueued' = FALSE
             \/ backup # Nothing /\ UNCHANGED <<siteQueued, backup, fresh>>
          /\ UNCHANGED <<site, faultsLeft>>
       \/ /\ site.pending /\ BackupIsComplete
          /\ site' = [site EXCEPT !.gone = TRUE] /\ siteQueued' = FALSE
          /\ UNCHANGED <<backup, fresh, faultsLeft>>
       \/ /\ site.pending /\ backupCache # Nothing /\ ~BackupIsComplete
          /\ siteQueued' = FALSE
          /\ UNCHANGED <<site, backup, fresh, faultsLeft>>
       \/ /\ Fault
          /\ UNCHANGED <<site, siteQueued, backup, fresh>>
    /\ UNCHANGED <<kind, backupCache, batch, batchCache, reconcile, history,
                   editsLeft>>

\* The user deletes the site (or DeleteAt has passed).
DeleteSite ==
    /\ InSync /\ kind = "Final" /\ ~site.deleting
    /\ site' = [site EXCEPT !.deleting = TRUE] /\ siteQueued' = TRUE
    /\ UNCHANGED <<kind, backup, batch, caches, reconcile, history, editsLeft,
                   faultsLeft>>

\* The user edits the list of services and the site reconciler takes it over
\* into the status, which it no longer does once the site is being deleted.
\* Edits before there is a Backup are in the choice of the initial state.
EditServices(S) ==
    /\ InSync /\ editsLeft > 0 /\ backup # Nothing /\ ~site.deleting
    /\ S # site.services
    /\ site' = [site EXCEPT !.services = S] /\ editsLeft' = editsLeft - 1
    /\ UNCHANGED <<kind, backup, batch, caches, siteQueued, reconcile, history,
                   faultsLeft>>

FinishBatch(s) ==
    /\ InSync /\ batch[s] = "Active"
    /\ \/ /\ batch' = [batch EXCEPT ![s] = "Complete"]
          /\ succeeded' = succeeded \cup {s} /\ UNCHANGED failed
       \/ /\ batch' = [batch EXCEPT ![s] = "Failed"]
          /\ failed' = failed \cup {s} /\ UNCHANGED succeeded
    /\ UNCHANGED <<kind, site, backup, caches, siteQueued, reconcile,
                   editsLeft, faultsLeft>>

\* A finished batch Job expires; before its end is seen noted only if the
\* operator was away for as long as its TTL.  A watch that skips to the end
\* still delivers the deletion.
ExpireBatch(s) ==
    /\ InSync /\ batch[s] \in Final
    /\ IF backupCache # Nothing /\ backupCache.svc[s] \in Final
       THEN UNCHANGED faultsLeft ELSE Fault
    /\ batch' = [batch EXCEPT ![s] = Nothing]
    /\ queued' = (queued \/ batchCache[s] = Nothing)
    /\ UNCHANGED <<kind, site, backup, caches, siteQueued, pc, copy, changed,
                   current, retry, history, editsLeft>>

\* The operator dies and starts again with fresh caches.
Crash ==
    /\ InSync /\ Fault
    /\ backupCache' = backup /\ fresh' = TRUE /\ batchCache' = batch
    /\ queued' = (backup # Nothing) /\ siteQueued' = site.deleting
    /\ pc' = "idle" /\ copy' = NewBackup /\ changed' = FALSE
    /\ current' = FALSE /\ retry' = FALSE
    /\ UNCHANGED <<kind, site, backup, batch, history, editsLeft>>

\* Mutant: the site does not own its Backups.
SyncBackup_NotOwned ==
    /\ ~fresh /\ ~site.gone
    /\ backupCache' = backup /\ fresh' = TRUE /\ queued' = TRUE
    /\ UNCHANGED <<kind, site, backup, batch, batchCache, siteQueued, pc, copy,
                   changed, current, retry, history, editsLeft, faultsLeft>>

\* Watch events: of the Backup, which wakes its own controller and the site's,
SyncBackup ==
    /\ ~fresh /\ ~site.gone
    /\ backupCache' = backup /\ fresh' = TRUE /\ queued' = TRUE
    /\ siteQueued' = (siteQueued \/ site.deleting)
    /\ UNCHANGED <<kind, site, backup, batch, batchCache, pc, copy, changed,
                   current, retry, history, editsLeft, faultsLeft>>

\* and of a batch Job, which wakes the Backup's.
SyncBatch(s) ==
    /\ batchCache[s] # batch[s] /\ ~site.gone
    /\ batchCache' = [batchCache EXCEPT ![s] = batch[s]] /\ queued' = TRUE
    /\ UNCHANGED <<kind, site, backup, batch, backupCache, fresh, siteQueued,
                   pc, copy, changed, current, retry, history, editsLeft,
                   faultsLeft>>

-----------------------------------------------------------------------------
Controller ==
    Initialise \/ LoadFails \/ NothingToDo \/ Process \/ Stopped \/ Save

Next ==
    \/ Controller \/ Schedule \/ HandleDelete \/ DeleteSite \/ Crash
    \/ SyncBackup
    \/ \E S \in SUBSET Services : EditServices(S)
    \/ \E s \in Services : FinishBatch(s) \/ ExpireBatch(s) \/ SyncBatch(s)

\* The queues are worked off, the watches deliver, batch Jobs end.
Fairness ==
    /\ WF_vars(Controller) /\ WF_vars(HandleDelete) /\ WF_vars(SyncBackup)
    /\ \A s \in Services : WF_vars(FinishBatch(s)) /\ WF_vars(SyncBatch(s))

Spec == Init /\ [][Next]_vars
FairSpec == Spec /\ Fairness

-----------------------------------------------------------------------------
(***************************************************************************)
(* Properties.                                                             *)
(***************************************************************************)

\* The objects and the working copy hold what the API allows.
TypeOK ==
    /\ kind \in {"Scheduled", "Final"} /\ site \in Site
    /\ backup \in Maybe(Backup) /\ backupCache \in Maybe(Backup)
    /\ fresh \in BOOLEAN
    /\ batch \in [Services -> Maybe(Phases)]
    /\ batchCache \in [Services -> Maybe(Phases)]
    /\ siteQueued \in BOOLEAN /\ queued \in BOOLEAN /\ pc \in {"idle", "save"}
    /\ copy \in Backup /\ changed \in BOOLEAN /\ current \in BOOLEAN
    /\ retry \in BOOLEAN
    /\ succeeded \subseteq Services /\ failed \subseteq Services
    /\ editsLeft \in 0..MaxEdits /\ faultsLeft \in 0..MaxFaults

\* A Backup that says Complete holds the data of every service, whatever was
\* read late, refused, repeated or expired, as long as the site's list of
\* services was left alone.
CompleteMeansSaved ==
    backup # Nothing /\ backup.state = "Complete" /\ editsLeft = MaxEdits =>
        Loaded \subseteq succeeded

\* A site that goes takes its databases along: by then the backup of every
\* service has succeeded, or one of them has really failed.
GoneMeansTried == site.gone => Loaded \subseteq succeeded \/ failed # {}

\* The databases go after the final backup ("Final backup should happen just
\* before deleting the databases"), not while it is still being taken.
GoneAfterBackup ==
    site.gone =>
        \A s \in Loaded : batch[s] # "Active" /\ s \in succeeded \cup failed

\* In the end a deleted site is gone, and a scheduled Backup has ended for
\* good: the wait of the one on the other is always woken.
Done == backup # Nothing /\ backup.state \in Final
Ends ==
    /\ site.deleting ~> site.gone
    /\ (kind = "Scheduled" /\ backup # Nothing) ~> []Done
=============================================================================
