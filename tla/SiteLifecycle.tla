--------------------------- MODULE SiteLifecycle ---------------------------
(***************************************************************************)
(* The times of one StagingSite: when it is disabled, deleted and backed   *)
(* up.  The site reconciler derives the times from the spec and from the   *)
(* annotation that the defaulting webhook stamps, saves them in the        *)
(* status, asks the work queue to wake it for the next of them, and keeps  *)
(* the list of Backups short.  The provisioning stages between (module     *)
(* SiteProvisioning) are one step with three results here, and a site      *)
(* with a deletion timestamp is left to handleDelete (module BackupJob).   *)
(***************************************************************************)
EXTENDS Integers, FiniteSetsExt

CONSTANTS
    Day,          \* instants in a day; a backup window is one of them
    Horizon,      \* bound: the last instant
    Zone,         \* instants by which the operator's local time leads UTC
    ResyncPeriod, \* instants between two resyncs of the informers
    Sites,        \* the sites to begin with, see Site0 ...
    Edits,        \* ... and the specs an edit may give them
    None,         \* a nil pointer: no time, no window
    Never,        \* TimeInterval.Never
    Keep,         \* finished Backups kept by the clean-up (3 in the code)
    MaxEvents     \* bound: edits, Backups made by hand, changes of the
                  \* children, failed calls and crashes together

Times == 0..Horizon
Maybe(S) == S \cup {None}

\* Of StagingSiteSpec: Enabled, DisableAfter, DeleteAfter and
\* DailyBackupWindowHour, which the CRD leaves unchecked.
Spec0 == [enabled : BOOLEAN, disableAfter : Nat \cup {Never},
          deleteAfter : Nat \cup {Never}, window : Maybe(Int)]
Site0 == [spec : Spec0, old : BOOLEAN, byHand : BOOLEAN]

ASSUME LifecycleAssumption ==
    /\ Day \in Nat \ {0} /\ Horizon \in Nat /\ Zone \in 0..Day - 1
    /\ ResyncPeriod \in Nat \ {0} /\ Keep \in Nat
    /\ MaxEvents \in Nat
    /\ Sites \subseteq Site0 /\ Edits \subseteq Spec0
    /\ None \notin Int /\ Never \notin Int

\* A state that was never saved.
Unset == ""
States == {Unset, "Pending", "Complete", "Failed"}

\* A deadline may lie beyond the last instant.
Deadlines == Nat

\* Of StagingSiteStatus; ready stands for its six completion flags.
Status == [state : States, enabled : BOOLEAN, ready : BOOLEAN,
           disableAt : Maybe(Deadlines), deleteAt : Maybe(Deadlines),
           nextBackup : Maybe(Deadlines), lastBackup : Maybe(Times),
           applied : Maybe(Times)]

\* The site: spec, the lastSpecChangeAt annotation, finalizer, deletion
\* timestamp, status.
Site == [spec : Spec0, changedAt : Maybe(Times), finalizer : BOOLEAN,
         deleting : BOOLEAN, status : Status]

Backup == [owned : BOOLEAN, state : {"Running", "Complete", "Failed"},
           finished : Maybe(Times)]

\* ctrl.Result, an error counting as again; at is now + RequeueAfter.
Results == [again : BOOLEAN, at : Maybe(Deadlines)]
Nothing == [again |-> FALSE, at |-> None]
Again == [again |-> TRUE, at |-> None]

VARIABLES
    clock,
    site,        \* the StagingSite at the API server
    cache,       \* the informer's copy ...
    fresh,       \* ... and whether it is the latest version
    backups,     \* the Backups of the site, numbered as they started
    children,    \* what the stages will find: "ready", "busy" or "broken"
    queued,      \* the site's key is in the work queue ...
    timer,       \* ... or will be put there after this instant
    pc,          \* the reconcile: "idle", "stages" or "save"
    copy,        \* the site as read, with the status it will save ...
    changed,     \* ... if it has to ...
    current,     \* ... and no one has written the site since
    result,      \* what it will return
    touched,     \* it has created or deleted a Backup
    exact,       \* history: the last wake-up was computed in the very
                 \* instant of a deadline
    made,        \* history: when the last scheduled Backup was created
    completed,   \* history: when the last Backup completed
    lost,        \* history: a reconcile touched Backups without saving, or
                 \* created one from an outdated copy
    eventsLeft

work == <<pc, copy, changed, current, result, touched>>
queue == <<queued, timer>>
history == <<exact, made, completed, lost>>
vars == <<clock, site, cache, fresh, backups, children, queue, work, history,
          eventsLeft>>

TypeOK ==
    /\ clock \in Times
    /\ site \in Site /\ cache \in Site /\ fresh \in BOOLEAN
    /\ DOMAIN backups \subseteq Nat /\ IsFiniteSet(DOMAIN backups)
    /\ backups \in [DOMAIN backups -> Backup]
    /\ children \in {"ready", "busy", "broken"}
    /\ queued \in BOOLEAN /\ timer \in Maybe(Deadlines)
    /\ pc \in {"idle", "stages", "save"}
    /\ copy \in Maybe(Site) /\ changed \in BOOLEAN /\ current \in BOOLEAN
    /\ result \in Results /\ touched \in BOOLEAN
    /\ exact \in BOOLEAN /\ made \in Maybe(Times)
    /\ completed \in Maybe(Times) /\ lost \in BOOLEAN
    /\ eventsLeft \in 0..MaxEvents

NewStatus == [state |-> Unset, enabled |-> FALSE, ready |-> FALSE,
              disableAt |-> None, deleteAt |-> None, nextBackup |-> None,
              lastBackup |-> None, applied |-> None]

NewBackup(owned) == [owned |-> owned, state |-> "Running", finished |-> None]

\* A site made through the webhook, or an old one that an operator without
\* webhooks has worked on, perhaps with a Backup made by hand, unowned.
Init ==
    /\ clock = 0
    /\ \E s \in Sites :
         /\ site = [spec |-> s.spec, changedAt |-> IF s.old THEN None ELSE 0,
                    finalizer |-> s.old,
                    deleting |-> FALSE, status |-> NewStatus]
         /\ backups = [i \in IF s.byHand THEN {1} ELSE {} |-> NewBackup(FALSE)]
    /\ cache = site /\ fresh = TRUE
    /\ children = "ready"
    /\ queued = TRUE /\ timer = None
    /\ pc = "idle" /\ copy = None /\ changed = FALSE /\ current = FALSE
    /\ result = Nothing /\ touched = FALSE
    /\ exact = FALSE /\ made = None /\ completed = None /\ lost = FALSE
    /\ eventsLeft = MaxEvents

-----------------------------------------------------------------------------
(* The work queue. *)

\* Put the key in the queue.  controller-runtime's priority queue holds one
\* item for each key and moves it forward, so a later wake-up is forgotten
\* (a queue that keeps it only wakes the site once more).
Enqueue == queued' = TRUE /\ timer' = None

\* What controller-runtime does with the result of a reconcile; a key that
\* is queued already stays so.
Requeue(res) ==
    /\ queued' = (queued \/ res.again)
    /\ timer' = IF queued' \/ {res.at, timer} = {None} THEN None
                ELSE Min({res.at, timer} \ {None})

\* Something that the operator does not do itself: a failure, or an edit.
Event == eventsLeft > 0 /\ eventsLeft' = eventsLeft - 1

-----------------------------------------------------------------------------
(* The times derived from the spec. *)

\* ToDuration is exact for whole minutes.
Deadline(since, after) == IF after = Never THEN None ELSE since + after

\* An hour that does not parse: the CRD does not limit it.
BadWindow(sp) == sp.window # None /\ sp.window >= Day

\* Mutant: today's time, even if it has passed.
NextBackupTime_Today(sp, now) ==
    IF sp.window = None \/ sp.window < 0 THEN None
    ELSE Day * ((now + Zone) \div Day) + sp.window

\* Mutant: the date of the day before.
NextBackupTime_DayBefore(sp, now) ==
    IF sp.window = None \/ sp.window < 0 THEN None
    ELSE Day * ((now + Zone) \div Day - 1) + sp.window

\* getNextBackupTimeForSite: the date is the local one, the hour is UTC.
NextBackupTime(sp, now) ==
    IF sp.window = None \/ sp.window < 0 THEN None
    ELSE LET today == Day * ((now + Zone) \div Day) + sp.window
         IN  Min({t \in {today, today + Day} : t >= now})

\* Does Status.NextBackupTime fall in another hour than the window?
OutsideWindow(sp, t) == sp.window # None /\ (t = None \/ t % Day # sp.window)

\* Mutant: the times are counted from the first spec that was applied.
WithTimes_SinceFirst(s) ==
    LET st == s.status
        since == IF st.applied = None THEN s.changedAt ELSE st.applied
        disableAt == Deadline(since, s.spec.disableAfter)
        enabled == s.spec.enabled /\ (disableAt = None \/ disableAt > clock)
    IN  [st EXCEPT !.disableAt = disableAt,
                   !.deleteAt = Deadline(since, s.spec.deleteAfter),
                   !.enabled = enabled,
                   !.state = IF st.enabled # enabled \/ @ = Unset THEN "Pending"
                             ELSE @,
                   !.applied = since]

\* Mutant: DisableAt is only noted.
WithTimes_NotDisabled(s) ==
    LET st == s.status
    IN  [st EXCEPT !.disableAt = Deadline(s.changedAt, s.spec.disableAfter),
                   !.deleteAt = Deadline(s.changedAt, s.spec.deleteAfter),
                   !.enabled = s.spec.enabled,
                   !.state = IF st.enabled # s.spec.enabled \/ @ = Unset
                             THEN "Pending" ELSE @,
                   !.applied = IF @ = None \/ @ < s.changedAt THEN s.changedAt
                               ELSE @]

\* The spec's part of ensureStatusIsUpToDate: times and Enabled.
WithTimes(s) ==
    LET disableAt == Deadline(s.changedAt, s.spec.disableAfter)
        enabled == s.spec.enabled /\ (disableAt = None \/ disableAt > clock)
        st == s.status
    IN  [st EXCEPT !.disableAt = disableAt,
                   !.deleteAt = Deadline(s.changedAt, s.spec.deleteAfter),
                   !.enabled = enabled,
                   !.state = IF st.enabled # enabled \/ @ = Unset THEN "Pending"
                             ELSE @,
                   !.applied = IF @ = None \/ @ < s.changedAt THEN s.changedAt
                               ELSE @]

TimesDiffer(st, old) ==
    \E f \in {"disableAt", "deleteAt", "enabled", "applied"} : st[f] # old[f]

\* ... and NextBackupTime.
WithNextBackup(s, st) ==
    IF BadWindow(s.spec) THEN [st EXCEPT !.nextBackup = None]
    ELSE IF OutsideWindow(s.spec, st.nextBackup) \/ s.spec.window = None
    THEN [st EXCEPT !.nextBackup = NextBackupTime(s.spec, clock)]
    ELSE st

\* Mutant: no window always clears the time.
BackupTimeChanges_NoNilCheck(s) ==
    \/ OutsideWindow(s.spec, s.status.nextBackup)
    \/ s.spec.window = None

BackupTimeChanges(s) ==
    \/ OutsideWindow(s.spec, s.status.nextBackup)
    \/ s.spec.window = None /\ s.status.nextBackup # None

-----------------------------------------------------------------------------
(* The list of Backups. *)

IsFinal(b) == b.state # "Running"
Final == {i \in DOMAIN backups : IsFinal(backups[i])}
Unowned == {i \in DOMAIN backups : ~backups[i].owned}
Ends == {backups[i].finished :
            i \in {j \in DOMAIN backups : backups[j].state = "Complete"}}

\* The Backups when one is created, when those in P are claimed and when those
\* in D are deleted.
OneMore ==
    LET n == Max(DOMAIN backups \cup {0}) + 1
    IN  [i \in DOMAIN backups \cup {n} |->
            IF i = n THEN NewBackup(TRUE) ELSE backups[i]]
Claimed(P) == [i \in DOMAIN backups |->
                  IF i \in P THEN [backups[i] EXCEPT !.owned = TRUE]
                  ELSE backups[i]]
Without(D) == [i \in DOMAIN backups \ D |-> backups[i]]

\* The k finished Backups that started first.
Oldest(k) == {i \in Final : Cardinality({j \in Final : j < i}) < k}

Surplus == Max({0, Cardinality(Final) - Keep})

\* Mutant: LastBackupTime is set only once.
WithLastBackup_Once(st) ==
    [st EXCEPT !.lastBackup = IF Ends = {} \/ @ # None THEN @ ELSE Max(Ends)]

\* LastBackupTime: the latest end of a Complete Backup, never set back.
WithLastBackup(st) ==
    [st EXCEPT !.lastBackup =
        IF Ends = {} THEN @ ELSE Max(Ends \cup ({@} \ {None}))]

-----------------------------------------------------------------------------
(* The reconcile, doReconcile. *)

\* Every Update of the site (not of its status) goes through Default, the
\* webhook that stamps lastSpecChangeAt, the operator's own Updates too.
Default(s) == [s EXCEPT !.changedAt = clock]

\* Get.  The informer's copy is worked on from here to the save.
Begins == pc = "idle" /\ queued

\* With a deletion timestamp the site is left to handleDelete.
Leave ==
    /\ Begins /\ cache.deleting
    /\ queued' = FALSE
    /\ UNCHANGED <<clock, site, cache, fresh, backups, children, timer,
                   work, history, eventsLeft>>

\* An Update, refused if the copy is outdated, and Requeue.
AppendFinalizer ==
    /\ Begins /\ ~cache.deleting /\ ~cache.finalizer
    /\ site' = IF fresh THEN [Default(site) EXCEPT !.finalizer = TRUE] ELSE site
    /\ fresh' = FALSE
    /\ UNCHANGED <<clock, cache, backups, children, queue, work, history, eventsLeft>>

\* Go on with status st; or return with it through
\* SaveStatusUpdatesIfObjectChanged, without and with an error.
Continue(s, st) ==
    /\ copy' = [s EXCEPT !.status = st] /\ pc' = "stages"
    /\ UNCHANGED <<changed, result>>
Save(s, st, ch, res) ==
    /\ copy' = [s EXCEPT !.status = st] /\ pc' = "save"
    /\ changed' = ch /\ result' = res
SaveError(s, st, ch) == Save(s, st, ch \/ st.state = "Failed", Again)

\* The reconcile is over.
Done ==
    /\ pc' = "idle" /\ copy' = None /\ changed' = FALSE /\ current' = FALSE
    /\ result' = Nothing /\ touched' = FALSE

\* ensureStatusIsUpToDate is about to be called.
ReadsStatus ==
    /\ Begins /\ ~cache.deleting /\ cache.finalizer
    /\ queued' = FALSE /\ current' = fresh
    /\ UNCHANGED <<clock, cache, children, timer, history>>

\* The annotation is missing: an Update, then Requeue.
Annotate ==
    /\ ReadsStatus /\ cache.changedAt = None
    /\ site' = IF fresh THEN Default(site) ELSE site
    /\ fresh' = FALSE
    /\ IF fresh THEN Save(site', site.status, TRUE, Again)
       ELSE SaveError(cache, cache.status, FALSE)
    /\ UNCHANGED <<backups, touched, eventsLeft>>

\* ensureStatusIsUpToDate.  When it has written a Backup, an event follows:
\* Requeue, which the event could only repeat, stands for both.
UpdateStatus ==
    LET times == WithTimes(cache)
        st == WithLastBackup(WithNextBackup(cache, times))
        isChanged == \/ TimesDiffer(times, cache.status)
                     \/ BackupTimeChanges(cache)
                     \/ st.lastBackup # cache.status.lastBackup
    IN  /\ ReadsStatus /\ cache.changedAt # None /\ ~BadWindow(cache.spec)
        /\ \/ /\ Unowned # {}
              /\ backups' = Claimed(Unowned)
              /\ Save(cache, st, TRUE, Again)
              /\ UNCHANGED touched
           \/ /\ Unowned = {}
              /\ backups' = Without(Oldest(Surplus))
              /\ touched' = (Surplus > 0)
              /\ IF isChanged THEN Save(cache, st, TRUE, Again)
                 ELSE Continue(cache, st)
        /\ UNCHANGED <<site, fresh, eventsLeft>>

\* It ends with an error: the hour does not parse, a ServiceConfig cannot be
\* read, a Backup cannot be claimed or deleted.
StatusFails ==
    LET times == WithTimes(cache)
        st == WithNextBackup(cache, times)
        last == WithLastBackup(st)
        isChanged == TimesDiffer(times, cache.status)
        backupChanged == isChanged \/ BackupTimeChanges(cache)
    IN  /\ ReadsStatus /\ cache.changedAt # None
        /\ \/ /\ BadWindow(cache.spec)
              /\ SaveError(cache, st, isChanged)
              /\ UNCHANGED <<backups, touched, eventsLeft>>
           \/ /\ Event
              /\ SaveError(cache, times, FALSE)
              /\ UNCHANGED <<backups, touched>>
           \/ /\ Event /\ ~BadWindow(cache.spec)
              /\ \E P \in SUBSET Unowned \ {Unowned} : backups' = Claimed(P)
              /\ SaveError(cache, st, backupChanged)
              /\ UNCHANGED touched
           \/ /\ Event /\ ~BadWindow(cache.spec) /\ Unowned = {} /\ Surplus > 0
              /\ \E k \in 0..Surplus - 1 : backups' = Without(Oldest(k))
              /\ touched' = TRUE
              /\ SaveError(cache, last, backupChanged
                     \/ last.lastBackup # cache.status.lastBackup)
        /\ UNCHANGED <<site, fresh>>

\* resetStatusErrors
ResetErrors(st) == [st EXCEPT !.state = IF @ = "Failed" THEN "Pending" ELSE @]

\* Mutant: only a Complete site is deleted.
DeleteDue_CompleteOnly ==
    /\ copy.status.state = "Complete"
    /\ copy.status.deleteAt # None /\ copy.status.deleteAt < clock

DeleteDue == copy.status.deleteAt # None /\ copy.status.deleteAt < clock

\* The time is up.  The Delete carries no version: it also succeeds when
\* the site has been written since it was read.
DeleteSite ==
    /\ pc = "stages" /\ DeleteDue
    /\ site' = [site EXCEPT !.deleting = TRUE] /\ fresh' = FALSE
    /\ Done
    /\ UNCHANGED <<clock, cache, backups, children, queue, history, eventsLeft>>

\* The stages, from ensureDatabasesAreCreated to
\* ensureNetworkingObjectsAreUpToDate, when they do not get to the end:
\* still waiting for a child, a final error, or an error.  A final error
\* leaves the flags of its stage set; how many another error leaves is open.
StagesStop ==
    LET st == ResetErrors(copy.status)
    IN  /\ pc = "stages" /\ ~DeleteDue
        /\ \/ /\ children = "busy"
              /\ Save(copy, [st EXCEPT !.ready = FALSE], st.ready, Nothing)
              /\ UNCHANGED eventsLeft
           \/ /\ children = "broken"
              /\ Save(copy, [st EXCEPT !.state = "Failed"], TRUE, Nothing)
              /\ UNCHANGED eventsLeft
           \/ /\ Event
              /\ \E r \in BOOLEAN :
                    SaveError(copy, [st EXCEPT !.ready = r], r # st.ready)
        /\ UNCHANGED <<clock, site, cache, fresh, backups, children, queue,
                       current, touched, history>>

\* The times at which something has to be done to a site with status st.
Ahead(st) ==
    {st.deleteAt, st.nextBackup, IF st.enabled THEN st.disableAt ELSE None}
        \ {None}

\* Mutant: the next backup is forgotten.
RecheckResult_NoBackup(st) ==
    LET ahead == Ahead([st EXCEPT !.nextBackup = None])
    IN  IF ahead = {} \/ Min(ahead) = clock THEN Nothing
        ELSE IF Min(ahead) < clock THEN Again
        ELSE [again |-> FALSE, at |-> Min(ahead)]

\* getCtrlResultWithRecheckInterval.  A RequeueAfter of zero is no requeue.
RecheckResult(st) ==
    IF Ahead(st) = {} \/ Min(Ahead(st)) = clock THEN Nothing
    ELSE IF Min(Ahead(st)) < clock THEN Again
    ELSE [again |-> FALSE, at |-> Min(Ahead(st))]

\* Mutant: a Backup is due in its instant, and not after it.
BackupDue_Exact(st) == st.nextBackup = clock

BackupDue(st) == st.nextBackup # None /\ st.nextBackup < clock

\* The stages are through: Complete, a Backup if one is due, the wake-up.
\* handleBackup creates the Backup, then sets the next time.  A name is
\* made of the second.  In the instant of the last Create, a copy that is
\* still outdated may come within that second, and meets the name; an up-to-
\* date one comes later.  That, or a call that fails, is an error.
StagesEnd ==
    LET done == [ResetErrors(copy.status) EXCEPT !.ready = TRUE,
                                                 !.state = "Complete"]
        next == [done EXCEPT !.nextBackup = NextBackupTime(copy.spec, clock)]
        isChanged == done # ResetErrors(copy.status)
        due == BackupDue(done)
    IN  /\ pc = "stages" /\ ~DeleteDue /\ children = "ready"
        /\ \/ /\ ~due
              /\ Save(copy, done, isChanged, RecheckResult(done))
              /\ exact' = (clock \in Ahead(done))
              /\ UNCHANGED <<backups, queue, touched, made, lost, eventsLeft>>
           \/ /\ due /\ (made # clock \/ current)
              /\ backups' = OneMore
              /\ Save(copy, next, TRUE, RecheckResult(next))
              /\ Enqueue
              /\ exact' = (clock \in Ahead(next))
              /\ made' = clock /\ touched' = TRUE
              /\ lost' = (lost \/ ~current)
              /\ UNCHANGED eventsLeft
           \/ /\ due
              /\ \/ made = clock /\ ~current /\ UNCHANGED eventsLeft
                 \/ Event
              /\ SaveError(copy, done, isChanged)
              /\ UNCHANGED <<backups, queue, touched, exact, made, lost>>
        /\ UNCHANGED <<clock, site, cache, fresh, children, current, completed>>

\* setSiteState, with the deletion timestamp of the copy.
SetSiteState(st) ==
    [st EXCEPT !.state = IF @ = "Failed" THEN @
                         ELSE IF st.ready THEN "Complete" ELSE "Pending"]

\* The save, refused if someone has written the site since it was read, and
\* the return.
SaveStatus ==
    LET st == SetSiteState(copy.status)
    IN  /\ pc = "save" /\ Done
        /\ \/ /\ ~changed
              /\ Requeue(result)
              /\ UNCHANGED <<site, fresh, lost, eventsLeft>>
           \/ /\ changed /\ current
              /\ site' = [site EXCEPT !.status = st]
              /\ fresh' = (fresh /\ site' = site)
              /\ Requeue(result)
              /\ UNCHANGED <<lost, eventsLeft>>
           \/ /\ changed
              /\ \/ ~current /\ UNCHANGED eventsLeft
                 \/ Event
              /\ lost' = (lost \/ touched)
              /\ Requeue(Again)
              /\ UNCHANGED <<site, fresh>>
        /\ UNCHANGED <<clock, cache, backups, children, exact, made, completed>>

-----------------------------------------------------------------------------
(* The informers, the cluster, the user and time. *)

SyncSite ==
    /\ ~fresh
    /\ cache' = site /\ fresh' = TRUE
    /\ Enqueue
    /\ UNCHANGED <<clock, site, backups, children, work, history, eventsLeft>>

\* The wake-up.  It was asked for after the time was read, so it comes after
\* the deadline, never at it.
TimerDue == timer # None /\ timer < clock
WakeUp ==
    /\ TimerDue
    /\ Enqueue
    /\ UNCHANGED <<clock, site, cache, fresh, backups, children, work, history,
                   eventsLeft>>

\* Time.  Instants are hours apart, while calls, watches and timers take
\* seconds: one may pass while the cache is behind only during the stages,
\* and a wake-up comes before the next one.  Every ResyncPeriod the informers
\* hand all their objects to the reconciler again.
Tick ==
    /\ clock < Horizon /\ clock' = clock + 1
    /\ pc = "stages" \/ (pc = "idle" /\ fresh)
    /\ ~TimerDue
    /\ IF clock' % ResyncPeriod = 0 THEN Enqueue ELSE UNCHANGED queue
    /\ UNCHANGED <<site, cache, fresh, backups, children, work, history,
                   eventsLeft>>

\* A user edits the site, or writes it without changing the spec.
EditSite ==
    /\ ~site.deleting /\ Event
    /\ \E sp \in Edits : site' = [Default(site) EXCEPT !.spec = sp]
    /\ fresh' = FALSE /\ current' = FALSE
    /\ UNCHANGED <<clock, cache, backups, children, queue, pc, copy, changed,
                   result, touched, history>>

\* A user makes a Backup by hand: its webhook makes the site the owner.  The
\* list is read when a reconcile begins: between two is soon enough.
BackupByHand ==
    /\ pc = "idle" /\ ~site.deleting /\ Event
    /\ backups' = OneMore
    /\ Enqueue
    /\ UNCHANGED <<clock, site, cache, fresh, children, work, history>>

\* The Backup controller finishes a Backup; an event if the site owns it.
FinishBackup(i) ==
    /\ pc = "idle" /\ ~site.deleting /\ backups[i].state = "Running"
    /\ \/ /\ backups' = [backups EXCEPT ![i].state = "Complete",
                                        ![i].finished = clock]
          /\ completed' = clock
       \/ /\ backups' = [backups EXCEPT ![i].state = "Failed"]
          /\ UNCHANGED completed
    /\ IF backups[i].owned THEN Enqueue ELSE UNCHANGED queue
    /\ UNCHANGED <<clock, site, cache, fresh, children, work, exact, made,
                   lost, eventsLeft>>

\* A database, job or Deployment changes.
ChildrenChange ==
    /\ pc # "save" /\ ~site.deleting /\ Event
    /\ children' \in {"ready", "busy", "broken"} \ {children}
    /\ Enqueue
    /\ UNCHANGED <<clock, site, cache, fresh, backups, work, history>>

\* The operator dies and starts again: all it kept in memory is gone, and
\* every site is queued.
Crash ==
    /\ Event
    /\ Done /\ cache' = site /\ fresh' = TRUE
    /\ Enqueue
    /\ lost' = (lost \/ (pc # "idle" /\ touched))
    /\ UNCHANGED <<clock, site, backups, children, exact, made, completed>>

Reconcile ==
    \/ Leave \/ AppendFinalizer \/ Annotate \/ UpdateStatus \/ StatusFails
    \/ DeleteSite \/ StagesStop \/ StagesEnd \/ SaveStatus

Next ==
    \/ Reconcile
    \/ SyncSite \/ WakeUp \/ Tick
    \/ EditSite \/ BackupByHand \/ ChildrenChange
    \/ \E i \in DOMAIN backups : FinishBackup(i)
    \/ Crash

Spec == Init /\ [][Next]_vars

FairSpec ==
    /\ Spec
    /\ WF_vars(Reconcile) /\ WF_vars(SyncSite) /\ WF_vars(WakeUp)
    /\ SF_vars(Tick)
    /\ WF_vars(\E i \in DOMAIN backups : FinishBackup(i))

-----------------------------------------------------------------------------
(* Properties. *)

\* A window that getNextBackupTimeForSite gives a time for, or none.
Sane(sp) == sp.window = None \/ sp.window \in 0..Day - 1

AtRest == pc = "idle" /\ ~queued /\ fresh /\ ~site.deleting

(* A Complete site at rest has a wake-up for the first of its times: no     *)
(* event, save, retry or restart leaves a site whose time passes without    *)
(* anyone looking.  The exception is a site looked at in the very instant,  *)
(* for which RequeueAfter is zero (stagingsite_controller.go:297-338).      *)
WakeupSet ==
    AtRest /\ site.status.state = "Complete" /\ ~exact =>
        Ahead(site.status) = {} \/ timer = Min(Ahead(site.status))

(* A site is deleted, and is disabled against the wish of its spec, only    *)
(* after its time, counted from the last write that the webhook stamped;    *)
(* a deletion may miss a write that the cache had not seen                  *)
(* (stagingsite_controller.go:143, 401).                                    *)
NeverEarly ==
    [][LET past(after) == after # Never /\ clock >= site.changedAt + after
       IN  /\ site'.deleting /\ ~site.deleting /\ current
                => past(site.spec.deleteAfter)
           /\ site.status.enabled /\ ~site'.status.enabled /\ site.spec.enabled
                => past(site.spec.disableAfter)]_vars

(* A due time is answered by one Backup.  A scheduled Backup is created for *)
(* a time that the one before it did not answer, unless a save after a      *)
(* Create was lost or the copy was outdated; and NextBackupTime moves on    *)
(* from a time only after a Backup was created for it, unless that time is  *)
(* not in the window any more                                               *)
(* (stagingsite_controller.go:211-252, 461-471).                            *)
OneBackupPerTime ==
    [][LET t == site.status.nextBackup
           u == site'.status.nextBackup
       IN  /\ made' # made /\ made # None /\ ~lost' => copy.status.nextBackup >= made
           /\ None \notin {t, u} /\ u # t /\ t < clock /\ ~OutsideWindow(site.spec, t)
                => made # None /\ made > t
      ]_vars

(* When the reconciler rests, every Backup is claimed, at most Keep         *)
(* finished ones are left and LastBackupTime is the end of the last one     *)
(* that ever completed, deleted ones included: nothing is deleted before it *)
(* was noted unless that save was lost (stagingsite_controller.go:473-541). *)
RestIsTidy ==
    AtRest => /\ Unowned = {} /\ Surplus = 0
              /\ ~lost => site.status.lastBackup = completed

ResyncedSince(t) == \E u \in t + 1..clock : u % ResyncPeriod = 0

\* Past its time and a resync, and nothing was done.
Neglected ==
    LET past(after) == /\ after # Never /\ site.changedAt # None
                       /\ ResyncedSince(site.changedAt + after)
    IN  /\ ~site.deleting /\ Sane(site.spec)
        /\ \/ past(site.spec.deleteAfter)
           \/ past(site.spec.disableAfter) /\ site.status.enabled

(* A site past its time is disabled and deleted, whatever state its         *)
(* children are in: by its wake-up, or, if it had none because it was       *)
(* Pending or Failed or looked at in the very instant, by the resync        *)
(* (stagingsite_controller.go:143-149, 401-410).                            *)
Expires == <>[]~Neglected

(* When a site is provisioned and its backup is due, it gets one and a new  *)
(* time, by its wake-up or, if that was missed, by the resync               *)
(* (stagingsite_controller.go:211-224).                                     *)
BackupsAreMade ==
    <>[](~site.deleting /\ Sane(site.spec) /\ children = "ready"
         /\ site.status.nextBackup # None
            => ~ResyncedSince(site.status.nextBackup))

(* The reconciler comes to rest: no status is found out of date for ever    *)
(* (stagingsite_controller.go:116-125, 461-471).                            *)
Rests == <>[](Sane(site.spec)) => <>[](pc = "idle" /\ ~queued)

=============================================================================
