-------------------------- MODULE SiteProvisioning --------------------------
(***************************************************************************)
(* How the StagingSite reconciler of kube-stager provisions one site, and  *)
(* how it interleaves with the user, the API server's caches and the       *)
(* controllers that own the child objects.                                 *)
(*                                                                         *)
(* One reconcile (StagingSiteReconciler.doReconcile) is a sequential       *)
(* process: it reads the site once, carries that copy through the stages   *)
(*     databases -> configs -> init jobs -> migration jobs ->              *)
(*     workloads -> networking                                             *)
(* and writes the status back at the end.  Between two stages everything   *)
(* else moves: the user edits the site, the task and job controllers move  *)
(* their objects, an informer cache catches up, the operator dies.  Each   *)
(* read comes from the cache, each write goes to the API server.           *)
(*                                                                         *)
(* The module keeps the truth apart from what the objects claim: "server"  *)
(* is the content of the database servers, the objects' states are what    *)
(* the controllers believe.  Most properties relate the two.               *)
(***************************************************************************)
EXTENDS Naturals

CONSTANTS
    Services,       \* the services (ServiceConfig names) a site may list
    DbServices,     \* those with a mysql or mongo environment
    InitServices,   \* those whose ServiceConfig has a DbInitPodSpec
    MigServices,    \* those whose ServiceConfig has a MigrationJobPodSpec
    Tags,           \* image tags
    Envs,           \* database environments (MysqlConfig / MongoConfig names)
    Nothing,        \* "no such object", "not in the spec", "not set"
    LaggingCaches,  \* the kinds whose informer cache may be behind
    MaxEdits,       \* bound: edits of the site's spec
    MaxFaults       \* bound: failed API calls, failed jobs and crashes

Kinds == {"site", "db", "ini", "mig", "dep"}

\* What the spec says of one service: the image tag and the environment.
Want == [tag : Tags, env : Envs]
Maybe(S) == S \cup {Nothing}

JobStates == {"Pending", "Running", "Complete", "Failed"}

\* MysqlDatabase / MongoDatabase: "New" has no finalizer yet, "Claimed" has.
DbObject == [env : Envs, state : {"New", "Claimed", "Complete"},
             deleting : BOOLEAN]
\* DbInitJob, and its batch Job with the environment it was rendered with.
InitObject == [state : JobStates]
InitRun == [env : Envs, phase : {"Active", "Complete", "Failed"}]
\* DbMigrationJob: Spec.ImageTag, Status.LastMigratedImageTag, State, and
\* what its running batch job was rendered with.
MigObject == {m \in [tag : Tags, last : Maybe(Tags), state : JobStates,
                     run : Maybe(Want)] :
                m.state = "Running" => m.run # Nothing}

\* The completion flags of StagingSiteStatus (DatabaseCreationComplete,
\* DatabaseInitialisationComplete, DatabaseMigrationsComplete,
\* ConfigsAreCreated, WorkloadsAreCreated, NetworkingObjectsAreCreated).
Flags == {"created", "inited", "migrated", "configs", "workloads", "network"}
SiteStates == {"", "Pending", "Complete", "Failed"}

\* StagingSiteStatus: "done" holds the flags that are set; "applied" says that
\* the fields ensureStatusIsUpToDate derives from the spec (times, service
\* list) belong to the present spec.
Status == [applied : BOOLEAN, enabled : BOOLEAN, done : SUBSET Flags,
           state : SiteStates]
Site == [want : [Services -> Maybe(Want)], enabled : BOOLEAN, st : Status]

Stages == {"idle", "create", "ready", "configs", "initCreate", "initReady",
           "migCreate", "migReady", "workloads", "network", "save"}

CacheState ==
    [db : [Services -> Maybe(DbObject)], ini : [Services -> Maybe(InitObject)],
     mig : [Services -> Maybe(MigObject)], dep : [Services -> Maybe(Want)]]

ASSUME ServicesAssumption ==
    /\ DbServices \subseteq Services
    /\ InitServices \subseteq DbServices
    /\ MigServices \subseteq DbServices
ASSUME BoundsAssumption == MaxEdits \in Nat /\ MaxFaults \in Nat
ASSUME NothingAssumption ==
    Nothing \notin Want \cup DbObject \cup InitObject \cup InitRun
                   \cup MigObject \cup Tags \cup Envs
ASSUME LagAssumption == LaggingCaches \subseteq Kinds

VARIABLES
    site,       \* the StagingSite at the API server
    db,         \* the database objects, by service
    ini,        \* the DbInitJob objects
    mig,        \* the DbMigrationJob objects
    dep,        \* the Deployments: what each runs
    conf,       \* the ConfigMaps: what each was rendered from
    net,        \* the services that have a Service and an Ingress
    siteCache,  \* the informer cache's copy of the site ...
    siteFresh,  \* ... and whether it is the latest version
    cache,      \* the informer caches of the child objects
    queued,     \* the site's key is in the work queue
    pc,         \* the stage the reconcile in progress is at
    base,       \* the site as that reconcile read it
    current,    \* no one has written the site since that version
    done,       \* the completion flags of its copy of the status
    state,      \* the State of that copy
    changed,    \* isSiteChanged
    requeue,    \* the result it will return asks for a requeue
    existing,   \* the databases on the servers: <<service, env>>
    inited,     \* those an init job has run on
    initRun,    \* the batch Jobs of the DbInitJobs
    unsaved,    \* history: the services whose batch Job was created by a
                \* reconcile of the DbInitJob that could not save "Running"
    migrated,   \* the migrations that have run: <<service, env, tag>>
    edits,      \* history: how each service's spec was edited
    editsLeft, faultsLeft

objects == <<db, ini, mig, dep, conf, net>>
caches == <<siteCache, siteFresh, cache>>
read == <<base, current>>
copy == <<done, state, changed, requeue>>
runs == <<initRun, unsaved>>
servers == <<existing, inited, migrated, runs>>
budget == <<edits, editsLeft>>
vars == <<site, objects, caches, queued, pc, read, copy, servers, budget,
          faultsLeft>>

None == [s \in Services |-> Nothing]
NewStatus == [applied |-> FALSE, enabled |-> FALSE, done |-> {}, state |-> ""]
NoSite == [want |-> None, enabled |-> FALSE, st |-> NewStatus]

Init ==
    /\ \E w \in [Services -> Maybe(Want)] :
         /\ \E s \in Services : w[s] # Nothing
         /\ site = [want |-> w, enabled |-> TRUE, st |-> NewStatus]
    /\ db = None /\ ini = None /\ mig = None /\ dep = None /\ conf = None
    /\ net = {}
    /\ siteCache = site /\ siteFresh = TRUE
    /\ cache = [db |-> None, ini |-> None, mig |-> None, dep |-> None]
    /\ queued = TRUE
    /\ pc = "idle" /\ base = NoSite /\ current = FALSE
    /\ done = {} /\ state = "" /\ changed = FALSE /\ requeue = FALSE
    /\ existing = {} /\ inited = {} /\ migrated = {}
    /\ initRun = None /\ unsaved = {}
    /\ edits = [s \in Services |-> {}]
    /\ editsLeft = MaxEdits
    /\ faultsLeft = MaxFaults

-----------------------------------------------------------------------------
(***************************************************************************)
(* Write loops.  A handler computes the objects to delete, create and      *)
(* update from the cached list and then writes them, one class after the   *)
(* other (a Go map is walked in any order within a class).  It returns at  *)
(* the first error: A is what it wrote before that.                        *)
(***************************************************************************)
Prefixes(first, second, third) ==
    {A \in SUBSET (first \cup second \cup third) :
        /\ A \cap second # {} => first \subseteq A
        /\ A \cap third # {} => (first \cup second) \subseteq A}

\* The class the next write would come from when A has been written.
NextWrites(A, first, second, third) ==
    IF first \ A # {} THEN first \ A
    ELSE IF second \ A # {} THEN second \ A ELSE third \ A

\* An API call that fails for no reason of ours.
CallFails == faultsLeft > 0 /\ faultsLeft' = faultsLeft - 1

\* The loop stopped at A: the API server rejected a write (NotFound,
\* AlreadyExists, Conflict: the cached list was stale), or a call failed (a
\* read before the first write included).
Interrupted(A, first, second, third, rejected) ==
    LET next == NextWrites(A, first, second, third) IN
    \/ /\ next \cap rejected # {}
       /\ UNCHANGED faultsLeft
    \/ /\ A = {} \/ next # {}
       /\ CallFails

\* Mutant: a flag, once set, is never cleared.
Set_NeverClears(flag, v) == done \cup {flag}

\* The copy's flags after one of them is assigned.
Set(flag, v) == IF v THEN done \cup {flag} ELSE done \ {flag}

\* A stage ends: go on at the given stage, with isSiteChanged OR-ed.
Continue(stage, flags, chg) ==
    /\ pc' = stage /\ done' = flags /\ changed' = (changed \/ chg)
    /\ UNCHANGED <<state, requeue, faultsLeft>>

\* Return SaveStatusUpdatesIfObjectChanged(isSiteChanged, ..., err): saved
\* only if an earlier stage changed the status, and requeued.
Err(flags) ==
    /\ pc' = "save" /\ done' = flags /\ requeue' = TRUE
    /\ UNCHANGED <<state, changed>>

\* The same with a final ControllerError: the site is Failed, not requeued.
FinalErr ==
    /\ pc' = "save" /\ state' = "Failed" /\ changed' = TRUE
    /\ UNCHANGED <<done, requeue, faultsLeft>>

Listed(c) == {s \in Services : c[s] # Nothing}
\* Mutant: a disabled site wants nothing.
Wanted_EnabledOnly(S) ==
    {s \in S : base.want[s] # Nothing /\ base.st.enabled}

Wanted(S) == {s \in S : base.want[s] # Nothing}
\* Mutant: only a failed object holds the site up.
AllComplete_NoneFailed(c) == \A s \in Listed(c) : c[s].state # "Failed"

AllComplete(c) == \A s \in Listed(c) : c[s].state = "Complete"
AnyFailed(c) == \E s \in Listed(c) : c[s].state = "Failed"

-----------------------------------------------------------------------------
\* A kind whose cache does not lag is delivered before anything else happens.
InSync ==
    /\ "site" \notin LaggingCaches => siteFresh
    /\ "db" \notin LaggingCaches => cache.db = db
    /\ "ini" \notin LaggingCaches => cache.ini = ini
    /\ "mig" \notin LaggingCaches => cache.mig = mig
    /\ "dep" \notin LaggingCaches => cache.dep = dep

(***************************************************************************)
(* The reconcile.                                                          *)
(***************************************************************************)

\* ensureStatusIsUpToDate finds nothing to change in the cached site.
UpToDate == siteCache.st.applied /\ siteCache.st.enabled = siteCache.enabled

\* The State it leaves behind: Pending for a new site and for one that is
\* being enabled or disabled.
StateAfterUpdate ==
    IF siteCache.st.state = "" \/ siteCache.st.enabled # siteCache.enabled
    THEN "Pending" ELSE siteCache.st.state

\* resetStatusErrors.
ResetErrors(st) == IF st = "Failed" THEN "Pending" ELSE st

\* doReconcile up to resetStatusErrors: take the key from the queue, read the
\* site from the cache, bring the derived status fields up to date.  If that
\* changed anything the status is saved at once and the key requeued; a read
\* that fails in it (a ServiceConfig, or the backups once the fields are set)
\* is returned as an error, and a Failed site is then saved as it is.
BeginReconcile ==
    /\ InSync /\ pc = "idle" /\ queued
    /\ queued' = FALSE
    /\ base' = siteCache /\ current' = siteFresh
    /\ done' = siteCache.st.done
    /\ \/ /\ UpToDate
          /\ pc' = "create" /\ changed' = FALSE /\ requeue' = FALSE
          /\ state' = ResetErrors(siteCache.st.state)
          /\ UNCHANGED faultsLeft
       \/ /\ ~UpToDate
          /\ pc' = "save" /\ changed' = TRUE /\ requeue' = TRUE
          /\ state' = StateAfterUpdate
          /\ UNCHANGED faultsLeft
       \/ /\ CallFails
          /\ pc' = "save" /\ requeue' = TRUE
          /\ state' = StateAfterUpdate
          /\ changed' \in {state' = "Failed", state' = "Failed" \/ ~UpToDate}
    /\ UNCHANGED <<site, objects, caches, servers, budget>>

NewDb(env) == [env |-> env, state |-> "New", deleting |-> FALSE]

\* A delete at the API server: an object with a finalizer stays, marked.
Deleted(d) == IF d.state = "New" THEN Nothing ELSE [d EXCEPT !.deleting = TRUE]

\* The first loop of ensureDatabasesAreCreated: EnsureDatabasesAreCreated.
CreateDatabases ==
    /\ InSync /\ pc = "create"
    /\ LET wanted == Wanted(DbServices)
           listed == Listed(cache.db)
           toDelete == listed \ wanted
           toCreate == wanted \ listed
           toUpdate == {s \in wanted \cap listed :
                          cache.db[s].env # base.want[s].env}
           rejected == {s \in toDelete : db[s] = Nothing}
                       \cup {s \in toCreate : db[s] # Nothing}
                       \cup {s \in toUpdate : db[s] # cache.db[s]}
       IN  \E A \in Prefixes(toDelete, toCreate, toUpdate) :
             /\ A \cap rejected = {}
             /\ db' = [s \in Services |->
                         IF s \notin A THEN db[s]
                         ELSE IF s \in toDelete THEN Deleted(db[s])
                         ELSE IF s \in toCreate THEN NewDb(base.want[s].env)
                         ELSE [db[s] EXCEPT !.env = base.want[s].env]]
             /\ \/ /\ A = toDelete \cup toCreate \cup toUpdate
                   /\ Continue("ready", Set("created", A = {}), FALSE)
                \/ /\ Interrupted(A, toDelete, toCreate, toUpdate, rejected)
                   /\ Err(Set("created", TRUE))
    /\ UNCHANGED <<site, ini, mig, dep, conf, net, caches, read, servers,
                   queued, budget>>

\* The rest of it.  DatabaseInitialisationComplete is set here too, before
\* the second loop (EnsureDatabasesAreReady).  No controller ever sets a
\* database object to Failed, so its error branch is dead.
CheckDatabases ==
    /\ InSync /\ pc = "ready"
    /\ LET ready == "created" \in done /\ AllComplete(cache.db) IN
       \/ Continue("configs", Set("created", ready) \cup {"inited"},
                   ready # ("created" \in base.st.done))
       \/ CallFails /\ Err(Set("inited", TRUE))
    /\ UNCHANGED <<site, objects, caches, read, servers, queued, budget>>

\* ensureConfigsAreUpToDate, and the gate "DB init requires created dbs".
UpdateConfigs ==
    /\ InSync /\ pc = "configs"
    /\ LET stale == {s \in Services : conf[s] # base.want[s]}
           toDelete == {s \in stale : base.want[s] = Nothing}
           toUpdate == {s \in stale \ toDelete : conf[s] # Nothing}
           toCreate == (stale \ toDelete) \ toUpdate
       IN  \E A \in Prefixes(toDelete, toUpdate, toCreate) :
             /\ conf' = [s \in Services |->
                           IF s \in A THEN base.want[s] ELSE conf[s]]
             /\ \/ /\ A = stale
                   /\ Continue(IF "created" \in done THEN "initCreate"
                                                    ELSE "save",
                               Set("configs", TRUE), "configs" \notin done)
                \/ /\ Interrupted(A, toDelete, toUpdate, toCreate, {})
                   /\ Err(done)
    /\ UNCHANGED <<site, db, ini, mig, dep, net, caches, read, servers,
                   queued, budget>>

NewInit == [state |-> "Pending"]

\* Mutant: a failed job is deleted, and created again in the next loop.
CreateInitJobs_Retry ==
    /\ InSync /\ pc = "initCreate"
    /\ LET failed == {s \in Listed(cache.ini) : cache.ini[s].state = "Failed"}
           wanted == Wanted(InitServices)
           listed == Listed(cache.ini)
           toDelete == (listed \ wanted) \cup failed
           toCreate == wanted \ listed
       IN  /\ {s \in toDelete : ini[s] = Nothing} = {}
           /\ {s \in toCreate : ini[s] # Nothing} = {}
           /\ ini' = [s \in Services |->
                        IF s \in toDelete THEN Nothing
                        ELSE IF s \in toCreate THEN NewInit ELSE ini[s]]
           /\ initRun' = [s \in Services |->
                            IF s \in toDelete THEN Nothing ELSE initRun[s]]
           /\ Continue("initReady", Set("inited", toDelete \cup toCreate = {}),
                       FALSE)
    /\ UNCHANGED <<site, db, mig, dep, conf, net, caches, read, existing,
                   inited, migrated, unsaved, queued, budget>>

\* ensureDatabasesAreInitialised: DbInitJobHandler.EnsureJobsAreCreated.  A
\* batch Job goes with the DbInitJob that owns it.
CreateInitJobs ==
    /\ InSync /\ pc = "initCreate"
    /\ LET wanted == Wanted(InitServices)
           listed == Listed(cache.ini)
           toDelete == listed \ wanted
           toCreate == wanted \ listed
           rejected == {s \in toDelete : ini[s] = Nothing}
                       \cup {s \in toCreate : ini[s] # Nothing}
       IN  \E A \in Prefixes(toDelete, toCreate, {}) :
             /\ A \cap rejected = {}
             /\ ini' = [s \in Services |->
                          IF s \notin A THEN ini[s]
                          ELSE IF s \in toDelete THEN Nothing ELSE NewInit]
             /\ initRun' = [s \in Services |->
                              IF s \in A \cap toDelete THEN Nothing
                              ELSE initRun[s]]
             /\ \/ /\ A = toDelete \cup toCreate
                   /\ Continue("initReady", Set("inited", A = {}), FALSE)
                \/ /\ Interrupted(A, toDelete, toCreate, {}, rejected)
                   /\ Err(Set("inited", TRUE))
    /\ UNCHANGED <<site, db, mig, dep, conf, net, caches, read, existing,
                   inited, migrated, unsaved, queued, budget>>

\* DbInitJobHandler.EnsureJobsAreComplete, and the gate "DB migration needs
\* the init to complete first".  A Failed job is a final DatabaseInitError.
CheckInitJobs ==
    /\ InSync /\ pc = "initReady"
    /\ LET ready == "inited" \in done /\ AllComplete(cache.ini) IN
       \/ AnyFailed(cache.ini) /\ FinalErr
       \/ /\ ~AnyFailed(cache.ini)
          /\ Continue(IF ready THEN "migCreate" ELSE "save",
                      Set("inited", ready), ~ready)
       \/ CallFails /\ Err(done)
    /\ UNCHANGED <<site, objects, caches, read, servers, queued, budget>>

NewMig(tag) == [tag |-> tag, last |-> Nothing, state |-> "Pending",
                run |-> Nothing]

\* ensureDatabaseMigrationJobsAreCreated: DbMigrationJobHandler's
\* EnsureJobsAreCreated.  No jobs are wanted while the site is disabled.
\* Updated jobs do not count against completeness.
CreateMigrationJobs ==
    /\ InSync /\ pc = "migCreate"
    /\ LET wanted == IF base.st.enabled THEN Wanted(MigServices) ELSE {}
           listed == Listed(cache.mig)
           toDelete == listed \ wanted
           toCreate == wanted \ listed
           toUpdate == {s \in wanted \cap listed :
                          cache.mig[s].tag # base.want[s].tag}
           rejected == {s \in toDelete : mig[s] = Nothing}
                       \cup {s \in toUpdate : mig[s] # cache.mig[s]}
                       \cup {s \in toCreate : mig[s] # Nothing}
       IN  \E A \in Prefixes(toDelete, toUpdate, toCreate) :
             /\ A \cap rejected = {}
             /\ mig' = [s \in Services |->
                          IF s \notin A THEN mig[s]
                          ELSE IF s \in toDelete THEN Nothing
                          ELSE IF s \in toCreate THEN NewMig(base.want[s].tag)
                          ELSE [mig[s] EXCEPT !.tag = base.want[s].tag]]
             /\ \/ /\ A = toDelete \cup toUpdate \cup toCreate
                   /\ Continue("migReady",
                          Set("migrated", toDelete \cup toCreate = {}), FALSE)
                \/ /\ Interrupted(A, toDelete, toUpdate, toCreate, rejected)
                   /\ Err(Set("migrated", TRUE))
    /\ UNCHANGED <<site, db, ini, dep, conf, net, caches, read, servers,
                   queued, budget>>

\* DbMigrationJobHandler.EnsureJobsAreComplete, and the gate "To avoid the
\* deployment running into issues wait until the migrations are complete".
CheckMigrationJobs ==
    /\ InSync /\ pc = "migReady"
    /\ LET ready == "migrated" \in done /\ AllComplete(cache.mig) IN
       \/ AnyFailed(cache.mig) /\ FinalErr
       \/ /\ ~AnyFailed(cache.mig)
          /\ Continue(IF ready THEN "workloads" ELSE "save",
                      Set("migrated", ready),
                      ready # ("migrated" \in base.st.done))
       \/ CallFails /\ Err(done)
    /\ UNCHANGED <<site, objects, caches, read, servers, queued, budget>>

\* A merge patch against the cached Deployment: the fields in which the cached
\* one already agrees with the wanted one are not sent.
Patched(now, cached, wanted) == IF cached = wanted THEN now ELSE wanted

\* ensureWorkloadObjectsAreUpToDate.  "health": the recorded WorkloadHealth
\* differs from what the Deployments now report.
UpdateWorkloads ==
    /\ InSync /\ pc = "workloads"
    /\ LET wanted == IF base.st.enabled THEN Wanted(Services) ELSE {}
           listed == Listed(cache.dep)
           toDelete == listed \ wanted
           toUpdate == wanted \cap listed
           toCreate == wanted \ listed
           rejected == {s \in toDelete \cup toUpdate : dep[s] = Nothing}
                       \cup {s \in toCreate : dep[s] # Nothing}
       IN  \E A \in Prefixes(toDelete, toUpdate, toCreate) :
             /\ A \cap rejected = {}
             /\ dep' = [s \in Services |->
                          IF s \notin A THEN dep[s]
                          ELSE IF s \in toDelete THEN Nothing
                          ELSE IF s \in toCreate THEN base.want[s]
                          ELSE Patched(dep[s], cache.dep[s], base.want[s])]
             /\ \/ /\ A = toDelete \cup toUpdate \cup toCreate
                   /\ \E health \in BOOLEAN :
                        /\ health => base.st.enabled
                        /\ Continue("network", Set("workloads", TRUE),
                                    health \/ "workloads" \notin done)
                \/ /\ Interrupted(A, toDelete, toUpdate, toCreate, rejected)
                   /\ Err(done)
    /\ UNCHANGED <<site, db, ini, mig, conf, net, caches, read, servers,
                   queued, budget>>

\* ensureNetworkingObjectsAreUpToDate and, when it succeeds, State = Complete.
UpdateNetworking ==
    /\ InSync /\ pc = "network"
    /\ LET wanted == IF base.st.enabled THEN Wanted(Services) ELSE {}
           toDelete == net \ wanted
           toCreate == wanted \ net
       IN  \E A \in Prefixes(toDelete, toCreate, {}) :
             /\ net' = (net \ (A \cap toDelete)) \cup (A \cap toCreate)
             /\ \/ /\ A = toDelete \cup toCreate
                   /\ pc' = "save" /\ done' = Set("network", TRUE)
                   /\ state' = "Complete"
                   /\ changed' = \/ changed \/ "network" \notin done
                                 \/ state # "Complete"
                   /\ UNCHANGED <<requeue, faultsLeft>>
                \/ /\ Interrupted(A, toDelete, toCreate, {}, {})
                   /\ Err(done)
    /\ UNCHANGED <<site, db, ini, mig, dep, conf, caches, read, servers,
                   queued, budget>>

\* Mutant: the site counts as complete when its databases are.
SetSiteState_DatabasesOnly ==
    IF state = "Failed" THEN "Failed"
    ELSE IF {"created", "inited", "migrated"} \subseteq done THEN "Complete"
    ELSE "Pending"

\* setSiteState.
SetSiteState == IF state = "Failed" THEN "Failed"
                ELSE IF done = Flags THEN "Complete" ELSE "Pending"

\* The reconcile returns; its copy is dropped.
Return ==
    /\ pc' = "idle" /\ base' = NoSite /\ current' = FALSE
    /\ done' = {} /\ state' = "" /\ changed' = FALSE /\ requeue' = FALSE

\* SaveStatusUpdatesIfObjectChanged: a status update that fails with a
\* Conflict when the site was written since the copy was read.  An error
\* (the conflict, or the one being returned) puts the key back in the queue.
\* An update that changes nothing makes no new version and no event.
SaveStatus ==
    /\ InSync /\ pc = "save"
    /\ LET st == [applied |-> TRUE, enabled |-> base.enabled, done |-> done,
                  state |-> SetSiteState]
           saved == changed /\ current
       IN  \/ /\ saved /\ st # site.st
              /\ site' = [want |-> site.want, enabled |-> site.enabled,
                          st |-> st]
              /\ siteFresh' = FALSE
              /\ queued' = (queued \/ requeue)
              /\ UNCHANGED faultsLeft
           \/ /\ ~saved \/ st = site.st
              /\ queued' = (queued \/ requeue \/ (changed /\ ~current))
              /\ UNCHANGED <<site, siteFresh, faultsLeft>>
           \/ /\ changed /\ CallFails
              /\ queued' = TRUE
              /\ UNCHANGED <<site, siteFresh>>
    /\ Return
    /\ UNCHANGED <<objects, siteCache, cache, servers, budget>>

\* The operator dies and starts again: the copy is lost, the caches are
\* filled from a fresh list and every object is queued.
Crash ==
    /\ InSync /\ CallFails
    /\ Return
    /\ queued' = TRUE
    /\ siteCache' = site /\ siteFresh' = TRUE
    /\ cache' = [db |-> db, ini |-> ini, mig |-> mig, dep |-> dep]
    /\ UNCHANGED <<site, objects, servers, budget>>

\* A watch event arrives: the site itself (For), or an object it owns (Owns).
SyncSite ==
    /\ ~siteFresh
    /\ siteCache' = site /\ siteFresh' = TRUE
    /\ queued' = TRUE
    /\ UNCHANGED <<site, objects, cache, servers, pc, read, copy, budget,
                   faultsLeft>>

Owned(kind, objs) ==
    /\ cache[kind] # objs
    /\ cache' = [cache EXCEPT ![kind] = objs]
    /\ queued' = TRUE
    /\ UNCHANGED <<site, objects, siteCache, siteFresh, servers, pc, read,
                   copy, budget, faultsLeft>>

\* Mutant: SetupWithManager does not own the migration jobs.
SyncMig_NotOwned ==
    /\ cache.mig # mig
    /\ cache' = [cache EXCEPT !.mig = mig]
    /\ UNCHANGED <<site, objects, siteCache, siteFresh, servers, queued, pc,
                   read, copy, budget, faultsLeft>>

SyncDb == Owned("db", db)
SyncIni == Owned("ini", ini)
SyncMig == Owned("mig", mig)
SyncDep == Owned("dep", dep)

-----------------------------------------------------------------------------
(***************************************************************************)
(* The controllers of the child objects, one step per reconcile that       *)
(* changes something.  Jobs are rendered from the cached site.             *)
(***************************************************************************)

\* What these controllers leave alone: everything of the site reconciler.
reconciler == <<site, dep, conf, net, caches, queued, pc, read, copy, budget>>

\* MysqlDatabaseReconciler: add the finalizer.
ClaimDb(s) ==
    /\ InSync /\ db[s] # Nothing /\ db[s].state = "New"
    /\ db' = [db EXCEPT ![s] = [@ EXCEPT !.state = "Claimed"]]
    /\ UNCHANGED <<reconciler, ini, mig, servers, faultsLeft>>

\* ... create user, database and permissions; the state becomes Complete, in a
\* status update that may fail.
ProvisionDb(s) ==
    /\ InSync /\ db[s] # Nothing /\ ~db[s].deleting /\ db[s].state # "New"
    /\ db[s].state # "Complete" \/ <<s, db[s].env>> \notin existing
    /\ existing' = existing \cup {<<s, db[s].env>>}
    /\ \/ /\ db' = [db EXCEPT ![s] = [@ EXCEPT !.state = "Complete"]]
          /\ UNCHANGED faultsLeft
       \/ CallFails /\ UNCHANGED db
    /\ UNCHANGED <<reconciler, ini, mig, inited, migrated, runs>>

\* ... or, once it is deleted, drop the database and remove the finalizer, in
\* an update that may fail.
DropDb(s) ==
    /\ InSync /\ db[s] # Nothing /\ db[s].deleting
    /\ LET key == <<s, db[s].env>> IN
       /\ existing' = existing \ {key}
       /\ inited' = inited \ {key}
       /\ migrated' = {m \in migrated : <<m[1], m[2]>> # key}
    /\ \/ /\ db' = [db EXCEPT ![s] = Nothing]
          /\ UNCHANGED faultsLeft
       \/ CallFails /\ UNCHANGED db
    /\ UNCHANGED <<reconciler, ini, mig, runs>>

\* DbInitJobReconciler, a Pending job: a batch Job that exists is ours,
\* otherwise it is created, rendered from the cached site.  Then the state
\* becomes Running, in a save that may be lost.
StartInit(s) ==
    /\ InSync /\ ini[s] # Nothing /\ ini[s].state = "Pending"
    /\ \/ /\ initRun[s] # Nothing
          /\ UNCHANGED initRun
       \/ /\ initRun[s] = Nothing /\ siteCache.want[s] # Nothing
          /\ initRun' = [initRun EXCEPT ![s] =
                           [env |-> siteCache.want[s].env, phase |-> "Active"]]
    /\ \/ /\ ini' = [ini EXCEPT ![s] = [state |-> "Running"]]
          /\ UNCHANGED <<unsaved, faultsLeft>>
       \/ /\ CallFails
          /\ unsaved' = unsaved \cup {s}
          /\ UNCHANGED ini
    /\ UNCHANGED <<reconciler, db, mig, existing, inited, migrated>>

\* The batch Job runs; it fails at least when its database is gone.
RunInit(s) ==
    /\ InSync /\ initRun[s] # Nothing /\ initRun[s].phase = "Active"
    /\ LET key == <<s, initRun[s].env>> IN
       \/ /\ key \in existing
          /\ inited' = inited \cup {key}
          /\ initRun' = [initRun EXCEPT ![s] = [@ EXCEPT !.phase = "Complete"]]
          /\ UNCHANGED faultsLeft
       \/ /\ \/ key \notin existing /\ UNCHANGED faultsLeft
             \/ CallFails
          /\ initRun' = [initRun EXCEPT ![s] = [@ EXCEPT !.phase = "Failed"]]
          /\ UNCHANGED inited
    /\ UNCHANGED <<reconciler, db, ini, mig, existing, migrated, unsaved>>

\* Some time after its end (TtlSecondsAfterFinished) it is removed.
ExpireInit(s) ==
    /\ InSync /\ initRun[s] # Nothing /\ initRun[s].phase # "Active"
    /\ initRun' = [initRun EXCEPT ![s] = Nothing]
    /\ UNCHANGED <<reconciler, db, ini, mig, existing, inited, migrated,
                   unsaved, faultsLeft>>

\* ... a Running job: the end of the batch Job is noted; a job whose batch Job
\* is gone fails after a few tries, and so does one whose deadline passed.  A
\* batch Job whose end was noted is not looked at again.
FinishInit(s) ==
    /\ InSync /\ ini[s] # Nothing /\ ini[s].state = "Running"
    /\ \/ /\ initRun[s] = Nothing
          /\ ini' = [ini EXCEPT ![s] = [state |-> "Failed"]]
          /\ UNCHANGED <<initRun, faultsLeft>>
       \/ /\ initRun[s] # Nothing /\ initRun[s].phase # "Active"
          /\ ini' = [ini EXCEPT ![s] = [state |-> initRun[s].phase]]
          /\ initRun' = [initRun EXCEPT ![s] = Nothing]
          /\ UNCHANGED faultsLeft
       \/ /\ initRun[s] # Nothing /\ initRun[s].phase = "Active" /\ CallFails
          /\ ini' = [ini EXCEPT ![s] = [state |-> "Failed"]]
          /\ UNCHANGED initRun
    /\ UNCHANGED <<reconciler, db, mig, existing, inited, migrated, unsaved>>

\* Mutant: a new tag does not put the job back to Pending.
ResetMigration_KeepsState(s) ==
    /\ InSync /\ mig[s] # Nothing /\ mig[s].tag # mig[s].last
    /\ mig' = [mig EXCEPT ![s] = [tag |-> mig[s].tag, last |-> mig[s].tag,
                                  state |-> mig[s].state, run |-> Nothing]]
    /\ UNCHANGED <<reconciler, db, ini, servers, faultsLeft>>

\* DbMigrationJobReconciler: a new job or a new tag starts over.
ResetMigration(s) ==
    /\ InSync /\ mig[s] # Nothing /\ mig[s].tag # mig[s].last
    /\ mig' = [mig EXCEPT ![s] = [tag |-> mig[s].tag, last |-> mig[s].tag,
                                  state |-> "Pending", run |-> Nothing]]
    /\ UNCHANGED <<reconciler, db, ini, servers, faultsLeft>>

\* ... Pending -> Running, creating the batch job.
StartMigration(s) ==
    /\ InSync /\ mig[s] # Nothing /\ mig[s].tag = mig[s].last
    /\ mig[s].state = "Pending" /\ siteCache.want[s] # Nothing
    /\ mig' = [mig EXCEPT ![s] = [tag |-> mig[s].tag, last |-> mig[s].last,
                                  state |-> "Running",
                                  run |-> siteCache.want[s]]]
    /\ UNCHANGED <<reconciler, db, ini, servers, faultsLeft>>

\* ... Running -> Complete or Failed, with the batch job.
FinishMigration(s) ==
    /\ InSync /\ mig[s] # Nothing /\ mig[s].tag = mig[s].last
    /\ mig[s].state = "Running"
    /\ LET run == mig[s].run
           key == <<s, run.env>>
       IN  \/ /\ key \in existing
              /\ migrated' = migrated \cup {<<s, run.env, run.tag>>}
              /\ mig' = [mig EXCEPT ![s] = [@ EXCEPT !.state = "Complete"]]
              /\ UNCHANGED faultsLeft
           \/ /\ \/ key \notin existing /\ UNCHANGED faultsLeft
                 \/ CallFails
              /\ mig' = [mig EXCEPT ![s] = [@ EXCEPT !.state = "Failed"]]
              /\ UNCHANGED migrated
    /\ UNCHANGED <<reconciler, db, ini, existing, inited, runs>>

-----------------------------------------------------------------------------
(***************************************************************************)
(* The user.  Every write of the spec passes the mutating webhook, which   *)
(* stamps the time of the change; "applied" may stay TRUE when that stamp  *)
(* (in whole seconds) is the one already applied, unless the list of       *)
(* services changed, which the status records by itself.                   *)
(***************************************************************************)
Edited(w, enabled, sameSecond) ==
    /\ InSync /\ editsLeft > 0
    /\ editsLeft' = editsLeft - 1
    /\ site' = [want |-> w, enabled |-> enabled,
                st |-> [site.st EXCEPT !.applied = sameSecond /\ @]]
    /\ siteFresh' = FALSE
    /\ current' = FALSE
    /\ UNCHANGED <<objects, siteCache, cache, servers, queued, pc, base, copy,
                   faultsLeft>>

Mark(s, kind) == edits' = [edits EXCEPT ![s] = @ \cup {kind}]

EditTag(s, t) ==
    /\ site.want[s] # Nothing /\ site.want[s].tag # t
    /\ \E same \in BOOLEAN :
         Edited([site.want EXCEPT ![s] = [tag |-> t, env |-> site.want[s].env]],
                site.enabled, same)
    /\ Mark(s, "tag")

EditEnv(s, e) ==
    /\ s \in DbServices /\ site.want[s] # Nothing /\ site.want[s].env # e
    /\ \E same \in BOOLEAN :
         Edited([site.want EXCEPT ![s] = [tag |-> site.want[s].tag, env |-> e]],
                site.enabled, same)
    /\ Mark(s, "env")

\* The validating webhook denies a site without services.
RemoveService(s) ==
    /\ site.want[s] # Nothing
    /\ \E x \in Services \ {s} : site.want[x] # Nothing
    /\ Edited([site.want EXCEPT ![s] = Nothing], site.enabled, FALSE)
    /\ Mark(s, "removed")

AddService(s, w) ==
    /\ site.want[s] = Nothing
    /\ Edited([site.want EXCEPT ![s] = w], site.enabled, FALSE)
    /\ UNCHANGED edits

\* Spec.Enabled, or DisableAt passing: what the status should say flips.
Toggle ==
    /\ \E same \in BOOLEAN : Edited(site.want, ~site.enabled, same)
    /\ edits' = [s \in Services |-> edits[s] \cup {"toggled"}]

-----------------------------------------------------------------------------
Reconcile ==
    \/ BeginReconcile \/ CreateDatabases \/ CheckDatabases \/ UpdateConfigs
    \/ CreateInitJobs \/ CheckInitJobs \/ CreateMigrationJobs
    \/ CheckMigrationJobs \/ UpdateWorkloads \/ UpdateNetworking \/ SaveStatus

Sync == SyncSite \/ SyncDb \/ SyncIni \/ SyncMig \/ SyncDep

DbController(s) == ClaimDb(s) \/ ProvisionDb(s) \/ DropDb(s)
InitController(s) == StartInit(s) \/ FinishInit(s)
InitBatch(s) == RunInit(s) \/ ExpireInit(s)
MigrationController(s) ==
    ResetMigration(s) \/ StartMigration(s) \/ FinishMigration(s)

User ==
    \/ \E s \in Services : \/ \E t \in Tags : EditTag(s, t)
                           \/ \E e \in Envs : EditEnv(s, e)
                           \/ RemoveService(s)
                           \/ \E w \in Want : AddService(s, w)
    \/ Toggle

Next ==
    \/ Sync
    \/ Reconcile
    \/ Crash
    \/ \E s \in Services : \/ DbController(s) \/ MigrationController(s)
                           \/ InitController(s) \/ InitBatch(s)
    \/ User

\* What the runtime guarantees: a watch delivers, a queued key is worked on,
\* an object's event reaches its controller.  Nothing is assumed of the user,
\* and nothing of faults except that MaxFaults bounds them.
Fairness ==
    /\ WF_vars(SyncSite) /\ WF_vars(SyncDb) /\ WF_vars(SyncIni)
    /\ WF_vars(SyncMig) /\ WF_vars(SyncDep)
    /\ WF_vars(Reconcile)
    /\ \A s \in Services : /\ WF_vars(DbController(s))
                           /\ WF_vars(InitController(s))
                           /\ WF_vars(InitBatch(s))
                           /\ WF_vars(MigrationController(s))

Spec == Init /\ [][Next]_vars
FairSpec == Spec /\ Fairness

-----------------------------------------------------------------------------
(***************************************************************************)
(* Properties.                                                             *)
(***************************************************************************)

\* Every variable holds the kind of value the API objects allow.
TypeOK ==
    /\ site \in Site
    /\ db \in [Services -> Maybe(DbObject)]
    /\ ini \in [Services -> Maybe(InitObject)]
    /\ mig \in [Services -> Maybe(MigObject)]
    /\ dep \in [Services -> Maybe(Want)]
    /\ conf \in [Services -> Maybe(Want)]
    /\ net \subseteq Services
    /\ siteCache \in Site /\ siteFresh \in BOOLEAN
    /\ cache \in CacheState
    /\ queued \in BOOLEAN
    /\ pc \in Stages /\ base \in Site /\ current \in BOOLEAN
    /\ done \subseteq Flags /\ state \in SiteStates
    /\ changed \in BOOLEAN /\ requeue \in BOOLEAN
    /\ existing \subseteq Services \X Envs
    /\ inited \subseteq Services \X Envs
    /\ migrated \subseteq Services \X Envs \X Tags
    /\ initRun \in [Services -> Maybe(InitRun)] /\ unsaved \subseteq Services
    /\ edits \in [Services -> SUBSET {"tag", "env", "removed", "toggled"}]
    /\ editsLeft \in 0..MaxEdits
    /\ faultsLeft \in 0..MaxFaults

Running(s) == dep[s] # Nothing

\* The service has kept its environment, and its place in the site, since it
\* was first listed.
Steady(s) == edits[s] \cap {"env", "removed"} = {}

\* A Deployment runs only against a database that exists and whose init job,
\* if the service has one, has really run: the gates of doReconcile hold
\* against stale caches, lost reconciles and edits of tags, of other services
\* and of Enabled.
DeployedDbIsInitialised ==
    \A s \in DbServices : Running(s) /\ Steady(s) =>
        /\ <<s, dep[s].env>> \in existing
        /\ s \in InitServices => <<s, dep[s].env>> \in inited

\* A service that was never edited runs an image only after that image's
\* migrations ran.
DeployedTagIsMigrated ==
    \A s \in MigServices : Running(s) /\ edits[s] = {} =>
        <<s, dep[s].env, dep[s].tag>> \in migrated

\* The image the spec now asks for runs only after its migrations ran, which
\* is what the gate before the workloads is for ("To avoid the deployment
\* running into issues wait until the migrations are complete").
MigrationGate ==
    \A s \in MigServices : Running(s) /\ dep[s] = site.want[s] =>
        <<s, dep[s].env, dep[s].tag>> \in migrated

\* Migrations touch only databases that exist and have been initialised.
MigrationsFollowInit ==
    [][\A s \in InitServices, e \in Envs, t \in Tags :
         <<s, e, t>> \in migrated' \ migrated /\ Steady(s)
         => <<s, e>> \in existing /\ <<s, e>> \in inited]_vars

\* A database is dropped only after the user took its service out of the site
\* (or moved it to another environment): no stale list, lost reconcile or
\* retry makes the reconciler delete a database that is still wanted.
DropsAreWanted ==
    [][\A s \in Services, e \in Envs :
         <<s, e>> \in existing \ existing' => ~Steady(s)]_vars

\* No batch Job runs the init again on a database that has been initialised
\* ("retrying a half way complete failed init can cause unexpected results"),
\* unless "Running" could not be saved when the first was created: neither a
\* stale list nor an interrupted reconcile makes the site reconciler replace
\* the DbInitJob of a service that is still wanted.
InitRunsOnce ==
    \A s \in InitServices :
        /\ Steady(s) /\ s \notin unsaved
        /\ initRun[s] # Nothing /\ initRun[s].phase = "Active"
        => <<s, initRun[s].env>> \notin inited

\* A site nobody edited is Complete only when every service runs what the
\* spec asks for and is reachable.
CompleteMeansDeployed ==
    (site.st.state = "Complete" /\ editsLeft = MaxEdits) =>
        \A s \in Services : site.want[s] # Nothing =>
            dep[s] = site.want[s] /\ s \in net

\* The wanted end state: what exists is what the spec asks for, nothing else.
Provisioned ==
    /\ site.st.state = "Complete" /\ site.st.enabled = site.enabled
    /\ \A s \in Services :
         /\ dep[s] = IF site.enabled THEN site.want[s] ELSE Nothing
         /\ s \in net <=> site.enabled /\ site.want[s] # Nothing
         /\ conf[s] = site.want[s]
         /\ (db[s] # Nothing) <=> (s \in DbServices /\ site.want[s] # Nothing)
         /\ db[s] # Nothing => db[s].env = site.want[s].env /\ ~db[s].deleting
                               /\ <<s, db[s].env>> \in existing
         /\ (ini[s] # Nothing) <=> (s \in InitServices /\ site.want[s] # Nothing)

\* Once the user stops editing and faults stop, the site is provisioned (or
\* Failed because a job failed), and the reconciler comes to rest: no event
\* is missed and no status update wakes it for ever.
Settles ==
    <>[](/\ pc = "idle" /\ ~queued
         /\ \/ Provisioned
            \/ site.st.state = "Failed" /\ (AnyFailed(ini) \/ AnyFailed(mig)))

-----------------------------------------------------------------------------
(***************************************************************************)
(* Why it holds: an inductive invariant, for each service that is Steady.  *)
(* SiteProvisioningProofs shows that every step preserves it.              *)
(***************************************************************************)

\* Every copy of the site agrees with the API server on the environment of
\* the services it lists, and an older copy lists no more than a newer one.
CopiesAgree(s) ==
    /\ siteCache.want[s] # Nothing =>
         site.want[s] # Nothing /\ siteCache.want[s].env = site.want[s].env
    /\ base.want[s] # Nothing =>
         siteCache.want[s] # Nothing /\ base.want[s].env = site.want[s].env
    /\ pc = "idle" => base.want[s] = Nothing

\* No reconcile can miss a service whose objects exist.
ObjectsAreSeen(s) ==
    db[s] # Nothing \/ ini[s] # Nothing =>
        /\ siteCache.want[s] # Nothing
        /\ pc # "idle" => base.want[s] # Nothing

\* The database object is never deleted, and "Complete" is never a lie, not
\* even when it is read late.
DbIsHonest(s) ==
    /\ db[s] # Nothing =>
         /\ s \in DbServices /\ ~db[s].deleting
         /\ db[s].env = site.want[s].env
         /\ db[s].state = "Complete" => <<s, db[s].env>> \in existing
    /\ cache.db[s] # Nothing =>
         /\ db[s] # Nothing
         /\ cache.db[s].state = "Complete" => <<s, db[s].env>> \in existing

\* The same for the DbInitJob, whose batch Job runs on the service's only
\* database, once unless a save was lost.
InitIsHonest(s) ==
    /\ ini[s] # Nothing =>
         /\ s \in InitServices
         /\ ini[s].state = "Complete" => <<s, site.want[s].env>> \in inited
    /\ cache.ini[s] # Nothing =>
         /\ ini[s] # Nothing
         /\ cache.ini[s].state = "Complete" =>
              <<s, site.want[s].env>> \in inited
    /\ initRun[s] # Nothing =>
         /\ ini[s] # Nothing
         /\ ini[s].state = "Pending" => s \in unsaved
         /\ initRun[s].env = site.want[s].env
         /\ initRun[s].phase = "Complete" => <<s, site.want[s].env>> \in inited
    /\ (\E e \in Envs : <<s, e>> \in inited) =>
         /\ ini[s] # Nothing
         /\ s \in unsaved \/ /\ ini[s].state # "Pending"
                             /\ initRun[s] # Nothing =>
                                  initRun[s].phase # "Active"

\* What a reconcile knows of a service it lists at each stage.
StageFacts(s) ==
    base.want[s] # Nothing =>
        LET key == <<s, site.want[s].env>> IN
        /\ s \in DbServices =>
             /\ pc = "ready" /\ "created" \in done => cache.db[s] # Nothing
             /\ pc = "configs" /\ "created" \in done => key \in existing
             /\ pc \in {"initCreate", "initReady", "migCreate", "migReady",
                        "workloads"} => key \in existing
        /\ s \in InitServices =>
             /\ pc = "initReady" /\ "inited" \in done => cache.ini[s] # Nothing
             /\ pc \in {"migCreate", "migReady", "workloads"} => key \in inited

\* What follows for the objects that come after the gates.
LaterObjects(s) ==
    /\ mig[s] # Nothing =>
         /\ site.want[s] # Nothing
         /\ s \in InitServices => <<s, site.want[s].env>> \in inited
         /\ mig[s].state = "Running" => mig[s].run.env = site.want[s].env
    /\ dep[s] # Nothing =>
         /\ site.want[s] # Nothing /\ dep[s].env = site.want[s].env
         /\ s \in DbServices => <<s, dep[s].env>> \in existing
         /\ s \in InitServices => <<s, dep[s].env>> \in inited

Inv(s) ==
    /\ CopiesAgree(s) /\ ObjectsAreSeen(s)
    /\ DbIsHonest(s) /\ InitIsHonest(s)
    /\ StageFacts(s) /\ LaterObjects(s)

\* The gates of doReconcile, as an inductive invariant: for a Steady service
\* the objects, the caches and the reconcile in progress never promise more
\* than the servers hold.
SteadyInv == \A s \in Services : Steady(s) => Inv(s)
=============================================================================
