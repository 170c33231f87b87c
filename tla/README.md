# kube-stager: a verification development

kube-stager is a Kubernetes operator that provisions staging sites. A
`StagingSite` lists services; for each of them the operator creates databases,
configuration, an initialisation job, a migration job, a Deployment and network
objects, in an order that the rest of the system relies on. This directory
models that in TLA+, checks the models with TLC and proves the central
properties with TLAPS. Source paths below are relative to `src/`.

## 1. Inventory

| Component | State it keeps | Operations | What makes it correct |
|---|---|---|---|
| Site reconciler (`controllers/site/stagingsite_controller.go`) | `StagingSite.status`: six completion flags, `State`, derived times and service list, Redis numbers | `doReconcile`: finalizer, status refresh, the stages databases → configs → init → migrations → workloads → networking, backup, status save | no stage runs before the ones it depends on have really happened; it ends, and rests |
| Database object handlers (`handlers/task/mysql_handler.go`, `mongo_handler.go`) | `MysqlDatabase`, `MongoDatabase` objects | delete, create, update from a cached list; all complete? | only databases that were given up are deleted |
| Redis handler (`handlers/task/redis_handler.go`) | `RedisDatabase` objects, each with a database number | the same, and the choice of a free number | no two services share a database; the service is told its number |
| Init and migration job handlers (`handlers/job/db_init_job_handler.go`, `db_migration_job_handler.go`) | `DbInitJob`, `DbMigrationJob` objects | delete, create, update; all complete, any failed? | one init for each database; a migration for each image |
| Config, workload, networking handlers (`handlers/site/`) | ConfigMaps, Deployments, Services, Ingresses | bring up to date | nothing runs before its migrations |
| Mysql and Mongo database controllers (`controllers/task/`, `handlers/database/`) | finalizer and state of the object; databases, users and grants on the servers | provision, drop | what is at rest can be used, what is gone leaves nothing, nobody else's is touched |
| Redis database controller | state of the object | flush the database once | a running service's database is not flushed |
| DbInitJob, DbMigrationJob controllers (`controllers/job/`) | state, deadline, not-found count; the batch Job | start over for a new tag, create, observe, give up | runs once for each version, ends, never lies |
| Backup controller (`controllers/job/backup_controller.go`) | state of each service's backup; batch Jobs | create for each service, observe, sum up | Complete means that every service was saved; it ends |
| Scheduled and final backups, expiry (site reconciler, `handlers/job/backup_handler.go`) | `NextBackupTime`, `LastBackupTime`, `DisableAt`, `DeleteAt`, the finalizer, the wake-up in the work queue | create a backup when due; before deletion; delete all but the last three; disable, delete | one backup for each due time; no time passes unnoticed, none comes early; the last backup precedes the deletion |
| Admission webhooks (`handlers/webhook/`, `apis/site/v1/stagingsite_webhook.go`) | none (they read the cache), but they stamp the time of each write on the site | default, validate, refuse deletes of configs in use | what is named exists; what is deleted can go |
| Names (`helpers/string_helper.go`, `apis/site/v1/stagingsite_helpers.go`) | none | shorten with a hash | no two owners get the same name |
| Templates, pod specs (`handlers/template/`, `helpers/pod/`) | none | render | – |
| Manager (`main.go`), metrics (`internal/metrics/`) | – | wiring, counters | – |

**How they interact.** Everything goes through API objects. The site reconciler
writes the child objects; the task and job controllers move their states; an
event of an owned object puts the site's key back in the work queue. Each
controller has one worker, so it never races itself, but all controllers, the
user and the cluster's own controllers run concurrently. Every *read* comes
from an informer cache that may be behind the API server, every *write* goes to
the API server, which refuses an update of a version that is not the latest
(Conflict), a create of a name in use (AlreadyExists) and a delete of what is
gone (NotFound). An error returned by a reconcile puts its key back in the queue.

**What is hard.** One reconcile reads the site once and goes on for a long time
with that copy; lists are stale; a write loop stops in the middle; the status
save at the end may be refused, or not be attempted; the operator may die
anywhere; batch Jobs disappear after their TTL; the reconciler waits for events
and wake-ups and would wait for ever if one were missing; a webhook decides some
time before the API server stores. `PROJECT.json` lists these hazards
with the line where each of them bites.

## 2. Modules

| Module | Models | Used by |
|---|---|---|
| `SiteProvisioning` | one site: the reconcile with all its stages, the handlers, the database and job controllers in short form, caches, user, crashes | `MCSiteProvisioning`, `SiteProvisioningProofs` |
| `BatchJob` | the Kubernetes batch Job as the job controllers use it (external) | `JobController` |
| `JobController` | what the two job controllers share: queue, cached read, save with conflict, restart | `MigrationJob`, `InitJob` |
| `MigrationJob`, `InitJob` | the two controllers, branch by branch | `MCMigrationJob`, `MigrationJobProofs`, `InitJobProofs`, runs |
| `JobLifecycle` | abstract specification: what the site reconciler relies on when it reads a job's state | refined by `MigrationJob` and `InitJob` |
| `RedisAllocation` | several sites that take numbered databases from shared servers | `MCRedisAllocation`, `RedisAllocationProofs` |
| `BackupJob` | one Backup, with a batch Job for each service, and the site's wait for its final backup | `MCBackupJob`, `BackupJobProofs` |
| `SiteLifecycle` | the times of one site: annotation, `DisableAt`, `DeleteAt`, backup window, list of Backups, work queue, clock | `MCSiteLifecycle`, `SiteLifecycleProofs` |
| `DatabaseServer` | the mysql and mongo controllers, statement by statement, on a server with users, databases and grants | `MCDatabaseServer`, `DatabaseServerProofs` |
| `ConfigAdmission` | sites, ServiceConfigs and environments behind their webhooks; finalizers and what they need | `MCConfigAdmission`, `ConfigAdmissionProofs` |

### SiteProvisioning

A reconcile is a process with a program counter `pc`; one action is one stage
(`CreateDatabases` is the first loop of `ensureDatabasesAreCreated`,
`CheckDatabases` the rest of it, and so on down to `SaveStatus`). `base` is the
site as it was read, `done`, `state` and `changed` are the fields of the copy
that will be saved, and `current` says whether the save will meet a conflict.
Between two stages any other actor may act.

A write loop is one action that writes a *prefix*: the classes (for example
deletes, then creates, then updates) in the order of the code, any order within
a class because Go walks a map at random. It stops where the API server rejects
a write because the list was stale, or where a call fails. A prefix that is
everything is the loop's normal end.

`existing`, `inited` and `migrated` are the truth: what is on the database
servers. The objects' states are what controllers claim, and the properties
relate the two. `edits` is a history of the user's edits; a service is `Steady`
while it has kept its environment and its place in the site.

The contents of objects are abstracted to the image tag and the environment.
The mysql and mongo handlers are the same code for two kinds, so a service has
one database object. `ensureStatusIsUpToDate` is abstracted to `applied`: the
fields derived from the spec belong to the present spec or not (the comparison
is by a time stamp in whole seconds, hence `sameSecond`). A service listed by
the site but unknown to a batch Job cannot be rendered, which is why
`StartInit` and `StartMigration` read `siteCache`.

The batch Job of an init is an object of its own (`initRun`): it is created in
`StartInit`, whose save of Running may be lost (`unsaved` remembers for which
services), runs in `RunInit`, and may expire before `FinishInit` has noted its
end, so that a DbInitJob which is still Pending creates another one. The job
controllers are in short form otherwise: they read their own object up to date,
misses are not counted, and the state of a DbMigrationJob moves together with its
batch Job. Those caches, saves and misses are in `InitJob` and `MigrationJob`, and
what the two levels share is `JobLifecycle`.

### JobController, MigrationJob, InitJob

A reconcile is two steps: act on the batch Job on the basis of the cached job
and the cached list, then save. Everything can happen in between. `BatchLags`,
`JobLags`, `SlowDeletes` and `Expires` switch what the cluster may do, so that
a property can be checked with and without. `MigrationJob` also has
the site reconciler's part: copying a new tag into the job, and replacing the
job when the site is disabled and enabled again.

A state that was never saved is the empty string; `InitJob`, `BackupJob` and
`SiteLifecycle` name it `Unset`, so that proofs can speak of it.

### RedisAllocation

One reconcile at a time works for one of several sites; each write of the
handler's loops is an action of its own, because each create asks for a free
number in the cached list of *all* sites. `redis` are the reservations, `cache`
the informer's copy, `st[x].told` the number the service is told in the status,
and `holder` who last had each database flushed. Two histories say whose number is
not its own: `shared`, the reservations that at any time named the database of
another one, and `moved`, those that were rewritten for another server. A
reservation that is in neither is `Untouched`. The rest of the reconcile is
kept only as far as it decides whether the status is saved. The site itself is
read without lag. With a lagging cache `BeginFlush` may start at any time at
which the cached object is not Complete, which is more often than the queue
would allow: the safety properties hold in spite of it, and `Allocated` needs a
flush only for an object that is not Complete and therefore queued.

### BackupJob

One Backup from its creation, by `handleBackup`, by hand or by `handleDelete`, to
its end. `kind` says which: a `"Final"` one belongs to a site that is being
deleted with `BackupBeforeDelete`, and `HandleDelete` is the whole of that
branch of the site reconciler. As in `JobController` a reconcile acts first and
saves later. `Process` walks all services: Go walks a map in any order, so the
State is that of the last service that wrote it (`StateAfter`); `Stopped` is a
walk that an error ends, with the services in `P` done before it. `LoadFails`
is the loop before it. `succeeded` and `failed` are the truth about the batch
Jobs. The start and finish times are left out; they are written together with
the states, except that a batch Job created in an earlier second than the one
noted causes one more save of the same states. The site is read without lag.
A batch Job that expires before the controller has seen its end noted counts as
a fault: its TTL is minutes, a watch lags for less, so the operator was away.

### SiteLifecycle

The same reconcile as in `SiteProvisioning`, seen from its other side: the
provisioning stages are one step that ends well, waits, or fails (`StagesEnd`,
`StagesStop`), and `ensureStatusIsUpToDate`, abstracted there, is spelled out
here (`Annotate`, `UpdateStatus`, `StatusFails`). `copy` is the site as read,
with the status that will be saved; `current` says whether the save will be
refused; `ready` stands for the six completion flags. Every `Update` of a site,
not of its status, passes the defaulting webhook, which stamps the annotation
that all times are counted from (`Default`): this includes the operator's own.

The work queue is a flag and a time: `queued`, and `timer` for `RequeueAfter`.
An event drops the wake-up, as controller-runtime's priority queue does; a queue
that keeps it would wake the site once more and change nothing else. Instants of
the clock are hours apart. `Tick` needs the site's copy to be up to date unless
the stages are running, and the wake-ups that are due to have come: watches and
timers take seconds, the stages may take any time. That is the model's only
assumption on speed, and `Tick` has strong fairness because time passes whatever
the others do. All hours of the day are a set of `Day` instants, and a window is
one of them; a next time is therefore the very instant of its window, where the
code adds up to an hour that depends on the site's name.

Backups have numbers in the order in which they started, so that the clean-up,
which sorts by `JobStartedAt` and deletes from the front (`Oldest`), and the ends
it reads (`Ends`) are comprehensions over the list. Those made by hand
are owned from the start (`backup_create_or_update.go`); unowned ones are left
from the time before the webhook, hence only in `Init`. Histories: `lost` is a
save that did not happen after a Backup was created or deleted, `exact` a
wake-up computed in the very instant of a time.

### DatabaseServer

`kind` is chosen at the start: the two controllers are the same code, their
handlers differ. Each statement is an action; it can succeed, fail, or fail
after having been executed, and then the reconcile ends and the key is queued
again. The server is shared by all objects. `Specs` is the set of specs that
sites give to objects, after the names were made from the site and the service
(`apis/helpers.go`), and two of them may have the same user or database, for
nothing refuses two sites with one `dbName`, and long names are hashed. Objects
are created, changed and deleted by `Create`, `Change` and `Delete`, the writes
of `EnsureDatabasesAreCreated`, in any order that the API server accepts. The
deletion waits for nothing but the server: that the environment's config may be
missing is in `ConfigAdmission`.

Histories: `named` are the specs an object has had; `late` are databases that a
service brought back while mongo was deleting them; `unread` are grants missed
by a read that was cut short.

### ConfigAdmission

A write is two steps. The webhook decides from the caches and puts the object,
as it changed it, in `flight`; the API server stores it later, if the object is
still the one that the request was made for. `sound` says whether what the
webhook saw is still so, and `raced` remembers that a request was stored that
was not. The operator's own Updates of the site's finalizer take the same way.
A MysqlDatabase of a site is followed to its end, after the site has gone: its
controller reads the environment's config before it does anything. Mysql stands
for all three kinds of environment: the webhooks are three copies of one code.
`UpdateFinalizer` removes the finalizer at any time after the deletion began;
the wait for the final backup is in `BackupJob`.

## 3. Runs

Bounds: `MaxEdits`, `MaxFaults` and `MaxChanges` are named constants that
appear in guards. One edit and one fault, at every moment of a reconcile,
produce each of the conflicts, stale reads and partial loops once, and two edits
give the sequences remove/add and change/change back. A fault is a failing call,
a failing job or a crash of the operator. The sets are small (two services, two
tags, two environments at most); only `site_live`, `backup`, `dbserver`,
`admission` and the Redis runs need two services, objects or sites, because only
there does one influence another. No symmetry is used: most runs check liveness,
and the others are small enough.

- `lifecycle`: a day of two instants and a horizon of four (`Horizon = 3`), so
  that one window passes twice and the resync comes once, at the last instant;
  `MaxEvents = 1` edit, Backup by hand, change of the children, failed call or
  crash at any point; `Keep = 1` finished Backup, so that the clean-up happens.
  An edit shortens the site's life or moves its window.
  Seven sites: backed up daily, soon deleted, soon disabled but never deleted,
  with a negative hour, with an hour that does not parse, and two from before the
  webhooks.
- `redis_churn`: two sites with one service each, two servers with one database
  each, so that two services exhaust a server; one site exists, and two edits take
  its database away, give it to the other site or move either of them, with a fault
  at any point.
- `dbserver`: two objects and three specs, of which one shares its user with the
  first and its database with the last; three creates, changes or deletes and two
  faults, which is enough for create, rename, delete with a failure in each.
- `admission`: one site, two services, two environments, two short names; five
  requests of users, two in flight, which is enough for a service, a site that
  uses it, a deletion of either, and an environment that goes and comes back.

`CHECK_DEADLOCK FALSE` is in every configuration, since a system whose edits
are used up and whose queue is empty rightly stops; `Settles`, `Finishes`,
`Allocated`, `Ends`, `Rests`, `Expires`, `DeletedSitesGo` and `DatabasesGo` check
where it stops.

**Fairness** is weak fairness of the reconcile (controller-runtime works off its
queue and retries errors), of each watch, of each controller and, for the job
modules, of the cluster (a batch Job ends because it has an
`ActiveDeadlineSeconds`). `lifecycle` adds that wake-ups come and time passes,
`admission` that the API server answers requests. Nothing is assumed of the
user, and of faults only that they are finitely many.

| Run | Checks | Shows |
|---|---|---|
| `site_stale` | `TypeOK`, `DeployedDbIsInitialised`, `DeployedTagIsMigrated`, `InitRunsOnce`, `CompleteMeansDeployed`, `MigrationsFollowInit` | with all five caches lagging, an edit and a fault, the gates hold: nothing runs before its database exists and is initialised, and a service nobody edited not before its migrations; no init runs again on an initialised database, unless the save of Running was lost |
| `site_live` | `SteadyInv`, `DropsAreWanted`, `Settles` | two services, one edited, moved, removed, added or toggled: the inductive invariant of the proof, no drop of a wanted database; the site ends provisioned, or Failed because of a job, and the reconciler rests |
| `migration` | `TypeOK`, `CompleteIsOwn`, `ObeysLifecycle`, `Finishes` | with everything slow the controller refines the life cycle and ends, and Complete is about the present tag unless it took over a batch Job that was deleted |
| `init_ttl` | `CompleteMeansSucceeded`, `InitCreatedOnce`, `ObeysLifecycle`, `Finishes` | with stale lists, lost saves, crashes and expiry, Complete is still true, no second init is created unless the first expired unseen, and the job ends |
| `redis_churn` | `TypeOK`, `ReadyIsOwnFlush`, `Allocated` | with moves between servers, a lagging list and a fault no late flush empties a database under a service that may run, unless it shared its number or was moved; each site ends with what it asks for, flushed for it with the same exception, or Failed |
| `backup` | `TypeOK`, `CompleteMeansSaved`, `GoneMeansTried`, `Ends` | a scheduled or final Backup of two services with stale caches, a fault and an edit of the services: Complete means that every service was saved, a site does not go before its final backup was tried, a deleted site goes and a Backup ends |
| `lifecycle` | `TypeOK`, `WakeupSet`, `RestIsTidy`, `NeverEarly`, `OneBackupPerTime`, `Expires`, `BackupsAreMade`, `Rests` | a Complete site always has a wake-up for its next time; nothing is disabled or deleted early, no due time is answered twice or skipped, unless a save was lost or the window moved; sites are disabled and deleted in any state, backups are made, LastBackupTime is right and the reconciler rests |
| `dbserver` | `RestMeansUsable`, `GoneMeansClean`, `KeepsInUse`, `Settles` | after any failed statement, crash or change an object at rest has its user, password, database and grant and no others; a deleted object leaves neither user nor database; no step takes anything from an object that shares no name |
| `admission` | `NamedExist`, `DeletedSitesGo`, `DatabasesGo` | references are broken only by a decision that was out of date when it was stored; deleted sites and the databases of sites that have gone go, unless a config they need has gone before |

### Findings

Three runs expect a violation. Each of them checks one property that a comment, a
message or an API description of the repository states.

| Run | What the code does |
|---|---|
| `migration_gate` | A tag edit only *updates* the DbMigrationJob, which the same reconcile then still lists as Complete for the old tag: the new image is deployed before its migrations. |
| `backup_cut` | The failure of one service's backup makes the whole Backup Failed, which `EnsureFinalBackupIsComplete` takes for its end: the site and its databases go while another service's backup still runs. |
| `redis_shared` | Two creates of one loop ask the cached list for a free number, which has not seen the first of them: two services share a database (`handlers/task/redis_handler.go:198`). |

Other disagreements met while modelling, and the change of a configuration that
shows those which a property of the project covers:

- A service moved to another environment gets a new database that is never
  initialised, because an existing DbInitJob is kept
  (`handlers/job/db_init_job_handler.go:69`); the same happens to one removed and
  added back before its DbInitJob is deleted. This is why `DeployedDbIsInitialised`
  is about Steady services: without `Steady` it fails in `site_stale`.
- A batch Job that is deleted but still listed is taken for the one of the new
  tag: the history `leftover` in `CompleteIsOwn` (without it `migration` fails).
- A service that moves to another Redis server gets number 0 there, whoever has
  it, and stays Complete without a flush: the number found free is assigned to a
  copy (`handlers/task/redis_handler.go:62`). `moved` exempts it, and `shared` the
  service it runs into; without them `ReadyIsOwnFlush` fails in `redis_churn`.
- A lost save followed by the expiry of the batch Job runs the init twice, on a
  database that is initialised already: `expired` in `InitCreatedOnce` and
  `unsaved` in `InitRunsOnce`, which fail without them.
- The Redis number is put only in the status of the reconcile that creates the
  object (`handlers/task/redis_handler.go:99`), which is saved only if a flag turns
  over: a service added while another database is being prepared is told 0 for good.
- `JobNotFoundCount` is not reset for a new tag
  (`controllers/job/dbmigrationjob_controller.go:92`).
- `DatabaseInitialisationComplete` is set, and saved, before any init job exists
  (`controllers/site/stagingsite_controller.go:609`).
- `controllers/job/backup_controller.go:105` logs "Job is in a final state,
  skipping" and goes on: a Backup that was Complete runs again when the site
  has got another service by the next event. `CompleteMeansSaved` is therefore
  about a list of services that was left alone.
- `dailyBackupWindowHour` is documented as 0-23, but the markers of
  `apis/site/v1/stagingsite_types.go:74-75` are not ones that reach the CRD. A
  negative hour makes the status change at every reconcile, which requeues for
  ever and never gets to the stages or to `DeleteAt`; an hour above 23 is an error
  at every reconcile. `Expires` and `Rests` are about sane windows.
- A site looked at in the very instant of its next time gets a `RequeueAfter` of
  zero, no requeue, and a site that is Pending or Failed gets none: only the
  resync (ten hours by default) then disables or deletes it. See `WakeupSet` and
  `Expires`.
- `lastSpecChangeAt` is stamped at every Update, so labels, annotations and the
  operator's own finalizer start the times anew
  (`apis/site/v1/stagingsite_webhook.go:57`).
- The automatic Delete carries no version and may delete a site whose life a user
  has just prolonged: `current` in `NeverEarly`.
- A scheduled Backup whose save is lost is made again: `lost` in
  `OneBackupPerTime`. Failed Backups count among the three that are kept and push
  out Complete ones.
- The next backup takes the date of the operator's local time and the hour of
  UTC (`controllers/site/stagingsite_controller.go:567-579`): with a local time
  ahead of UTC the first time may be a day late.
- The error of a cut-off read of the grants is not looked at
  (`handlers/database/mysql_handler.go:267`): `unread` in `RestMeansUsable`.
- Renaming the user or the database of an object leaves the old ones on the
  server, and the object stays Complete while it is changed: `GoneMeansClean` is
  about objects that kept their names.
- mongo drops the database before the user, so that a service can bring it back:
  `late` in `GoneMeansClean`.
- Two sites that name one user or database change each other's password, revoke
  each other's grants and drop each other's data: `Alone` in `RestMeansUsable`
  and `KeepsInUse`.
- A site that includes all services is locked, and cannot finish its deletion, as
  soon as a service exists whose default environment does not, even if the site
  has not got that service yet: `Locked` in `DeletedSitesGo`.
- The webhook that protects an environment looks for sites and defaults, not for
  database objects: one that is still being finalized stays for ever when its
  environment goes first. See `DatabasesGo`.

## 4. Proofs

All theorems hold for arbitrary sets of services, tags, environments and sites,
for every set of lagging caches and every value of the bounds.

### SiteProvisioningProofs

Assumptions on the constants: `ServicesAssumption` (services with an init or a
migration have a database, as the handlers require), `BoundsAssumption`,
`NothingAssumption`.

| Theorem | Statement |
|---|---|
| `TypeCorrect` | `Spec => []TypeOK` |
| `SteadyInvHolds` | `Spec => []SteadyInv`, the inductive invariant |
| `DeployedAfterInit` | `Spec => []DeployedDbIsInitialised` |
| `InitJobRunsOnce` | `Spec => []InitRunsOnce`, with its exception for a lost save |
| `DropsOnlyWhenAsked` | `Spec => DropsAreWanted` |
| `MigrationAfterInit` | `Spec => MigrationsFollowInit` |
| `DeployedAfterMigration` | `Spec => []DeployedTagIsMigrated` |
| `CompleteAfterDeployment` | `Spec => []CompleteMeansDeployed` |

*The invariant.* None of the properties is inductive: that a Deployment is
created only for an initialised database depends on what the reconcile found
out several stages ago, from a cache, with a copy of the site that may be old.
`SteadyInv` says, for each service that is Steady,

- `CopiesAgree`: the API server, the cached site and the reconcile's copy agree
  on the service's environment, and an older copy never lists more;
- `ObjectsAreSeen`: a reconcile in progress lists every service whose objects
  exist, so a stale site never leads to a delete;
- `DbIsHonest`, `InitIsHonest`: an object's Complete is true, and stays true
  for who reads it late, because nothing that was made is unmade; and once the
  init has run its DbInitJob stays and is past Pending, with no batch Job active,
  unless the save of Running was lost;
- `StageFacts`: what the reconcile knows at each stage, the content of each gate;
- `LaterObjects`: what follows for migration jobs and Deployments.

Each stage establishes its `StageFacts` from the honest objects; each other
actor preserves what earlier stages found. The proof has one lemma for each
action and each conjunct it can disturb. `Steady` is needed: a service that was
moved or added back runs on a database that was never initialised (section 3).

*Migrations* need a second invariant on top of it, `UneditedInv`, for each service
that nobody edited. `CopiesAreSame`: the copies agree on the tag too, and that the
site is enabled; otherwise migration jobs would not be wanted and would be deleted.
`MigrationIsHonest`: the job is never deleted and its Complete is true of the tag
of the spec. `MigrationFacts`: the last gate, and the Deployments behind it. A
service with an edited tag is out of reach because the property fails for it: that
is the finding `migration_gate`.

*Complete.* `OriginalInv` is about a site that was never edited. The flags are set
and cleared by different stages on a copy that may be old, and the state is
computed from them at the end. `DeploymentsStay` says that the flag `network`, in
any copy, means that everything is deployed, and that it stays so: a Deployment
made from such a site is never deleted or changed.

Both invariants were checked by TLC on the instances of `site_stale` and
`site_live` before they were proved.

### RedisAllocationProofs

| Theorem | Statement |
|---|---|
| `RedisTypeCorrect` | `Spec => [](TypeOK /\ AtWork)` |
| `OwnFlushHolds` | `Spec => []ReadyIsOwnFlush` |

Both hold for any lag and any number of servers; nothing is assumed beyond the
constants' types. That numbers are exclusive is no theorem, because it is false
(`redis_shared`). Without it, `ReadyIsOwnFlush` must come from each reservation's
own past: `Reserved` says of an untouched one that no other names its database
and that, once it is Complete, its database was last flushed for it and
no flush in progress will empty it. The last part is what a late flush for a
deleted reservation needs, and it holds because the controller has a single
worker: to become Complete the new reservation must have been flushed itself.

### DatabaseServerProofs

| Theorem | Statement |
|---|---|
| `ServerTypeCorrect` | `Spec => []TypeOK` |
| `RestMeansUsableHolds` | `Spec => []RestMeansUsable` |
| `GoneMeansCleanHolds` | `Spec => []GoneMeansClean` |
| `KeepsInUseHolds` | `Spec => KeepsInUse` |

Assumptions: `ServerAssumption`, which types the specs and the bounds and says
that `Nothing` is no password and no object, and `NoObjectAssumption`, that it is
no object's record. Nothing is assumed about the names: any two objects may have
the same ones.

*The invariant.* The parts are

- `Naming`: what is on the server, cached or in work was named by an object;
- `Working`: the worker has an object exactly while it works, its copy asks for
  what it does, and what counts as the latest version is the latest;
- `Versions`: a copy that has the finalizer or the deletion mark and that someone
  will act on is not ahead of the object, and a worker whose copy is outdated will
  look again;
- `Progress`: what the statements so far have achieved, for each `pc`;
- `Protected`: while the user or the database of an unshared object is on the
  server, the object and its finalizer are there.

`Protected` gives `GoneMeansClean`. To keep it one needs that a late worker never
creates anything for an object that has no finalizer, which is `Versions`, and
that a deletion takes off the finalizer only after both were dropped, which is
`Progress`. `Progress` gives `RestMeansUsable` at the save. What another object
does to the server in between is harmless because of `Naming`: it only touches
what it named, and that is not shared.

### InitJobProofs and MigrationJobProofs

| Theorem | Statement |
|---|---|
| `InitTypeCorrect` | `Spec => []TypeOK` |
| `InitCreatedOnceHolds` | `Spec => []InitCreatedOnce` |
| `CompleteMeansSucceededHolds` | `Spec => []CompleteMeansSucceeded` |
| `InitObeysLifecycle` | `Spec => ObeysLifecycle` |
| `MigrationTypeCorrect` | `Spec => []TypeOK` |
| `CompleteIsOwnHolds` | `Spec => []CompleteIsOwn` |
| `MigrationObeysLifecycle` | `Spec => ObeysLifecycle` |

The two refinements show that each step of a controller, a cache, the cluster or
the user is a step of `JobLifecycle` or a stutter, under the mappings of the
modules. Their core is in `Caching`: a save that the API server will not refuse is
of the latest version, and takes it along one of the `Successors`; all other saves
change nothing.

*InitJob.* `Once` says why a second batch Job is created only after the first
expired unseen: otherwise the first is still there, so that its name is in use, or
its end has been noted and the cache knows it. `FinalStays`
is needed because a reconcile works on the cache: a cached final state is the last
version, so nothing is started over. Assumptions: `BatchAssumption`, the
bounds, and `InitAssumption`: the mapping writes 1 for the one version there is, so
`Nothing` must not be 1.

*MigrationJob.* Its type invariant alone is the hard part: how often the job
starts over is bounded only because every start over is paid for. `Budget` is that
potential: resets made, plus the differences that have not arrived yet between the
site, what was read of it, the job's tag and its last tag, plus the changes left,
never exceed the first tag and `MaxChanges`. `Counting` bounds the misses, which
are reset by a start over but, in a save of an old copy, not set back below the
limit. `Runs`, `Owning` and `Finished` follow a batch Job from its creation to the
Complete it leads to, and say that it is of the last start over all the way, if
`createJobIfNeeded` did not take over a deleted one that was still listed
(`leftover`; section 3 shows what happens then).

### BackupJobProofs

| Theorem | Statement |
|---|---|
| `BackupTypeCorrect` | `Spec => []TypeOK` |
| `CompleteMeansSavedHolds` | `Spec => []CompleteMeansSaved` |
| `GoneMeansTriedHolds` | `Spec => []GoneMeansTried` |

The invariant says that every copy of the Backup (at the API server, cached, in
work) is `Honest`: what it notes of a service has happened to that service's batch
Job, Complete means all and Failed means one of them. `Jobs` is the same for the
Jobs and their cache. `Exists`, that a Backup is never removed, keeps a stale read
from being taken for a missing one. `Deletion` says that a site in deletion is
waiting for a Backup that was created after its services could not be edited any
more, which is why `GoneMeansTried` needs no exception for edits.
The module's assumptions suffice.

### ConfigAdmissionProofs

`NamedExistHolds` states `Spec => []NamedExist` for any sites, services,
environments, specs, and any number of requests in flight.
The delete webhooks look at the labels of the sites, so `Labels` says that these
are exactly what the specs name, in the store and in flight. `Decisions` says of
each request in flight that is still `sound` that storing it now keeps
`NamedExist`; a change that is stored makes all others unsound, because the caches
are behind from then on, and `raced` remembers when such a one is stored. Without
that exception the property is false: two requests that were admitted at the same
time may contradict each other. Of the assumptions only those on the constants' types and
`NothingAssumption` are used.

### SiteLifecycleProofs

| Theorem | Statement |
|---|---|
| `WakeupSetHolds` | `Spec => []WakeupSet` |
| `NeverEarlyHolds` | `Spec => NeverEarly` |
| `OneBackupPerTimeHolds` | `Spec => OneBackupPerTime` |
| `RestIsTidyHolds` | `Spec => []RestIsTidy` |
| `LifecycleTypeCorrect` | `Spec => []TypeOK` |

They hold for any length of the day, horizon, specs, number of events and of
Backups kept, from `LifecycleAssumption` alone. The parts of the invariant:

- `Shape`: types, as far as the decisions about time depend on them. `Plain` are
  the other ones.
- `Queueing`: a site that is queued or worked on has no wake-up; a fresh cache
  is the site; a reconcile of an older copy is followed by another.
- `Copying`: what the copy at work says of its times agrees with its own spec
  and, if it is current, with the site.
- `Waking`: a reconcile that is not repeated leaves the site unfinished or
  returns the wake-up for the status it saves. This is `WakeupSet` while the
  worker is busy; without it the save could not be shown to keep `WakeupSet`.
- `Answering` and `Replacing`: the next backup time is never before the last
  scheduled Backup, and a time that was replaced has been answered.
- `Listed`: the numbers of the Backups have a bound, so the list is finite although
  nothing limits it, a new number is new, and a Complete Backup has an end.
- `Recording`: no copy of `LastBackupTime` is after the last end (`completed`), the
  cache's is not after the site's, and that not after the one about to be saved from
  a current copy. This order is what makes it safe to delete a Backup: whoever reads
  it and finds nothing to change can only have read a time the site has already.
- `Noted`: unless a save was lost, the last end can still be read from its Backup,
  or the site has it, or the reconcile that deleted that Backup is about to save it.
- `Tidying`: a site that is up to date and that nobody will look at again is tidy
  already while the worker is still busy with it; this is to `RestIsTidy` what
  `Waking` is to `WakeupSet`.

That the clean-up leaves at most `Keep` finished Backups is about cardinalities.
`OldestCut` proves it for every finite set of numbers and every cut: the first number
with `k` others before it exists because the order of the naturals is well-founded
(`WFMin` and `NatLessThanWellFounded` of the library), and what is before it has `k`
elements. No induction is needed.

The proof found an exception that `OneBackupPerTime` lacked: when an edit moves
the window, the old time is dropped without a Backup. No run had such an edit, so
TLC had not seen it. The property states it now, and the run has the edit.

### Only model-checked

- Liveness (`Finishes`, `Settles`, `Expires`, ...): fairness is out of the prover's
  reach. The refinement theorems are about the safety part of the abstract
  specification, which is all that `JobLifecycle!Spec` states.

Every invariant and action property of every passing run has a theorem.

## 5. Not modelled

- The text of names: that two sites, or a long name and another, get the same
  object, user or database name is a fact about hashes and hyphens
  (`helpers/string_helper.go`). What follows from it for users and databases is in
  `DatabaseServer`; object names are taken as distinct in the other modules.
- Templates and pod specs, with the validation of templates in the
  ServiceConfig's webhook: text without state.
- `WorkloadHealth`, metrics and events: nothing reads them back.
- The manager's start-up and configuration: its settings (one worker for each
  controller, one cache, resync) are what the models assume.
- Generated code, mocks.
- A second scheduled Backup from an outdated copy of the site. In `SiteLifecycle`
  it meets the name of the first, as it does in the code within the same second
  (`handlers/job/backup_handler.go:24-43`); seconds later, and within one of the
  model's instants, the code makes another one. `OneBackupPerTime` exempts outdated
  copies.
- A lagging list of Backups in `SiteLifecycle`. The code reads a cache
  (`controllers/site/stagingsite_controller.go:476`); what follows, an Update or
  Delete that is refused and repeated, is in the model only as a failed call.
- An API server's Update that was executed but whose answer was lost, in
  `DatabaseServer` (`controllers/task/mysqldatabase_controller.go:95` and `115`): it
  is a success followed by one more reconcile. For SQL statements, which are not
  refused when repeated on an old copy, the lost answer is in the model.

## 6. Plan

All components with state have a module, and all their invariants and action
properties have a theorem. What is left is the text of names (section 5).
