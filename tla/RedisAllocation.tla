-------------------------- MODULE RedisAllocation --------------------------
(***************************************************************************)
(* How services get a database of a shared Redis server.  A Redis server   *)
(* has numbered databases; a RedisDatabase object reserves one for one     *)
(* service of one site.  The site reconciler chooses the number from the   *)
(* cached list of all reservations, and tells the service its number in    *)
(* the site's status; the RedisDatabase controller flushes the database    *)
(* once, before the service runs.                                          *)
(*                                                                         *)
(* One reconcile of one site is at work at a time.  What it does apart     *)
(* from the Redis databases is in SiteProvisioning; here it is only kept   *)
(* when it saves the status.                                               *)
(***************************************************************************)
EXTENDS Naturals

CONSTANTS
    Sites, Services,
    Envs,           \* Redis servers (RedisConfig names)
    DatabaseCount,  \* AvailableDatabaseCount of each
    Nothing,        \* "no such object", "not set"
    InitialWants,   \* the specs the sites may be created with
    Lags,           \* the informer cache of RedisDatabases may be behind
    MaxEdits,       \* bound: edits of the sites' specs
    MaxFaults       \* bound: failed calls and crashes

Owners == Sites \X Services
Numbers == 0..(DatabaseCount - 1)
Maybe(S) == S \cup {Nothing}

\* RedisDatabase: Environment, DatabaseNumber, and State = Complete.
Redis == [env : Envs, number : Numbers, ready : BOOLEAN]

\* Of StagingSiteStatus: RedisDatabaseNumber of each service,
\* DatabaseCreationComplete, ConfigsAreCreated and State = Failed.
Status == [told : [Services -> Numbers], created : BOOLEAN,
           configs : BOOLEAN, failed : BOOLEAN]

ASSUME CountAssumption == DatabaseCount \in Nat \ {0}
ASSUME WantsAssumption ==
    InitialWants \subseteq [Sites -> [Services -> Maybe(Envs)]]
ASSUME SwitchAssumption == Lags \in BOOLEAN
ASSUME BudgetAssumption == MaxEdits \in Nat /\ MaxFaults \in Nat
ASSUME NothingAssumption == Nothing \notin Sites \cup Envs \cup Redis \cup Owners

VARIABLES
    want,      \* the server each service of each site is to use
    st,        \* the saved status of each site
    redis,     \* the RedisDatabases, by owner
    cache,     \* the informer cache's copy of them
    queued,    \* the sites whose key is in the work queue
    pc,        \* "idle", or "write" and "save" of the reconcile in progress
    at,        \* its site
    seen,      \* that site's spec as read
    listed,    \* the site's RedisDatabases as listed from the cache
    written,   \* the services whose object it has written
    copy,      \* the status it will save ...
    changed,   \* ... if there is something to save ...
    current,   \* ... and no one has written the site since
    flushing,  \* the RedisDatabase whose flush is in progress
    holder,    \* who last had each database flushed
    shared,    \* history: the RedisDatabases that ever named another's database
    moved,     \* history: those that were rewritten for another server
    editsLeft, faultsLeft

work == <<at, seen, listed, written, copy, changed, current>>
history == <<shared, moved>>
vars == <<want, st, redis, cache, queued, pc, work, flushing, holder,
          history, editsLeft, faultsLeft>>

None == [s \in Services |-> Nothing]
NewStatus == [told |-> [s \in Services |-> 0], created |-> FALSE,
              configs |-> FALSE, failed |-> FALSE]

Init ==
    /\ want \in InitialWants
    /\ st = [x \in Sites |-> NewStatus]
    /\ redis = [o \in Owners |-> Nothing] /\ cache = redis
    /\ queued = Sites
    /\ pc = "idle" /\ at = Nothing /\ seen = None /\ listed = None
    /\ written = {} /\ copy = NewStatus /\ changed = FALSE /\ current = FALSE
    /\ flushing = Nothing
    /\ holder = [d \in Envs \X Numbers |-> Nothing]
    /\ shared = {} /\ moved = {}
    /\ editsLeft = MaxEdits /\ faultsLeft = MaxFaults

-----------------------------------------------------------------------------
InSync == Lags \/ cache = redis

Fault == faultsLeft > 0 /\ faultsLeft' = faultsLeft - 1

\* Mutant: only the site's own reservations are taken into account.
Free_OwnSite(e) ==
    Numbers \ {cache[<<at, s>>].number :
                 s \in {t \in Services : cache[<<at, t>>] # Nothing
                                         /\ cache[<<at, t>>].env = e}}

\* Mutant: the numbers start from 1.
Free_FromOne(e) ==
    (1..DatabaseCount) \ {cache[o].number :
                 o \in {p \in Owners : cache[p] # Nothing /\ cache[p].env = e}}

\* The numbers no listed RedisDatabase of that server has.
Free(e) ==
    Numbers \ {cache[o].number :
                 o \in {p \in Owners : cache[p] # Nothing /\ cache[p].env = e}}

\* What EnsureDatabasesAreCreated finds to do.
ToDelete == {s \in Services : listed[s] # Nothing /\ seen[s] = Nothing}
ToCreate == {s \in Services : listed[s] = Nothing /\ seen[s] # Nothing}
ToUpdate == {s \in Services : listed[s] # Nothing /\ seen[s] # Nothing
                              /\ listed[s].env # seen[s]}
Todo == (ToDelete \cup ToCreate \cup ToUpdate) \ written

\* The reconcile returns; its copies are dropped.
Return ==
    /\ pc' = "idle" /\ at' = Nothing /\ seen' = None /\ listed' = None
    /\ written' = {} /\ copy' = NewStatus /\ changed' = FALSE
    /\ current' = FALSE

\* The reconcile returns an error: nothing is saved, the key is queued again.
Err == Return /\ queued' = queued \cup {at}

\* "No free databases found in environment": the site is Failed, what it has
\* been told so far is saved, and nothing is queued.
FinalErr ==
    /\ pc' = "save" /\ changed' = TRUE
    /\ copy' = [copy EXCEPT !.failed = TRUE]
    /\ UNCHANGED <<queued, at, seen, listed, written, current>>

\* The reconcile of a site begins: read the site, list its RedisDatabases.
\* DatabaseCreationComplete is TRUE until found otherwise.
Begin(x) ==
    /\ InSync /\ pc = "idle" /\ x \in queued
    /\ queued' = queued \ {x}
    /\ pc' = "write" /\ at' = x /\ current' = TRUE /\ changed' = FALSE
    /\ seen' = want[x] /\ listed' = [s \in Services |-> cache[<<x, s>>]]
    /\ written' = {}
    /\ copy' = [st[x] EXCEPT !.created = TRUE, !.failed = FALSE]
    /\ UNCHANGED <<want, st, redis, cache, flushing, holder, history,
                   editsLeft, faultsLeft>>

\* An update asks for a free number before anything is written; the answer is
\* not used, but having none is a final error.
NoRoom ==
    /\ InSync /\ pc = "write" /\ written = {}
    /\ \E s \in ToUpdate : Free(seen[s]) = {}
    /\ FinalErr
    /\ UNCHANGED <<want, st, redis, cache, flushing, holder, history,
                   editsLeft, faultsLeft>>

Room == written # {} \/ \A s \in ToUpdate : Free(seen[s]) # {}

\* Two RedisDatabases name one database of one server.
Same(r, t) ==
    r # Nothing /\ t # Nothing /\ r.env = t.env /\ r.number = t.number

\* The RedisDatabase of o is deleted (r = Nothing), created or rewritten.
Record(o, r) ==
    LET others == {p \in Owners \ {o} : Same(redis[p], r)} IN
    /\ redis' = [redis EXCEPT ![o] = r]
    /\ shared' = IF r = Nothing THEN shared \ {o}
                 ELSE IF others = {} THEN shared ELSE shared \cup others \cup {o}
    /\ moved' = IF r = Nothing THEN moved \ {o}
                ELSE IF redis[o] = Nothing THEN moved ELSE moved \cup {o}

Writes(s, r) ==
    /\ Record(<<at, s>>, r)
    /\ written' = written \cup {s}
    /\ UNCHANGED <<queued, pc, at, seen, listed, changed, current>>

\* The three loops: deletes, then creates, then updates, each of them until
\* the first error.
Delete(s) ==
    /\ InSync /\ pc = "write" /\ Room /\ s \in Todo \cap ToDelete
    /\ \/ redis[<<at, s>>] # Nothing /\ Writes(s, Nothing)
          /\ UNCHANGED <<copy, faultsLeft>>
       \/ /\ \/ redis[<<at, s>>] = Nothing /\ UNCHANGED faultsLeft
             \/ Fault
          /\ Err /\ UNCHANGED <<redis, history>>
    /\ UNCHANGED <<want, st, cache, flushing, holder, editsLeft>>

Create(s) ==
    /\ InSync /\ pc = "write" /\ Room /\ s \in Todo \cap ToCreate
    /\ Todo \cap ToDelete = {}
    /\ LET e == seen[s] IN
       \/ /\ Free(e) # {} /\ redis[<<at, s>>] = Nothing
          /\ \E n \in Free(e) :
             /\ \A m \in Free(e) : n <= m
             /\ Writes(s, [env |-> e, number |-> n, ready |-> FALSE])
             /\ copy' = [copy EXCEPT !.told = [@ EXCEPT ![s] = n]]
          /\ UNCHANGED faultsLeft
       \/ /\ Free(e) = {}
          /\ FinalErr /\ UNCHANGED <<redis, history, faultsLeft>>
       \/ /\ \/ Free(e) # {} /\ redis[<<at, s>>] # Nothing
                /\ UNCHANGED faultsLeft
             \/ Fault
          /\ Err /\ UNCHANGED <<redis, history>>
    /\ UNCHANGED <<want, st, cache, flushing, holder, editsLeft>>

\* UpdateFromExpected takes over the expected spec, whose number is 0: the
\* number found free goes into a copy that is not written.  State is kept.
Update(s) ==
    /\ InSync /\ pc = "write" /\ Room /\ s \in Todo \cap ToUpdate
    /\ Todo \subseteq ToUpdate
    /\ \/ /\ redis[<<at, s>>] = listed[s]
          /\ Writes(s, [env |-> seen[s], number |-> 0,
                        ready |-> listed[s].ready])
          /\ copy' = [copy EXCEPT !.told = [@ EXCEPT ![s] = 0]]
          /\ UNCHANGED faultsLeft
       \/ /\ \/ redis[<<at, s>>] # listed[s] /\ UNCHANGED faultsLeft
             \/ Fault
          /\ Err /\ UNCHANGED <<redis, history>>
    /\ UNCHANGED <<want, st, cache, flushing, holder, editsLeft>>

\* EnsureDatabasesAreReady, and the configs: isSiteChanged is set only by
\* DatabaseCreationComplete or ConfigsAreCreated turning over.  (A number was
\* told only if something was written, and then the reconcile ends here.)
CheckReady ==
    /\ InSync /\ pc = "write" /\ Room /\ Todo = {}
    /\ LET ready == /\ written = {}
                    /\ \A s \in Services : cache[<<at, s>>] # Nothing
                                           => cache[<<at, s>>].ready
       IN  \/ /\ pc' = "save"
              /\ copy' = [copy EXCEPT !.created = ready, !.configs = TRUE]
              /\ changed' = (ready # st[at].created \/ ~st[at].configs
                             \/ (ready /\ st[at].failed))
              /\ UNCHANGED <<queued, at, seen, listed, written, current,
                             faultsLeft>>
           \/ Fault /\ Err
    /\ UNCHANGED <<want, st, redis, cache, flushing, holder, history,
                   editsLeft>>

\* The status is saved if it is to be and the site was not written since; the
\* event of the save, or the error, queues the site again.
Save ==
    /\ InSync /\ pc = "save"
    /\ \/ /\ changed /\ current
          /\ st' = [st EXCEPT ![at] = copy]
          /\ queued' = IF st[at] = copy THEN queued ELSE queued \cup {at}
          /\ UNCHANGED faultsLeft
       \/ /\ \/ changed /\ ~current /\ UNCHANGED faultsLeft
             \/ changed /\ Fault
          /\ queued' = queued \cup {at} /\ UNCHANGED st
       \/ ~changed /\ UNCHANGED <<st, queued, faultsLeft>>
    /\ Return
    /\ UNCHANGED <<want, redis, cache, flushing, holder, history, editsLeft>>

-----------------------------------------------------------------------------
\* A watch event, which queues the owning site.
Sync(o) ==
    /\ cache[o] # redis[o]
    /\ cache' = [cache EXCEPT ![o] = redis[o]]
    /\ queued' = queued \cup {o[1]}
    /\ UNCHANGED <<want, st, redis, pc, work, flushing, holder, history,
                   editsLeft, faultsLeft>>

\* RedisDatabaseReconciler: a RedisDatabase that is not Complete is read ...
BeginFlush(o) ==
    /\ InSync /\ flushing = Nothing
    /\ cache[o] # Nothing /\ ~cache[o].ready
    /\ flushing' = [owner |-> o, as |-> cache[o]]
    /\ UNCHANGED <<want, st, redis, cache, queued, pc, work, holder, history,
                   editsLeft, faultsLeft>>

\* Mutant: an error of the server is not noticed.
Flush_ErrorIgnored ==
    /\ InSync /\ flushing # Nothing
    /\ LET o == flushing.owner
           d == <<flushing.as.env, flushing.as.number>>
       IN  /\ holder' \in {holder, [holder EXCEPT ![d] = o]}
           /\ redis' = IF redis[o] = flushing.as
                       THEN [redis EXCEPT ![o] = [@ EXCEPT !.ready = TRUE]]
                       ELSE redis
    /\ flushing' = Nothing
    /\ UNCHANGED <<want, st, cache, queued, pc, work, history, editsLeft,
                   faultsLeft>>

\* ... its database flushed, and its status saved, unless it was written since
\* or a call fails.
Flush ==
    /\ InSync /\ flushing # Nothing
    /\ LET o == flushing.owner
           d == <<flushing.as.env, flushing.as.number>>
       IN  \/ /\ holder' = [holder EXCEPT ![d] = o]
              /\ redis' = IF redis[o] = flushing.as
                          THEN [redis EXCEPT ![o] = [@ EXCEPT !.ready = TRUE]]
                          ELSE redis
              /\ UNCHANGED faultsLeft
           \/ /\ Fault
              /\ holder' \in {holder, [holder EXCEPT ![d] = o]}
              /\ UNCHANGED redis
    /\ flushing' = Nothing
    /\ UNCHANGED <<want, st, cache, queued, pc, work, history, editsLeft>>

\* The operator dies and starts again with fresh caches.
Crash ==
    /\ InSync /\ Fault
    /\ Return /\ flushing' = Nothing
    /\ cache' = redis /\ queued' = Sites
    /\ UNCHANGED <<want, st, redis, holder, history, editsLeft>>

\* The user gives a service a Redis server, takes it away or changes it.
Edit(x, s, e) ==
    /\ InSync /\ editsLeft > 0 /\ want[x][s] # e
    /\ want' = [want EXCEPT ![x] = [@ EXCEPT ![s] = e]]
    /\ queued' = queued \cup {x}
    /\ current' = (current /\ at # x)
    /\ editsLeft' = editsLeft - 1
    /\ UNCHANGED <<st, redis, cache, pc, at, seen, listed, written, copy,
                   changed, flushing, holder, history, faultsLeft>>

-----------------------------------------------------------------------------
Reconcile ==
    \/ \E x \in Sites : Begin(x)
    \/ \E s \in Services : Delete(s) \/ Create(s) \/ Update(s)
    \/ NoRoom \/ CheckReady \/ Save

Controller == Flush \/ \E o \in Owners : BeginFlush(o)

Next ==
    \/ Reconcile \/ Controller \/ Crash
    \/ \E o \in Owners : Sync(o)
    \/ \E x \in Sites, s \in Services, e \in Maybe(Envs) : Edit(x, s, e)

\* The queue is worked off, the RedisDatabase controller runs, the watch
\* delivers; nothing is assumed of the user.
Fairness ==
    /\ WF_vars(Reconcile) /\ WF_vars(Controller)
    /\ \A o \in Owners : WF_vars(Sync(o))

Spec == Init /\ [][Next]_vars
FairSpec == Spec /\ Fairness

-----------------------------------------------------------------------------
(***************************************************************************)
(* Properties.                                                             *)
(***************************************************************************)

\* The objects and the working copies hold what the API allows; a number is
\* always one the server has.
TypeOK ==
    /\ want \in [Sites -> [Services -> Maybe(Envs)]]
    /\ st \in [Sites -> Status]
    /\ redis \in [Owners -> Maybe(Redis)] /\ cache \in [Owners -> Maybe(Redis)]
    /\ queued \subseteq Sites
    /\ pc \in {"idle", "write", "save"} /\ at \in Maybe(Sites)
    /\ seen \in [Services -> Maybe(Envs)]
    /\ listed \in [Services -> Maybe(Redis)]
    /\ written \subseteq Services /\ copy \in Status
    /\ changed \in BOOLEAN /\ current \in BOOLEAN
    /\ flushing \in Maybe([owner : Owners, as : Redis])
    /\ holder \in [Envs \X Numbers -> Maybe(Owners)]
    /\ shared \subseteq Owners /\ moved \subseteq Owners
    /\ editsLeft \in 0..MaxEdits /\ faultsLeft \in 0..MaxFaults

\* Its number was chosen for it alone: it has never named the database of
\* another, nor been rewritten for another server.
Untouched(o) == o \notin shared \cup moved

\* The last flush of its database was its own.
OwnFlush(o) == holder[<<redis[o].env, redis[o].number>>] = o

\* A service that may run has its database to itself since its flush: however
\* far the list of RedisDatabases lags, no flush that comes late, for a service
\* that was removed or moved away meanwhile, empties the database again.  Only
\* services that were given one number, or were moved, can lose their data.
ReadyIsOwnFlush ==
    \A o \in Owners : redis[o] # Nothing /\ redis[o].ready /\ Untouched(o) =>
        OwnFlush(o)

\* No two services are given the same database of the same server: who gets
\* one gets a free one, or the error "No free databases found in environment".
NoSharing ==
    \A o, p \in Owners : o # p => ~Same(redis[o], redis[p])

Rest == pc = "idle" /\ queued = {} /\ cache = redis

\* Once the user stops, each site has exactly the databases it asks for, all
\* of them Complete, and flushed for its service unless that one shared its
\* number or was moved; or the site is Failed for want of a free one.
Allocated ==
    <>[](/\ Rest
         /\ \A x \in Sites : st[x].failed \/
              \A s \in Services :
                /\ (redis[<<x, s>>] # Nothing) <=> (want[x][s] # Nothing)
                /\ redis[<<x, s>>] # Nothing =>
                     /\ redis[<<x, s>>].env = want[x][s]
                     /\ redis[<<x, s>>].ready
                     /\ Untouched(<<x, s>>) => OwnFlush(<<x, s>>))
=============================================================================
