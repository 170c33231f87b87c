-------------------------- MODULE ConfigAdmission --------------------------
(***************************************************************************)
(* The admission webhooks that keep sites and configs in step: a site may  *)
(* only name ServiceConfigs and environments that exist, these may not be  *)
(* deleted while a site or a default names them, and short names are       *)
(* unique.  A webhook decides from the informers' caches; the API server   *)
(* stores the object some time later, so a decision may be out of date     *)
(* when it takes effect.  The operator's own Updates of a site, that add   *)
(* and remove its finalizer, go through the same webhook.                  *)
(*                                                                         *)
(* MysqlConfigs stand for the three kinds of environment, whose webhooks   *)
(* are the same code; a database object of a site needs its environment to *)
(* be finalized, after the site itself has gone.                           *)
(***************************************************************************)
EXTENDS Naturals, FiniteSets

CONSTANTS
    Sites, Services, Envs, ShortNames,
    Nothing,       \* no object, no environment
    SiteSpecs,     \* what users write in a site ...
    ServiceSpecs,  \* ... and in a ServiceConfig
    MaxRequests,   \* bound: requests of users
    MaxInFlight    \* bound: requests between the webhook and the store

Maybe(S) == S \cup {Nothing}

\* ServiceConfigSpec: ShortName and DefaultMysqlEnvironment.
Service == [short : ShortNames, env : Maybe(Envs)]

\* StagingSiteSpec: IncludeAllServices, and Services with MysqlEnvironment.
Wants == UNION {[S -> Maybe(Envs)] : S \in SUBSET Services}
SiteSpec == [all : BOOLEAN, want : Wants]

\* The site has labels for the services and environments it uses.
Site == [all : BOOLEAN, want : Wants, services : SUBSET Services,
         envs : SUBSET Envs, finalizer : BOOLEAN, deleting : BOOLEAN]

\* A MysqlDatabase: Environment, its finalizer, its deletion timestamp.
Child == [env : Envs, finalizer : BOOLEAN, deleting : BOOLEAN]

ASSUME SpecsAssumption ==
    /\ SiteSpecs \subseteq SiteSpec /\ ServiceSpecs \subseteq Service
    /\ MaxRequests \in Nat /\ MaxInFlight \in Nat
ASSUME NothingAssumption ==
    Nothing \notin Service \cup Site \cup Child \cup Envs

VARIABLES
    svc,                           \* the ServiceConfigs at the API server,
    envs,                          \* the MysqlConfigs,
    site,                          \* the StagingSites,
    child,                         \* and the MysqlDatabases of the sites
    svcCache, envCache, siteCache, \* the informers' copies
    flight,                        \* requests that a webhook has let pass
    raced,                         \* history: a request was stored that was
                                   \* decided on an outdated view
    left                           \* requests that users may still make

stored == <<svc, envs, site>>
caches == <<svcCache, envCache, siteCache>>
vars == <<stored, child, caches, flight, raced, left>>

InSync == <<svcCache, envCache, siteCache>> = stored

\* A request in flight: the object it replaces and the one it stores;
\* whether what the webhook saw is still how things are.
Requests ==
    [op : {"site"}, key : Sites, base : Maybe(Site), new : Site, sound : BOOLEAN]
    \cup [op : {"service"}, key : Services, base : Maybe(Service),
          new : Maybe(Service), sound : BOOLEAN]
    \cup [op : {"env"}, key : Envs, base : {TRUE}, new : {FALSE}, sound : BOOLEAN]

TypeOK ==
    /\ svc \in [Services -> Maybe(Service)] /\ svcCache \in [Services -> Maybe(Service)]
    /\ envs \subseteq Envs /\ envCache \subseteq Envs
    /\ site \in [Sites -> Maybe(Site)] /\ siteCache \in [Sites -> Maybe(Site)]
    /\ child \in [Sites \X Services -> Maybe(Child)]
    /\ \A r \in flight : r \in Requests
    /\ Cardinality(flight) <= MaxInFlight
    /\ raced \in BOOLEAN /\ left \in 0..MaxRequests

\* Nothing but environments, which have no webhook for their creation.
Init ==
    /\ svc = [s \in Services |-> Nothing] /\ envs = Envs
    /\ site = [p \in Sites |-> Nothing]
    /\ child = [c \in Sites \X Services |-> Nothing]
    /\ svcCache = svc /\ envCache = envs /\ siteCache = site
    /\ flight = {} /\ raced = FALSE /\ left = MaxRequests

-----------------------------------------------------------------------------
(* The webhooks.  Each decides from the caches. *)

\* The request passes: the API server will store it.
Pass(op, key, base, new) ==
    /\ Cardinality(flight) < MaxInFlight
    /\ flight' = flight \cup {[op |-> op, key |-> key, base |-> base, new |-> new,
                               sound |-> InSync]}
    /\ UNCHANGED <<stored, child, caches, raced>>

User == left > 0 /\ left' = left - 1

\* The services of a site s, and the environment of each: the site's own, or
\* the default of the ServiceConfig.  The webhook sees the ServiceConfigs c.
Listed(s, c) == DOMAIN s.want \cup {n \in Services : s.all /\ c[n] # Nothing}
EnvOf(s, n, c) ==
    IF n \in DOMAIN s.want /\ s.want[n] # Nothing THEN s.want[n] ELSE c[n].env

\* It lets the site pass, seeing environments E.
Admissible(s, c, E) ==
    /\ Listed(s, c) # {}
    /\ \A n \in Listed(s, c) : c[n] # Nothing /\ EnvOf(s, n, c) \in Maybe(E)

\* The site as it changes it: services and environments filled in, and the
\* labels for those.
Filled(s) ==
    LET want == [n \in Listed(s, svcCache) |-> EnvOf(s, n, svcCache)] IN
    [s EXCEPT !.want = want, !.services = DOMAIN want,
              !.envs = {want[n] : n \in DOMAIN want} \ {Nothing}]

\* A user writes a site.
WriteSite(p, spec) ==
    LET old == site[p]
        s == [all |-> spec.all, want |-> spec.want, services |-> {}, envs |-> {},
              finalizer |-> old # Nothing /\ old.finalizer,
              deleting |-> old # Nothing /\ old.deleting]
    IN  /\ User
        /\ Admissible(s, svcCache, envCache)
        /\ Pass("site", p, old, Filled(s))

\* An Update of the operator is in flight; it waits for the answer.
Waits(p) == \E r \in flight : /\ r.op = "site" /\ r.key = p /\ r.base # Nothing
                              /\ r.base.finalizer # r.new.finalizer

\* Mutant: the finalizer stays until the site's databases are gone.
UpdateFinalizer_DatabasesFirst(p) ==
    LET s == siteCache[p] IN
    /\ s # Nothing /\ s.finalizer = s.deleting
    /\ s.deleting => \A n \in Services : child[<<p, n>>] = Nothing
    /\ ~Waits(p)
    /\ Admissible(s, svcCache, envCache)
    /\ Pass("site", p, s, Filled([s EXCEPT !.finalizer = ~@]))
    /\ UNCHANGED left

\* The operator adds its finalizer, or removes it when the site's deletion
\* has come that far.
UpdateFinalizer(p) ==
    LET s == siteCache[p] IN
    /\ s # Nothing /\ s.finalizer = s.deleting
    /\ ~Waits(p)
    /\ Admissible(s, svcCache, envCache)
    /\ Pass("site", p, s, Filled([s EXCEPT !.finalizer = ~@]))
    /\ UNCHANGED left

\* ServiceConfigs with the short name k.
Named(k) == {n \in Services : svcCache[n] # Nothing /\ svcCache[n].short = k}

\* The webhook of a ServiceConfig's creation or change.
WriteService(n, spec) ==
    /\ User
    /\ Named(spec.short) \subseteq {n}
    /\ spec.env \in Maybe(envCache)
    /\ Pass("service", n, svc[n], spec)

\* That of its deletion looks for the label of a site.
DropService(n) ==
    /\ User /\ svc[n] # Nothing
    /\ \A p \in Sites : siteCache[p] # Nothing => n \notin siteCache[p].services
    /\ Pass("service", n, svc[n], Nothing)

\* Mutant: the defaults are not looked at.
DropEnv_SitesOnly(e) ==
    /\ User /\ e \in envs
    /\ \A p \in Sites : siteCache[p] # Nothing => e \notin siteCache[p].envs
    /\ Pass("env", e, TRUE, FALSE)

\* That of an environment's, for the label of a site and for a default.
DropEnv(e) ==
    /\ User /\ e \in envs
    /\ \A p \in Sites : siteCache[p] # Nothing => e \notin siteCache[p].envs
    /\ \A n \in Services : svcCache[n] # Nothing => svcCache[n].env # e
    /\ Pass("env", e, TRUE, FALSE)

-----------------------------------------------------------------------------
(* The API server. *)

\* What it has for a request's key.
Now(r) == CASE r.op = "site" -> site[r.key]
            [] r.op = "service" -> svc[r.key]
            [] r.op = "env" -> r.key \in envs

\* A site that is being deleted goes with its finalizer.
Kept(s) == IF s # Nothing /\ s.deleting /\ ~s.finalizer THEN Nothing ELSE s

\* The requests left in flight have not seen what is stored now.
Outdated(R) == {[r EXCEPT !.sound = FALSE] : r \in R}

\* The request is stored.
Store(r) ==
    /\ r \in flight /\ Now(r) = r.base
    /\ site' = IF r.op = "site" THEN [site EXCEPT ![r.key] = Kept(r.new)] ELSE site
    /\ svc' = IF r.op = "service" THEN [svc EXCEPT ![r.key] = r.new] ELSE svc
    /\ envs' = IF r.op = "env" THEN envs \ {r.key} ELSE envs
    /\ flight' = IF stored' = stored THEN flight \ {r} ELSE Outdated(flight \ {r})
    /\ raced' = (raced \/ ~r.sound)
    /\ UNCHANGED <<child, caches, left>>

\* It is refused, for the object has changed in between.
Refuse(r) ==
    /\ r \in flight /\ Now(r) # r.base
    /\ flight' = flight \ {r}
    /\ UNCHANGED <<stored, child, caches, raced, left>>

\* A user makes an environment: no webhook.
CreateEnv(e) ==
    /\ User /\ e \notin envs
    /\ envs' = envs \cup {e}
    /\ flight' = Outdated(flight)
    /\ UNCHANGED <<svc, site, child, caches, raced>>

\* A user, or the site's time, deletes it: no webhook.
DeleteSite(p) ==
    /\ User /\ site[p] # Nothing /\ ~site[p].deleting
    /\ site' = [site EXCEPT ![p] = Kept([@ EXCEPT !.deleting = TRUE])]
    /\ flight' = Outdated(flight)
    /\ UNCHANGED <<svc, envs, child, caches, raced>>

SyncServices ==
    /\ svcCache # svc /\ svcCache' = svc
    /\ UNCHANGED <<stored, child, envCache, siteCache, flight, raced, left>>
SyncEnvs ==
    /\ envCache # envs /\ envCache' = envs
    /\ UNCHANGED <<stored, child, svcCache, siteCache, flight, raced, left>>
SyncSites ==
    /\ siteCache # site /\ siteCache' = site
    /\ UNCHANGED <<stored, child, svcCache, envCache, flight, raced, left>>

-----------------------------------------------------------------------------
(* The database objects. *)

WantedEnv(p, n) ==
    IF siteCache[p] = Nothing \/ n \notin DOMAIN siteCache[p].want THEN Nothing
    ELSE siteCache[p].want[n]

\* A Delete: gone at once if there is no finalizer.
Deleted(c) == IF c.finalizer THEN [c EXCEPT !.deleting = TRUE] ELSE Nothing

\* Mutant: what is not wanted any more is not deleted.
EnsureDatabase_NoDelete(p, n) ==
    LET s == siteCache[p]
        c == child[<<p, n>>]
        e == WantedEnv(p, n)
    IN  /\ s # Nothing /\ s.finalizer /\ ~s.deleting
        /\ \A m \in DOMAIN s.want : svcCache[m] # Nothing
        /\ child' = [child EXCEPT ![<<p, n>>] =
               IF e = Nothing THEN c
               ELSE IF c = Nothing
                    THEN [env |-> e, finalizer |-> FALSE, deleting |-> FALSE]
               ELSE [c EXCEPT !.env = e]]
        /\ UNCHANGED <<stored, caches, flight, raced, left>>

\* EnsureDatabasesAreCreated, of a site that was adopted and is not being
\* deleted, once it has found all the site's ServiceConfigs.
EnsureDatabase(p, n) ==
    LET s == siteCache[p]
        c == child[<<p, n>>]
        e == WantedEnv(p, n)
    IN  /\ s # Nothing /\ s.finalizer /\ ~s.deleting
        /\ \A m \in DOMAIN s.want : svcCache[m] # Nothing
        /\ child' = [child EXCEPT ![<<p, n>>] =
               IF e = Nothing THEN (IF c = Nothing THEN c ELSE Deleted(c))
               ELSE IF c = Nothing
                    THEN [env |-> e, finalizer |-> FALSE, deleting |-> FALSE]
               ELSE [c EXCEPT !.env = e]]
        /\ UNCHANGED <<stored, caches, flight, raced, left>>

\* The garbage collector deletes what belonged to a site that has gone.
Collect(p, n) ==
    /\ site[p] = Nothing
    /\ child[<<p, n>>] # Nothing /\ ~child[<<p, n>>].deleting
    /\ child' = [child EXCEPT ![<<p, n>>] = Deleted(@)]
    /\ UNCHANGED <<stored, caches, flight, raced, left>>

\* The MysqlDatabase controller.  Whatever there is to do, it reads the
\* environment's config first and returns its error.
ReconcileDatabase(p, n) ==
    LET c == child[<<p, n>>] IN
    /\ c # Nothing /\ (c.deleting \/ ~c.finalizer)
    /\ c.env \in envCache
    /\ child' = [child EXCEPT ![<<p, n>>] =
                    IF c.deleting THEN Nothing ELSE [c EXCEPT !.finalizer = TRUE]]
    /\ UNCHANGED <<stored, caches, flight, raced, left>>

-----------------------------------------------------------------------------
Operator(p) ==
    \/ UpdateFinalizer(p)
    \/ \E n \in Services :
         EnsureDatabase(p, n) \/ Collect(p, n) \/ ReconcileDatabase(p, n)

ApiServer == \E r \in flight : Store(r) \/ Refuse(r)

Next ==
    \/ \E p \in Sites : \/ \E s \in SiteSpecs : WriteSite(p, s)
                        \/ DeleteSite(p)
                        \/ Operator(p)
    \/ \E n \in Services : \/ \E s \in ServiceSpecs : WriteService(n, s)
                           \/ DropService(n)
    \/ \E e \in Envs : DropEnv(e) \/ CreateEnv(e)
    \/ ApiServer
    \/ SyncServices \/ SyncEnvs \/ SyncSites

Spec == Init /\ [][Next]_vars

\* Requests end, watch events arrive, and the operator retries.
FairSpec ==
    /\ Spec
    /\ WF_vars(ApiServer)
    /\ WF_vars(SyncServices) /\ WF_vars(SyncEnvs) /\ WF_vars(SyncSites)
    /\ \A p \in Sites :
         /\ WF_vars(UpdateFinalizer(p))
         /\ \A n \in Services : /\ WF_vars(EnsureDatabase(p, n))
                                /\ WF_vars(Collect(p, n))
                                /\ WF_vars(ReconcileDatabase(p, n))

-----------------------------------------------------------------------------
(* Properties. *)

(* What is named exists, and short names are unique, as long as each        *)
(* request was decided on how things were when it was stored; a request     *)
(* that was decided earlier, or from a cache that was behind, may delete a  *)
(* config as a site begins to use it (stagingsite.go:71-142,                *)
(* serviceconfig_delete.go:25-41, mysqlconfig_delete.go:27-77,              *)
(* serviceconfig_create_or_update.go:44-89).                                *)
NamedExist ==
    raced \/ /\ \A p \in Sites : site[p] # Nothing =>
                  \A n \in DOMAIN site[p].want :
                     svc[n] # Nothing /\ site[p].want[n] \in Maybe(envs)
             /\ \A n \in Services : svc[n] # Nothing =>
                  /\ svc[n].env \in Maybe(envs)
                  /\ \A m \in Services \ {n} :
                        svc[m] # Nothing => svc[m].short # svc[n].short

\* The webhook will not let an Update of the site pass.
Locked(p) == site[p] # Nothing /\ ~Admissible(site[p], svc, envs)

(* A deleted site goes in the end.  Its finalizer is removed by an Update   *)
(* that the site's webhook has to let pass, so a site that names a config   *)
(* that has gone stays; one that includes all services does so even for a   *)
(* service that it has not got yet (stagingsite_controller.go:291-294,      *)
(* stagingsite.go:54-83).                                                   *)
DeletedSitesGo ==
    \A p \in Sites : <>[](site[p] # Nothing /\ site[p].deleting => Locked(p))

(* The databases of a site that has gone, or does not want them any more,   *)
(* go in the end, unless their environment was deleted first: its webhook   *)
(* looks for sites, not for the database objects that still need it         *)
(* (mysqldatabase_controller.go:76-100, mysqlconfig_delete.go:27-50).  A    *)
(* service that the site still lists keeps its database, also one that has  *)
(* lost its environment.                                                    *)
DatabasesGo ==
    \A p \in Sites, n \in Services :
        <>[](child[<<p, n>>] # Nothing =>
                \/ Locked(p)
                \/ site[p] # Nothing /\ n \in DOMAIN site[p].want
                \/ child[<<p, n>>].env \notin envs)

=============================================================================
