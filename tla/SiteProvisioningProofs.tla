----------------------- MODULE SiteProvisioningProofs -----------------------
(***************************************************************************)
(* Theorems about SiteProvisioning, for every set of services, tags and    *)
(* environments, every lag of the caches and every number of edits and     *)
(* faults.                                                                 *)
(***************************************************************************)
EXTENDS SiteProvisioning, TLAPS

USE ServicesAssumption, BoundsAssumption, NothingAssumption

-----------------------------------------------------------------------------
(***************************************************************************)
(* Type correctness.                                                       *)
(***************************************************************************)

\* The flags a stage may assign are flags.
LEMMA SetType ==
    ASSUME TypeOK, NEW flag \in Flags, NEW v
    PROVE  Set(flag, v) \subseteq Flags
  BY DEF TypeOK, Set

\* What a stage of the reconcile leaves behind in its own copy is well typed.
LEMMA ContinueType ==
    ASSUME TypeOK, NEW stage \in Stages, NEW flags \in SUBSET Flags,
           NEW chg \in BOOLEAN, Continue(stage, flags, chg)
    PROVE  /\ pc' \in Stages /\ done' \subseteq Flags /\ state' \in SiteStates
           /\ changed' \in BOOLEAN /\ requeue' \in BOOLEAN
           /\ faultsLeft' \in 0..MaxFaults
  BY DEF TypeOK, Continue

LEMMA CallFailsType ==
    ASSUME TypeOK, CallFails
    PROVE  faultsLeft' \in 0..MaxFaults
  BY DEF TypeOK, CallFails

LEMMA ErrType ==
    ASSUME TypeOK, NEW flags \in SUBSET Flags, Err(flags)
    PROVE  /\ pc' \in Stages /\ done' \subseteq Flags /\ state' \in SiteStates
           /\ changed' \in BOOLEAN /\ requeue' \in BOOLEAN
  BY DEF TypeOK, Err, Stages

LEMMA FinalErrType ==
    ASSUME TypeOK, FinalErr
    PROVE  /\ pc' \in Stages /\ done' \subseteq Flags /\ state' \in SiteStates
           /\ changed' \in BOOLEAN /\ requeue' \in BOOLEAN
           /\ faultsLeft' \in 0..MaxFaults
  BY DEF TypeOK, FinalErr, Stages, SiteStates

LEMMA ReturnType ==
    ASSUME Return
    PROVE  /\ pc' \in Stages /\ done' \subseteq Flags /\ state' \in SiteStates
           /\ changed' \in BOOLEAN /\ requeue' \in BOOLEAN
           /\ base' \in Site /\ current' \in BOOLEAN
  BY DEF Return, Stages, SiteStates, NoSite, None, NewStatus, Site, Status,
      Maybe

LEMMA InterruptedType ==
    ASSUME TypeOK, NEW A, NEW x, NEW y, NEW z, NEW r, Interrupted(A, x, y, z, r)
    PROVE  faultsLeft' \in 0..MaxFaults
  BY CallFailsType DEF TypeOK, Interrupted

LEMMA TypeInit == Init => TypeOK
  <1> SUFFICES ASSUME Init PROVE TypeOK
    OBVIOUS
  <1>1. PICK w \in [Services -> Maybe(Want)] :
          site = [want |-> w, enabled |-> TRUE, st |-> NewStatus]
    BY DEF Init
  <1>2. site \in Site /\ siteCache \in Site
    BY <1>1 DEF Init, Site, Status, NewStatus, SiteStates
  <1>3. base \in Site
    BY DEF Init, NoSite, None, NewStatus, Site, Status, Maybe, SiteStates
  <1>4. cache \in CacheState
    BY DEF Init, None, CacheState, Maybe
  <1>5. /\ db \in [Services -> Maybe(DbObject)]
        /\ ini \in [Services -> Maybe(InitObject)]
        /\ mig \in [Services -> Maybe(MigObject)]
        /\ dep \in [Services -> Maybe(Want)]
        /\ conf \in [Services -> Maybe(Want)]
        /\ initRun \in [Services -> Maybe(InitRun)]
    BY DEF Init, None, Maybe
  <1>6. edits \in [Services -> SUBSET {"tag", "env", "removed", "toggled"}]
    BY DEF Init
  <1>7. /\ net \subseteq Services /\ done \subseteq Flags
        /\ existing \subseteq Services \X Envs
        /\ inited \subseteq Services \X Envs
        /\ migrated \subseteq Services \X Envs \X Tags
        /\ unsaved \subseteq Services
    BY DEF Init
  <1>8. pc \in Stages /\ state \in SiteStates
    BY DEF Init, Stages, SiteStates
  <1>9. /\ siteFresh \in BOOLEAN /\ queued \in BOOLEAN /\ current \in BOOLEAN
        /\ changed \in BOOLEAN /\ requeue \in BOOLEAN
    BY Zenon DEF Init
  <1>10. editsLeft \in 0..MaxEdits /\ faultsLeft \in 0..MaxFaults
    <2>1. editsLeft = MaxEdits /\ faultsLeft = MaxFaults
      BY Zenon DEF Init
    <2> QED  BY <2>1
  <1> QED
    BY <1>2, <1>3, <1>4, <1>5, <1>6, <1>7, <1>8, <1>9, <1>10 DEF TypeOK

(***************************************************************************)
(* The stages.                                                             *)
(***************************************************************************)
LEMMA TypeBegin == TypeOK /\ BeginReconcile => TypeOK'
  <1> SUFFICES ASSUME TypeOK, BeginReconcile PROVE TypeOK'
    OBVIOUS
  <1>1. base' \in Site /\ current' \in BOOLEAN /\ done' \subseteq Flags
    BY DEF TypeOK, BeginReconcile, Site, Status
  <1>2. /\ pc' \in Stages /\ state' \in SiteStates
        /\ changed' \in BOOLEAN /\ requeue' \in BOOLEAN
    BY DEF TypeOK, BeginReconcile, Stages, Site, Status, SiteStates,
           StateAfterUpdate, ResetErrors
  <1>3. faultsLeft' \in 0..MaxFaults
    BY CallFailsType DEF TypeOK, BeginReconcile
  <1>4. queued' \in BOOLEAN
    BY Zenon DEF BeginReconcile
  <1> QED
    BY <1>1, <1>2, <1>3, <1>4
    DEF TypeOK, BeginReconcile, objects, caches, servers, runs, budget

LEMMA TypeCreateDatabases == TypeOK /\ CreateDatabases => TypeOK'
  <1> SUFFICES ASSUME TypeOK, CreateDatabases PROVE TypeOK'
    OBVIOUS
  <1> DEFINE wanted == Wanted(DbServices)
             listed == Listed(cache.db)
             toDelete == listed \ wanted
             toCreate == wanted \ listed
             toUpdate == {s \in wanted \cap listed :
                            cache.db[s].env # base.want[s].env}
             rejected == {s \in toDelete : db[s] = Nothing}
                         \cup {s \in toCreate : db[s] # Nothing}
                         \cup {s \in toUpdate : db[s] # cache.db[s]}
  <1>1. PICK A \in Prefixes(toDelete, toCreate, toUpdate) :
             /\ A \cap rejected = {}
             /\ db' = [s \in Services |->
                         IF s \notin A THEN db[s]
                         ELSE IF s \in toDelete THEN Deleted(db[s])
                         ELSE IF s \in toCreate THEN NewDb(base.want[s].env)
                         ELSE [db[s] EXCEPT !.env = base.want[s].env]]
             /\ \/ /\ A = toDelete \cup toCreate \cup toUpdate
                   /\ Continue("ready", Set("created", A = {}), FALSE)
                \/ /\ Interrupted(A, toDelete, toCreate, toUpdate, rejected)
                   /\ Err(Set("created", TRUE))
    BY DEF CreateDatabases
  <1>2. db' \in [Services -> Maybe(DbObject)]
    <2> SUFFICES ASSUME NEW s \in Services PROVE db'[s] \in Maybe(DbObject)
      BY <1>1
    <2>1. CASE s \notin A
      BY <1>1, <2>1 DEF TypeOK
    <2>2. CASE s \in A /\ s \in toDelete
      <3>1. db[s] \in DbObject
        BY <1>1, <2>2 DEF TypeOK, Maybe
      <3>2. Deleted(db[s]) \in Maybe(DbObject)
        BY <3>1 DEF Deleted, DbObject, Maybe
      <3> QED  BY <1>1, <2>2, <3>2
    <2>3. CASE s \in A /\ s \in toCreate
      <3>1. base.want[s] \in Want
        BY <2>3 DEF TypeOK, Wanted, Site, Maybe
      <3>2. NewDb(base.want[s].env) \in DbObject
        BY <3>1 DEF NewDb, DbObject, Want
      <3> QED  BY <1>1, <2>3, <3>2 DEF Maybe
    <2>4. CASE s \in A /\ s \notin toDelete /\ s \notin toCreate
      <3>1. s \in toUpdate
        BY <2>4, <1>1 DEF Prefixes
      <3>2. base.want[s] \in Want
        BY <3>1 DEF TypeOK, Wanted, Site, Maybe
      <3>3. cache.db[s] # Nothing
        BY <3>1 DEF Listed
      <3>4. db[s] \in DbObject
        BY <1>1, <2>4, <3>1, <3>3 DEF TypeOK, Maybe
      <3>5. [db[s] EXCEPT !.env = base.want[s].env] \in DbObject
        BY <3>2, <3>4 DEF DbObject, Want
      <3> QED  BY <1>1, <2>4, <3>5 DEF Maybe
    <2> QED  BY <2>1, <2>2, <2>3, <2>4
  <1>3. /\ pc' \in Stages /\ done' \subseteq Flags /\ state' \in SiteStates
        /\ changed' \in BOOLEAN /\ requeue' \in BOOLEAN
        /\ faultsLeft' \in 0..MaxFaults
    <2> HIDE DEF wanted, listed, toDelete, toCreate, toUpdate, rejected
    <2>1. /\ "ready" \in Stages
          /\ Set("created", A = {}) \in SUBSET Flags
          /\ Set("created", TRUE) \in SUBSET Flags
      BY SetType DEF Stages, Flags
    <2>2. CASE Continue("ready", Set("created", A = {}), FALSE)
      BY <2>1, <2>2, ContinueType
    <2>3. CASE /\ Interrupted(A, toDelete, toCreate, toUpdate, rejected)
               /\ Err(Set("created", TRUE))
      BY <2>1, <2>3, InterruptedType, ErrType
    <2> QED  BY <1>1, <2>2, <2>3
  <1> QED
    BY <1>2, <1>3 DEF TypeOK, CreateDatabases, caches, read, servers, runs,
        budget

LEMMA TypeCheckDatabases == TypeOK /\ CheckDatabases => TypeOK'
  <1> SUFFICES ASSUME TypeOK, CheckDatabases PROVE TypeOK'
    OBVIOUS
  <1> DEFINE ready == "created" \in done /\ AllComplete(cache.db)
  <1>1. /\ pc' \in Stages /\ done' \subseteq Flags /\ state' \in SiteStates
        /\ changed' \in BOOLEAN /\ requeue' \in BOOLEAN
        /\ faultsLeft' \in 0..MaxFaults
    <2>1. /\ "configs" \in Stages
          /\ Set("created", ready) \cup {"inited"} \in SUBSET Flags
          /\ Set("inited", TRUE) \in SUBSET Flags
          /\ (ready # ("created" \in base.st.done)) \in BOOLEAN
      BY SetType DEF Stages, Flags
    <2> HIDE DEF ready
    <2>2. CASE Continue("configs", Set("created", ready) \cup {"inited"},
                        ready # ("created" \in base.st.done))
      BY <2>1, <2>2, ContinueType
    <2>3. CASE CallFails /\ Err(Set("inited", TRUE))
      BY <2>1, <2>3, CallFailsType, ErrType
    <2> QED  BY <2>2, <2>3 DEF CheckDatabases, ready
  <1> QED
    BY <1>1 DEF TypeOK, CheckDatabases, objects, caches, read, servers, runs,
        budget

LEMMA TypeUpdateConfigs == TypeOK /\ UpdateConfigs => TypeOK'
  <1> SUFFICES ASSUME TypeOK, UpdateConfigs PROVE TypeOK'
    OBVIOUS
  <1> DEFINE stale == {s \in Services : conf[s] # base.want[s]}
             toDelete == {s \in stale : base.want[s] = Nothing}
             toUpdate == {s \in stale \ toDelete : conf[s] # Nothing}
             toCreate == (stale \ toDelete) \ toUpdate
             next == IF "created" \in done THEN "initCreate" ELSE "save"
             chg == "configs" \notin done
  <1>1. PICK A \in Prefixes(toDelete, toUpdate, toCreate) :
             /\ conf' = [s \in Services |->
                           IF s \in A THEN base.want[s] ELSE conf[s]]
             /\ \/ /\ A = stale
                   /\ Continue(next, Set("configs", TRUE), chg)
                \/ /\ Interrupted(A, toDelete, toUpdate, toCreate, {})
                   /\ Err(done)
    BY DEF UpdateConfigs
  <1>2. conf' \in [Services -> Maybe(Want)]
    BY <1>1 DEF TypeOK, Site
  <1>3. /\ pc' \in Stages /\ done' \subseteq Flags /\ state' \in SiteStates
        /\ changed' \in BOOLEAN /\ requeue' \in BOOLEAN
        /\ faultsLeft' \in 0..MaxFaults
    <2>1. /\ next \in Stages /\ chg \in BOOLEAN
          /\ Set("configs", TRUE) \in SUBSET Flags
          /\ done \in SUBSET Flags
      BY SetType DEF Stages, Flags, TypeOK
    <2> HIDE DEF stale, toDelete, toUpdate, toCreate, next, chg
    <2>2. CASE Continue(next, Set("configs", TRUE), chg)
      BY <2>1, <2>2, ContinueType
    <2>3. CASE /\ Interrupted(A, toDelete, toUpdate, toCreate, {})
               /\ Err(done)
      BY <2>1, <2>3, InterruptedType, ErrType
    <2> QED  BY <1>1, <2>2, <2>3
  <1> QED
    BY <1>2, <1>3 DEF TypeOK, UpdateConfigs, caches, read, servers, runs,
        budget

LEMMA TypeCreateInitJobs == TypeOK /\ CreateInitJobs => TypeOK'
  <1> SUFFICES ASSUME TypeOK, CreateInitJobs PROVE TypeOK'
    OBVIOUS
  <1> DEFINE wanted == Wanted(InitServices)
             listed == Listed(cache.ini)
             toDelete == listed \ wanted
             toCreate == wanted \ listed
             rejected == {s \in toDelete : ini[s] = Nothing}
                         \cup {s \in toCreate : ini[s] # Nothing}
  <1>1. PICK A \in Prefixes(toDelete, toCreate, {}) :
             /\ ini' = [s \in Services |->
                          IF s \notin A THEN ini[s]
                          ELSE IF s \in toDelete THEN Nothing ELSE NewInit]
             /\ initRun' = [s \in Services |->
                              IF s \in A \cap toDelete THEN Nothing
                              ELSE initRun[s]]
             /\ \/ /\ A = toDelete \cup toCreate
                   /\ Continue("initReady", Set("inited", A = {}), FALSE)
                \/ /\ Interrupted(A, toDelete, toCreate, {}, rejected)
                   /\ Err(Set("inited", TRUE))
    BY DEF CreateInitJobs
  <1>2. ini' \in [Services -> Maybe(InitObject)]
    <2>1. NewInit \in InitObject
      BY DEF NewInit, InitObject, JobStates
    <2> QED  BY <1>1, <2>1 DEF TypeOK, Maybe
  <1>4. initRun' \in [Services -> Maybe(InitRun)]
    BY <1>1 DEF TypeOK, Maybe
  <1>3. /\ pc' \in Stages /\ done' \subseteq Flags /\ state' \in SiteStates
        /\ changed' \in BOOLEAN /\ requeue' \in BOOLEAN
        /\ faultsLeft' \in 0..MaxFaults
    <2> HIDE DEF wanted, listed, toDelete, toCreate, rejected
    <2>1. /\ "initReady" \in Stages
          /\ Set("inited", A = {}) \in SUBSET Flags
          /\ Set("inited", TRUE) \in SUBSET Flags
      BY SetType DEF Stages, Flags
    <2>2. CASE Continue("initReady", Set("inited", A = {}), FALSE)
      BY <2>1, <2>2, ContinueType
    <2>3. CASE /\ Interrupted(A, toDelete, toCreate, {}, rejected)
               /\ Err(Set("inited", TRUE))
      BY <2>1, <2>3, InterruptedType, ErrType
    <2> QED  BY <1>1, <2>2, <2>3
  <1> QED
    BY <1>2, <1>3, <1>4 DEF TypeOK, CreateInitJobs, caches, read, budget

LEMMA TypeCheckInitJobs == TypeOK /\ CheckInitJobs => TypeOK'
  <1> SUFFICES ASSUME TypeOK, CheckInitJobs PROVE TypeOK'
    OBVIOUS
  <1> DEFINE ready == "inited" \in done /\ AllComplete(cache.ini)
             next == IF ready THEN "migCreate" ELSE "save"
             chg == ~ready
  <1>1. /\ pc' \in Stages /\ done' \subseteq Flags /\ state' \in SiteStates
        /\ changed' \in BOOLEAN /\ requeue' \in BOOLEAN
        /\ faultsLeft' \in 0..MaxFaults
    <2>1. /\ next \in Stages /\ chg \in BOOLEAN
          /\ Set("inited", ready) \in SUBSET Flags
          /\ done \in SUBSET Flags
      BY SetType DEF Stages, Flags, TypeOK
    <2>2. \/ FinalErr
          \/ Continue(next, Set("inited", ready), chg)
          \/ CallFails /\ Err(done)
      BY DEF CheckInitJobs
    <2> HIDE DEF ready, next, chg
    <2>3. CASE FinalErr
      BY <2>3, FinalErrType
    <2>4. CASE Continue(next, Set("inited", ready), chg)
      BY <2>1, <2>4, ContinueType
    <2>5. CASE CallFails /\ Err(done)
      BY <2>1, <2>5, CallFailsType, ErrType
    <2> QED  BY <2>2, <2>3, <2>4, <2>5
  <1> QED
    BY <1>1 DEF TypeOK, CheckInitJobs, objects, caches, read, servers, runs,
        budget

LEMMA TypeCreateMigrationJobs == TypeOK /\ CreateMigrationJobs => TypeOK'
  <1> SUFFICES ASSUME TypeOK, CreateMigrationJobs PROVE TypeOK'
    OBVIOUS
  <1> DEFINE wanted == IF base.st.enabled THEN Wanted(MigServices) ELSE {}
             listed == Listed(cache.mig)
             toDelete == listed \ wanted
             toCreate == wanted \ listed
             toUpdate == {s \in wanted \cap listed :
                            cache.mig[s].tag # base.want[s].tag}
             rejected == {s \in toDelete : mig[s] = Nothing}
                         \cup {s \in toUpdate : mig[s] # cache.mig[s]}
                         \cup {s \in toCreate : mig[s] # Nothing}
             none == toDelete \cup toCreate = {}
  <1>1. PICK A \in Prefixes(toDelete, toUpdate, toCreate) :
             /\ A \cap rejected = {}
             /\ mig' = [s \in Services |->
                          IF s \notin A THEN mig[s]
                          ELSE IF s \in toDelete THEN Nothing
                          ELSE IF s \in toCreate THEN NewMig(base.want[s].tag)
                          ELSE [mig[s] EXCEPT !.tag = base.want[s].tag]]
             /\ \/ Continue("migReady", Set("migrated", none), FALSE)
                \/ /\ Interrupted(A, toDelete, toUpdate, toCreate, rejected)
                   /\ Err(Set("migrated", TRUE))
    BY ZenonT(60) DEF CreateMigrationJobs
  <1>2. mig' \in [Services -> Maybe(MigObject)]
    <2> SUFFICES ASSUME NEW s \in Services PROVE mig'[s] \in Maybe(MigObject)
      BY <1>1
    <2>1. CASE s \notin A \/ s \in toDelete
      BY <1>1, <2>1 DEF TypeOK, Maybe
    <2>2. CASE s \in A /\ s \in toCreate
      <3>1. base.want[s] \in Want
        BY <2>2 DEF TypeOK, Wanted, Site, Maybe
      <3>2. NewMig(base.want[s].tag) \in MigObject
        BY <3>1 DEF NewMig, MigObject, Want, Maybe, JobStates
      <3> QED  BY <1>1, <2>2, <3>2 DEF Maybe
    <2>3. CASE s \in A /\ s \notin toDelete /\ s \notin toCreate
      <3>1. s \in toUpdate
        BY <2>3, <1>1 DEF Prefixes
      <3>2. base.want[s] \in Want
        BY <3>1 DEF TypeOK, Wanted, Site, Maybe
      <3>3. cache.mig[s] # Nothing
        BY <3>1 DEF Listed
      <3>4. mig[s] \in MigObject
        BY <1>1, <2>3, <3>1, <3>3 DEF TypeOK, Maybe
      <3>5. [mig[s] EXCEPT !.tag = base.want[s].tag] \in MigObject
        BY <3>2, <3>4 DEF MigObject, Want
      <3> QED  BY <1>1, <2>3, <3>5 DEF Maybe
    <2> QED  BY <2>1, <2>2, <2>3
  <1>3. /\ pc' \in Stages /\ done' \subseteq Flags /\ state' \in SiteStates
        /\ changed' \in BOOLEAN /\ requeue' \in BOOLEAN
        /\ faultsLeft' \in 0..MaxFaults
    <2> HIDE DEF wanted, listed, toDelete, toCreate, toUpdate, rejected, none
    <2>1. /\ "migReady" \in Stages
          /\ Set("migrated", none) \in SUBSET Flags
          /\ Set("migrated", TRUE) \in SUBSET Flags
      BY SetType DEF Stages, Flags
    <2>2. CASE Continue("migReady", Set("migrated", none), FALSE)
      BY <2>1, <2>2, ContinueType
    <2>3. CASE /\ Interrupted(A, toDelete, toUpdate, toCreate, rejected)
               /\ Err(Set("migrated", TRUE))
      BY <2>1, <2>3, InterruptedType, ErrType
    <2> QED  BY <1>1, <2>2, <2>3
  <1> QED
    BY <1>2, <1>3 DEF TypeOK, CreateMigrationJobs, caches, read, servers,
        runs, budget

LEMMA TypeCheckMigrationJobs == TypeOK /\ CheckMigrationJobs => TypeOK'
  <1> SUFFICES ASSUME TypeOK, CheckMigrationJobs PROVE TypeOK'
    OBVIOUS
  <1> DEFINE ready == "migrated" \in done /\ AllComplete(cache.mig)
             next == IF ready THEN "workloads" ELSE "save"
             chg == ready # ("migrated" \in base.st.done)
  <1>1. /\ pc' \in Stages /\ done' \subseteq Flags /\ state' \in SiteStates
        /\ changed' \in BOOLEAN /\ requeue' \in BOOLEAN
        /\ faultsLeft' \in 0..MaxFaults
    <2>1. /\ next \in Stages /\ chg \in BOOLEAN
          /\ Set("migrated", ready) \in SUBSET Flags
          /\ done \in SUBSET Flags
      BY SetType DEF Stages, Flags, TypeOK
    <2>2. \/ FinalErr
          \/ Continue(next, Set("migrated", ready), chg)
          \/ CallFails /\ Err(done)
      BY DEF CheckMigrationJobs
    <2> HIDE DEF ready, next, chg
    <2>3. CASE FinalErr
      BY <2>3, FinalErrType
    <2>4. CASE Continue(next, Set("migrated", ready), chg)
      BY <2>1, <2>4, ContinueType
    <2>5. CASE CallFails /\ Err(done)
      BY <2>1, <2>5, CallFailsType, ErrType
    <2> QED  BY <2>2, <2>3, <2>4, <2>5
  <1> QED
    BY <1>1 DEF TypeOK, CheckMigrationJobs, objects, caches, read, servers,
        runs,
                budget

LEMMA TypeUpdateWorkloads == TypeOK /\ UpdateWorkloads => TypeOK'
  <1> SUFFICES ASSUME TypeOK, UpdateWorkloads PROVE TypeOK'
    OBVIOUS
  <1> DEFINE wanted == IF base.st.enabled THEN Wanted(Services) ELSE {}
             listed == Listed(cache.dep)
             toDelete == listed \ wanted
             toUpdate == wanted \cap listed
             toCreate == wanted \ listed
             rejected == {s \in toDelete \cup toUpdate : dep[s] = Nothing}
                         \cup {s \in toCreate : dep[s] # Nothing}
             chg(health) == health \/ "workloads" \notin done
  <1>1. PICK A \in Prefixes(toDelete, toUpdate, toCreate) :
             /\ dep' = [s \in Services |->
                          IF s \notin A THEN dep[s]
                          ELSE IF s \in toDelete THEN Nothing
                          ELSE IF s \in toCreate THEN base.want[s]
                          ELSE Patched(dep[s], cache.dep[s], base.want[s])]
             /\ \/ \E health \in BOOLEAN :
                     Continue("network", Set("workloads", TRUE), chg(health))
                \/ /\ Interrupted(A, toDelete, toUpdate, toCreate, rejected)
                   /\ Err(done)
    BY ZenonT(60) DEF UpdateWorkloads
  <1>2. dep' \in [Services -> Maybe(Want)]
    <2> SUFFICES ASSUME NEW s \in Services PROVE dep'[s] \in Maybe(Want)
      BY <1>1
    <2>1. dep[s] \in Maybe(Want) /\ base.want[s] \in Maybe(Want)
          /\ Nothing \in Maybe(Want)
      BY DEF TypeOK, Site, Maybe
    <2> QED  BY <1>1, <2>1 DEF Patched
  <1>3. /\ pc' \in Stages /\ done' \subseteq Flags /\ state' \in SiteStates
        /\ changed' \in BOOLEAN /\ requeue' \in BOOLEAN
        /\ faultsLeft' \in 0..MaxFaults
    <2>1. /\ "network" \in Stages /\ \A health : chg(health) \in BOOLEAN
          /\ Set("workloads", TRUE) \in SUBSET Flags
          /\ done \in SUBSET Flags
      BY SetType DEF Stages, Flags, TypeOK
    <2> HIDE DEF wanted, listed, toDelete, toUpdate, toCreate, rejected, chg
    <2>2. CASE \E health \in BOOLEAN :
                 Continue("network", Set("workloads", TRUE), chg(health))
      <3>1. PICK health \in BOOLEAN :
              Continue("network", Set("workloads", TRUE), chg(health))
        BY <2>2
      <3>2. chg(health) \in BOOLEAN
        BY <2>1
      <3> QED  BY <2>1, <3>1, <3>2, ContinueType
    <2>3. CASE /\ Interrupted(A, toDelete, toUpdate, toCreate, rejected)
               /\ Err(done)
      BY <2>1, <2>3, InterruptedType, ErrType
    <2> QED  BY <1>1, <2>2, <2>3
  <1> QED
    BY <1>2, <1>3 DEF TypeOK, UpdateWorkloads, caches, read, servers, runs,
        budget

LEMMA TypeUpdateNetworking == TypeOK /\ UpdateNetworking => TypeOK'
  <1> SUFFICES ASSUME TypeOK, UpdateNetworking PROVE TypeOK'
    OBVIOUS
  <1> DEFINE wanted == IF base.st.enabled THEN Wanted(Services) ELSE {}
             toDelete == net \ wanted
             toCreate == wanted \ net
             chg == changed \/ "network" \notin done \/ state # "Complete"
  <1>1. PICK A \in Prefixes(toDelete, toCreate, {}) :
             /\ net' = (net \ (A \cap toDelete)) \cup (A \cap toCreate)
             /\ \/ /\ pc' = "save" /\ done' = Set("network", TRUE)
                   /\ state' = "Complete" /\ changed' = chg
                   /\ UNCHANGED <<requeue, faultsLeft>>
                \/ /\ Interrupted(A, toDelete, toCreate, {}, {})
                   /\ Err(done)
    BY DEF UpdateNetworking
  <1>2. net' \subseteq Services
    <2>1. wanted \subseteq Services
      BY DEF Wanted
    <2> QED  BY <1>1, <2>1 DEF TypeOK
  <1>3. /\ pc' \in Stages /\ done' \subseteq Flags /\ state' \in SiteStates
        /\ changed' \in BOOLEAN /\ requeue' \in BOOLEAN
        /\ faultsLeft' \in 0..MaxFaults
    <2>1. /\ "save" \in Stages /\ "Complete" \in SiteStates /\ chg \in BOOLEAN
          /\ Set("network", TRUE) \in SUBSET Flags
          /\ done \in SUBSET Flags
      BY SetType DEF Stages, SiteStates, Flags, TypeOK
    <2> HIDE DEF wanted, toDelete, toCreate, chg
    <2>2. CASE /\ pc' = "save" /\ done' = Set("network", TRUE)
               /\ state' = "Complete" /\ changed' = chg
               /\ UNCHANGED <<requeue, faultsLeft>>
      BY <2>1, <2>2 DEF TypeOK
    <2>3. CASE /\ Interrupted(A, toDelete, toCreate, {}, {})
               /\ Err(done)
      BY <2>1, <2>3, InterruptedType, ErrType
    <2> QED  BY <1>1, <2>2, <2>3
  <1> QED
    BY <1>2, <1>3 DEF TypeOK, UpdateNetworking, caches, read, servers, runs,
        budget

LEMMA TypeSaveStatus == TypeOK /\ SaveStatus => TypeOK'
  <1> SUFFICES ASSUME TypeOK, SaveStatus PROVE TypeOK'
    OBVIOUS
  <1> DEFINE st == [applied |-> TRUE, enabled |-> base.enabled, done |-> done,
                    state |-> SetSiteState]
  <1>1. st \in Status
    BY DEF TypeOK, Site, Status, SetSiteState, SiteStates
  <1>2. \/ site' = site
        \/ site' = [want |-> site.want, enabled |-> site.enabled, st |-> st]
    BY DEF SaveStatus
  <1>3. site' \in Site
    <2> HIDE DEF st
    <2> QED  BY <1>1, <1>2 DEF TypeOK, Site
  <1>4. /\ siteFresh' \in BOOLEAN /\ queued' \in BOOLEAN
        /\ faultsLeft' \in 0..MaxFaults
    <2>1. siteFresh' \in BOOLEAN
      BY Zenon DEF TypeOK, SaveStatus
    <2>2. queued' \in BOOLEAN
      BY Zenon DEF TypeOK, SaveStatus
    <2>3. faultsLeft' \in 0..MaxFaults
      BY CallFailsType DEF TypeOK, SaveStatus
    <2> QED  BY <2>1, <2>2, <2>3
  <1> QED
    BY <1>3, <1>4, ReturnType DEF TypeOK, SaveStatus, objects, servers, runs,
        budget

LEMMA TypeCrash == TypeOK /\ Crash => TypeOK'
  <1> SUFFICES ASSUME TypeOK, Crash PROVE TypeOK'
    OBVIOUS
  <1>1. siteCache' \in Site /\ cache' \in CacheState
    BY DEF TypeOK, Crash, CacheState
  <1>2. siteFresh' \in BOOLEAN /\ queued' \in BOOLEAN
    BY Zenon DEF Crash
  <1> QED
    BY <1>1, <1>2, ReturnType, CallFailsType
    DEF TypeOK, Crash, objects, servers, runs, budget

LEMMA TypeSync == TypeOK /\ Sync => TypeOK'
  <1> SUFFICES ASSUME TypeOK, Sync PROVE TypeOK'
    OBVIOUS
  <1>1. queued' \in BOOLEAN /\ siteFresh' \in BOOLEAN
    BY Zenon DEF TypeOK, Sync, SyncSite, SyncDb, SyncIni, SyncMig, SyncDep,
                 Owned
  <1>2. siteCache' \in Site
    BY DEF TypeOK, Sync, SyncSite, SyncDb, SyncIni, SyncMig, SyncDep, Owned
  <1>3. cache' \in CacheState
    <2>1. CASE SyncSite
      BY <2>1 DEF TypeOK, SyncSite
    <2>2. CASE SyncDb
      BY <2>2 DEF TypeOK, SyncDb, Owned, CacheState
    <2>3. CASE SyncIni
      BY <2>3 DEF TypeOK, SyncIni, Owned, CacheState
    <2>4. CASE SyncMig
      BY <2>4 DEF TypeOK, SyncMig, Owned, CacheState
    <2>5. CASE SyncDep
      BY <2>5 DEF TypeOK, SyncDep, Owned, CacheState
    <2> QED  BY <2>1, <2>2, <2>3, <2>4, <2>5 DEF Sync
  <1>4. UNCHANGED <<site, objects, servers, pc, read, copy, budget,
      faultsLeft>>
    BY DEF Sync, SyncSite, SyncDb, SyncIni, SyncMig, SyncDep, Owned
  <1> QED
    BY <1>1, <1>2, <1>3, <1>4
    DEF TypeOK, objects, servers, runs, read, copy, budget

(***************************************************************************)
(* The controllers of the child objects.                                   *)
(***************************************************************************)
LEMMA TypeDbController ==
    ASSUME TypeOK, NEW s \in Services, DbController(s)
    PROVE  TypeOK'
  <1>1. db[s] \in DbObject
    BY DEF TypeOK, Maybe, DbController, ClaimDb, ProvisionDb, DropDb
  <1>2. CASE ClaimDb(s)
    <2>1. [db[s] EXCEPT !.state = "Claimed"] \in Maybe(DbObject)
      BY <1>1 DEF DbObject, Maybe
    <2>2. db' \in [Services -> Maybe(DbObject)]
      BY <1>2, <2>1 DEF TypeOK, ClaimDb
    <2> QED
      BY <1>2, <2>2 DEF TypeOK, ClaimDb, reconciler, caches, read, copy,
                        servers, runs, budget
  <1>3. CASE ProvisionDb(s)
    <2>1. [db[s] EXCEPT !.state = "Complete"] \in Maybe(DbObject)
      BY <1>1 DEF DbObject, Maybe
    <2>2. db' \in [Services -> Maybe(DbObject)]
      BY <1>3, <2>1 DEF TypeOK, ProvisionDb
    <2>3. existing' \subseteq Services \X Envs
      BY <1>1, <1>3 DEF TypeOK, ProvisionDb, DbObject
    <2>4. faultsLeft' \in 0..MaxFaults
      BY <1>3, CallFailsType DEF TypeOK, ProvisionDb
    <2> QED
      BY <1>3, <2>2, <2>3, <2>4
      DEF TypeOK, ProvisionDb, runs, reconciler, caches, read, copy, budget
  <1>4. CASE DropDb(s)
    <2>1. db' \in [Services -> Maybe(DbObject)]
      BY <1>4 DEF TypeOK, DropDb, Maybe
    <2>2. /\ existing' \subseteq existing /\ inited' \subseteq inited
          /\ migrated' \subseteq migrated
      BY <1>4 DEF DropDb
    <2>3. faultsLeft' \in 0..MaxFaults
      BY <1>4, CallFailsType DEF TypeOK, DropDb
    <2> QED
      BY <1>4, <2>1, <2>2, <2>3
      DEF TypeOK, DropDb, runs, reconciler, caches, read, copy, budget
  <1> QED
    BY <1>2, <1>3, <1>4 DEF DbController

LEMMA TypeInitController ==
    ASSUME TypeOK, NEW s \in Services, InitController(s)
    PROVE  TypeOK'
  <1>1. \A x \in {"Running", "Complete", "Failed"} :
          [state |-> x] \in Maybe(InitObject)
    BY DEF InitObject, JobStates, Maybe
  <1>2. CASE StartInit(s)
    <2>1. ini' \in [Services -> Maybe(InitObject)]
      BY <1>1, <1>2 DEF TypeOK, StartInit
    <2>2. initRun' \in [Services -> Maybe(InitRun)]
      <3>1. CASE UNCHANGED initRun
        BY <3>1 DEF TypeOK
      <3>2. CASE /\ siteCache.want[s] # Nothing
                 /\ initRun' = [initRun EXCEPT ![s] =
                      [env |-> siteCache.want[s].env, phase |-> "Active"]]
        <4>1. siteCache.want[s] \in Want
          BY <3>2 DEF TypeOK, Site, Maybe
        <4>2. [env |-> siteCache.want[s].env, phase |-> "Active"]
                \in Maybe(InitRun)
          BY <4>1 DEF InitRun, Want, Maybe
        <4> QED  BY <3>2, <4>2 DEF TypeOK
      <3> QED  BY <1>2, <3>1, <3>2 DEF StartInit
    <2>3. unsaved' \subseteq Services
      BY <1>2 DEF TypeOK, StartInit
    <2>4. faultsLeft' \in 0..MaxFaults
      BY <1>2, CallFailsType DEF TypeOK, StartInit
    <2> QED
      BY <1>2, <2>1, <2>2, <2>3, <2>4
      DEF TypeOK, StartInit, reconciler, caches, read, copy, budget
  <1>3. CASE FinishInit(s)
    <2>1. ini' \in [Services -> Maybe(InitObject)]
      <3>1. initRun[s] # Nothing /\ initRun[s].phase # "Active"
            => initRun[s].phase \in {"Complete", "Failed"}
        BY DEF TypeOK, Maybe, InitRun
      <3> QED  BY <1>1, <1>3, <3>1 DEF TypeOK, FinishInit
    <2>2. initRun' \in [Services -> Maybe(InitRun)]
      BY <1>3 DEF TypeOK, FinishInit, Maybe
    <2>3. faultsLeft' \in 0..MaxFaults
      BY <1>3, CallFailsType DEF TypeOK, FinishInit
    <2> QED
      BY <1>3, <2>1, <2>2, <2>3
      DEF TypeOK, FinishInit, reconciler, caches, read, copy, budget
  <1> QED
    BY <1>2, <1>3 DEF InitController

LEMMA TypeInitBatch ==
    ASSUME TypeOK, NEW s \in Services, InitBatch(s)
    PROVE  TypeOK'
  <1>1. initRun[s] \in InitRun
    BY DEF TypeOK, Maybe, InitBatch, RunInit, ExpireInit
  <1>2. initRun' \in [Services -> Maybe(InitRun)]
    <2>1. /\ [initRun[s] EXCEPT !.phase = "Complete"] \in Maybe(InitRun)
          /\ [initRun[s] EXCEPT !.phase = "Failed"] \in Maybe(InitRun)
          /\ Nothing \in Maybe(InitRun)
      BY <1>1 DEF InitRun, Maybe
    <2> QED  BY <2>1 DEF TypeOK, InitBatch, RunInit, ExpireInit
  <1>3. inited' \subseteq Services \X Envs
    BY <1>1 DEF TypeOK, InitBatch, RunInit, ExpireInit, InitRun
  <1>4. faultsLeft' \in 0..MaxFaults
    BY CallFailsType DEF TypeOK, InitBatch, RunInit, ExpireInit
  <1> QED
    BY <1>2, <1>3, <1>4
    DEF TypeOK, InitBatch, RunInit, ExpireInit, reconciler, caches, read, copy,
        budget

LEMMA TypeMigrationController ==
    ASSUME TypeOK, NEW s \in Services, MigrationController(s)
    PROVE  TypeOK'
  <1>1. mig[s] \in MigObject
    BY DEF TypeOK, Maybe, MigrationController, ResetMigration, StartMigration,
           FinishMigration
  <1>2. CASE ResetMigration(s)
    <2>1. [tag |-> mig[s].tag, last |-> mig[s].tag, state |-> "Pending",
           run |-> Nothing] \in MigObject
      BY <1>1 DEF MigObject, JobStates, Maybe
    <2>2. mig' \in [Services -> Maybe(MigObject)]
      BY <1>2, <2>1 DEF TypeOK, ResetMigration, Maybe
    <2> QED
      BY <1>2, <2>2 DEF TypeOK, ResetMigration, reconciler, caches, read,
                        copy, servers, runs, budget
  <1>3. CASE StartMigration(s)
    <2>1. siteCache.want[s] \in Want
      BY <1>3 DEF TypeOK, StartMigration, Site, Maybe
    <2>2. [tag |-> mig[s].tag, last |-> mig[s].last, state |-> "Running",
           run |-> siteCache.want[s]] \in MigObject
      BY <1>1, <2>1 DEF MigObject, JobStates, Maybe
    <2>3. mig' \in [Services -> Maybe(MigObject)]
      BY <1>3, <2>2 DEF TypeOK, StartMigration, Maybe
    <2> QED
      BY <1>3, <2>3 DEF TypeOK, StartMigration, reconciler, caches, read,
                        copy, servers, runs, budget
  <1>4. CASE FinishMigration(s)
    <2>1. /\ [mig[s] EXCEPT !.state = "Complete"] \in Maybe(MigObject)
          /\ [mig[s] EXCEPT !.state = "Failed"] \in Maybe(MigObject)
      BY <1>1 DEF MigObject, JobStates, Maybe
    <2>2. mig' \in [Services -> Maybe(MigObject)]
      BY <1>4, <2>1 DEF TypeOK, FinishMigration
    <2>3. migrated' \subseteq Services \X Envs \X Tags
      <3>1. mig[s].run \in Want
        BY <1>1, <1>4 DEF FinishMigration, MigObject, Maybe
      <3> QED  BY <1>4, <3>1 DEF TypeOK, FinishMigration, Want
    <2>4. faultsLeft' \in 0..MaxFaults
      BY <1>4, CallFailsType DEF TypeOK, FinishMigration
    <2> QED
      BY <1>4, <2>2, <2>3, <2>4
      DEF TypeOK, FinishMigration, runs, reconciler, caches, read, copy, budget
  <1> QED
    BY <1>2, <1>3, <1>4 DEF MigrationController

(***************************************************************************)
(* The user.                                                               *)
(***************************************************************************)
LEMMA EditedType ==
    ASSUME TypeOK, NEW w \in [Services -> Maybe(Want)], NEW en \in BOOLEAN,
           NEW same \in BOOLEAN, Edited(w, en, same),
           edits' \in [Services -> SUBSET {"tag", "env", "removed", "toggled"}]
    PROVE  TypeOK'
  <1>1. [site.st EXCEPT !.applied = same /\ @] \in Status
    BY DEF TypeOK, Site, Status
  <1>2. site' \in Site
    BY <1>1 DEF Edited, Site
  <1>3. siteFresh' \in BOOLEAN /\ current' \in BOOLEAN
    BY Zenon DEF Edited
  <1>4. editsLeft' \in 0..MaxEdits
    BY DEF TypeOK, Edited
  <1> QED
    BY <1>2, <1>3, <1>4 DEF TypeOK, Edited, objects, servers, runs, copy

LEMMA TypeUser == TypeOK /\ User => TypeOK'
  <1> SUFFICES ASSUME TypeOK, User PROVE TypeOK'
    OBVIOUS
  <1>1. /\ site.want \in [Services -> Maybe(Want)] /\ site.enabled \in BOOLEAN
        /\ \A s \in Services : site.want[s] # Nothing => site.want[s] \in Want
    BY DEF TypeOK, Site, Maybe
  <1>2. ASSUME NEW s \in Services, NEW kind \in {"tag", "env", "removed"},
               Mark(s, kind)
        PROVE  edits' \in [Services -> SUBSET {"tag", "env", "removed", "toggled"}]
    BY <1>2 DEF TypeOK, Mark
  <1>3. ASSUME NEW s \in Services, NEW t \in Tags, EditTag(s, t)
        PROVE  TypeOK'
    <2>1. [site.want EXCEPT ![s] = [tag |-> t, env |-> site.want[s].env]]
             \in [Services -> Maybe(Want)]
      BY <1>1, <1>3 DEF EditTag, Want, Maybe
    <2> QED  BY <1>1, <1>2, <1>3, <2>1, EditedType DEF EditTag
  <1>4. ASSUME NEW s \in Services, NEW e \in Envs, EditEnv(s, e)
        PROVE  TypeOK'
    <2>1. [site.want EXCEPT ![s] = [tag |-> site.want[s].tag, env |-> e]]
             \in [Services -> Maybe(Want)]
      BY <1>1, <1>4 DEF EditEnv, Want, Maybe
    <2> QED  BY <1>1, <1>2, <1>4, <2>1, EditedType DEF EditEnv
  <1>5. ASSUME NEW s \in Services, RemoveService(s)
        PROVE  TypeOK'
    <2>1. [site.want EXCEPT ![s] = Nothing] \in [Services -> Maybe(Want)]
      BY <1>1 DEF Maybe
    <2> QED  BY <1>1, <1>2, <1>5, <2>1, EditedType DEF RemoveService
  <1>6. ASSUME NEW s \in Services, NEW w \in Want, AddService(s, w)
        PROVE  TypeOK'
    <2>1. [site.want EXCEPT ![s] = w] \in [Services -> Maybe(Want)]
      BY <1>1 DEF Maybe
    <2>2. edits' \in [Services -> SUBSET {"tag", "env", "removed", "toggled"}]
      BY <1>6 DEF TypeOK, AddService
    <2> QED  BY <1>1, <1>6, <2>1, <2>2, EditedType DEF AddService
  <1>7. ASSUME Toggle PROVE TypeOK'
    <2>1. edits' \in [Services -> SUBSET {"tag", "env", "removed", "toggled"}]
      BY <1>7 DEF TypeOK, Toggle
    <2>2. (~site.enabled) \in BOOLEAN
      OBVIOUS
    <2> QED  BY <1>1, <1>7, <2>1, <2>2, EditedType DEF Toggle
  <1> QED
    BY <1>3, <1>4, <1>5, <1>6, <1>7 DEF User

LEMMA TypeReconcile == TypeOK /\ Reconcile => TypeOK'
  BY TypeBegin, TypeCreateDatabases, TypeCheckDatabases, TypeUpdateConfigs,
     TypeCreateInitJobs, TypeCheckInitJobs, TypeCreateMigrationJobs,
     TypeCheckMigrationJobs, TypeUpdateWorkloads, TypeUpdateNetworking,
     TypeSaveStatus
  DEF Reconcile

LEMMA TypeStutter == TypeOK /\ UNCHANGED vars => TypeOK'
  BY DEF TypeOK, vars, objects, caches, read, copy, servers, runs, budget

LEMMA TypeNext == TypeOK /\ [Next]_vars => TypeOK'
  BY TypeReconcile, TypeCrash, TypeSync, TypeDbController, TypeInitController,
     TypeInitBatch, TypeMigrationController, TypeUser, TypeStutter
  DEF Next

\* Whatever the interleaving of the site reconciler, the child controllers,
\* the caches, crashes and the user, the API objects, the reconciler's copy
\* and the servers, runs' content stay well formed.
THEOREM TypeCorrect == Spec => []TypeOK
  BY TypeInit, TypeNext, PTL DEF Spec

-----------------------------------------------------------------------------
(***************************************************************************)
(* The gates: SteadyInv is inductive.  Each lemma takes one service s.     *)
(***************************************************************************)
LEMMA InvInit == Init => SteadyInv
  <1> SUFFICES ASSUME Init, NEW s \in Services PROVE Inv(s)
    BY DEF SteadyInv
  <1>1. /\ siteCache = site /\ base.want[s] = Nothing /\ pc = "idle"
        /\ db[s] = Nothing /\ ini[s] = Nothing /\ mig[s] = Nothing
        /\ dep[s] = Nothing /\ cache.db[s] = Nothing
        /\ cache.ini[s] = Nothing /\ inited = {} /\ initRun[s] = Nothing
    BY DEF Init, None, NoSite
  <1> QED
    BY <1>1 DEF Inv, CopiesAgree, ObjectsAreSeen, DbIsHonest, InitIsHonest,
                StageFacts, LaterObjects

\* A step that changes nothing Inv(s) speaks of.
LEMMA InvUntouched ==
    ASSUME NEW s \in Services, Inv(s), done' = done,
           site'.want[s] = site.want[s],
           UNCHANGED <<siteCache, base, pc, db, ini, mig, dep, cache>>,
           UNCHANGED <<existing, inited, initRun, unsaved>>
    PROVE  Inv(s)'
  BY DEF Inv, CopiesAgree, ObjectsAreSeen, DbIsHonest, InitIsHonest,
         StageFacts, LaterObjects

\* A stage that only reads.
LEMMA InvStage ==
    ASSUME NEW s \in Services, Inv(s), pc # "idle", pc' # "idle",
           UNCHANGED <<site, siteCache, base, db, ini, mig, dep, cache>>,
           UNCHANGED <<existing, inited, initRun, unsaved>>,
           StageFacts(s)'
    PROVE  Inv(s)'
  <1>1. CopiesAgree(s)' /\ ObjectsAreSeen(s)'
    BY DEF Inv, CopiesAgree, ObjectsAreSeen
  <1>2. DbIsHonest(s)' /\ InitIsHonest(s)' /\ LaterObjects(s)'
    BY DEF Inv, DbIsHonest, InitIsHonest, LaterObjects
  <1> QED  BY <1>1, <1>2 DEF Inv

LEMMA InvBegin ==
    ASSUME TypeOK, NEW s \in Services, Inv(s), BeginReconcile
    PROVE  Inv(s)'
  <1>1. pc = "idle" /\ pc' \in {"create", "save"} /\ base' = siteCache
    BY DEF BeginReconcile
  <1>2. UNCHANGED <<site, db, ini, mig, dep, siteCache, cache, existing,
                    inited, initRun, unsaved>>
    BY DEF BeginReconcile, objects, caches, servers, runs
  <1> QED
    BY <1>1, <1>2 DEF Inv, CopiesAgree, ObjectsAreSeen, DbIsHonest,
                      InitIsHonest, StageFacts, LaterObjects

LEMMA InvCreateDatabases ==
    ASSUME TypeOK, NEW s \in Services, Inv(s), CreateDatabases
    PROVE  Inv(s)'
  <1>1. UNCHANGED <<site, ini, mig, dep, siteCache, cache, base, existing,
                    inited, initRun, unsaved>>
        /\ pc = "create"
    BY DEF CreateDatabases, caches, read, servers, runs
  <1> DEFINE wanted == Wanted(DbServices)
             listed == Listed(cache.db)
             toDelete == listed \ wanted
             toCreate == wanted \ listed
             toUpdate == {x \in wanted \cap listed :
                            cache.db[x].env # base.want[x].env}
             rejected == {x \in toDelete : db[x] = Nothing}
                         \cup {x \in toCreate : db[x] # Nothing}
                         \cup {x \in toUpdate : db[x] # cache.db[x]}
  <1>2. PICK A \in Prefixes(toDelete, toCreate, toUpdate) :
             /\ A \cap rejected = {}
             /\ db' = [x \in Services |->
                         IF x \notin A THEN db[x]
                         ELSE IF x \in toDelete THEN Deleted(db[x])
                         ELSE IF x \in toCreate THEN NewDb(base.want[x].env)
                         ELSE [db[x] EXCEPT !.env = base.want[x].env]]
             /\ \/ /\ A = toDelete \cup toCreate \cup toUpdate
                   /\ Continue("ready", Set("created", A = {}), FALSE)
                \/ Err(Set("created", TRUE))
    BY DEF CreateDatabases
  <1>3. \/ db'[s] = db[s]
        \/ /\ db[s] = Nothing /\ db'[s] = NewDb(site.want[s].env)
           /\ s \in DbServices /\ base.want[s] # Nothing
    <2>1. s \notin toDelete
      BY <1>1 DEF Inv, ObjectsAreSeen, DbIsHonest, Listed, Wanted
    <2>2. CASE s \in toCreate
      BY <1>2, <2>1, <2>2 DEF Inv, CopiesAgree, Wanted
    <2>3. CASE s \in toUpdate /\ s \in A
      <3>1. /\ db[s] = cache.db[s] /\ base.want[s] # Nothing
            /\ cache.db[s].env # base.want[s].env /\ cache.db[s] # Nothing
        BY <1>2, <2>3 DEF Wanted, Listed
      <3> QED  BY <3>1 DEF Inv, CopiesAgree, DbIsHonest
    <2> QED  BY <1>2, <2>1, <2>2, <2>3 DEF Prefixes
  <1>4. pc' \in {"ready", "save"}
    BY <1>2 DEF Continue, Err
  <1>5. pc' = "ready" /\ "created" \in done' /\ base.want[s] # Nothing
        /\ s \in DbServices => cache.db[s] # Nothing
    BY <1>2 DEF Continue, Err, Set, Wanted, Listed
  <1> HIDE DEF wanted, listed, toDelete, toCreate, toUpdate, rejected
  <1>6. DbIsHonest(s)'
    BY <1>1, <1>3 DEF Inv, DbIsHonest, NewDb
  <1> QED
    BY <1>1, <1>3, <1>4, <1>5, <1>6
    DEF Inv, CopiesAgree, ObjectsAreSeen, InitIsHonest, StageFacts,
        LaterObjects

LEMMA InvCheckDatabases ==
    ASSUME TypeOK, NEW s \in Services, Inv(s), CheckDatabases
    PROVE  Inv(s)'
  <1>1. UNCHANGED <<site, db, ini, mig, dep, siteCache, cache, base, existing,
                    inited, initRun, unsaved>>
        /\ pc = "ready" /\ pc' \in {"configs", "save"}
    BY DEF CheckDatabases, objects, caches, read, servers, runs, Continue, Err
  <1>2. pc' = "configs" /\ "created" \in done' /\ base.want[s] # Nothing
        /\ s \in DbServices => <<s, site.want[s].env>> \in existing
    <2> SUFFICES ASSUME pc' = "configs", "created" \in done',
                        base.want[s] # Nothing, s \in DbServices
                 PROVE  <<s, site.want[s].env>> \in existing
      OBVIOUS
    <2>1. "created" \in done /\ AllComplete(cache.db)
      BY DEF CheckDatabases, Continue, Err, Set
    <2>2. cache.db[s] # Nothing
      BY <1>1, <2>1 DEF Inv, StageFacts
    <2> QED  BY <2>1, <2>2 DEF AllComplete, Listed, Inv, DbIsHonest
  <1>3. StageFacts(s)'
    BY <1>1, <1>2 DEF Inv, StageFacts
  <1> QED
    BY <1>1, <1>2, <1>3, InvStage

LEMMA InvUpdateConfigs ==
    ASSUME TypeOK, NEW s \in Services, Inv(s), UpdateConfigs
    PROVE  Inv(s)'
  <1>1. UNCHANGED <<site, db, ini, mig, dep, siteCache, cache, base, existing,
                    inited, initRun, unsaved>>
        /\ pc = "configs"
    BY DEF UpdateConfigs, caches, read, servers, runs
  <1>2. pc' \in {"initCreate", "save"} /\ (pc' = "initCreate" => "created" \in done)
    BY DEF UpdateConfigs, Continue, Err
  <1>3. StageFacts(s)'
    BY <1>1, <1>2 DEF Inv, StageFacts
  <1> QED
    BY <1>1, <1>2, <1>3, InvStage

LEMMA InvCreateInitJobs ==
    ASSUME TypeOK, NEW s \in Services, Inv(s), CreateInitJobs
    PROVE  Inv(s)'
  <1>1. UNCHANGED <<site, db, mig, dep, siteCache, cache, base, existing,
                    inited, unsaved>>
        /\ pc = "initCreate"
    BY DEF CreateInitJobs, caches, read, servers, runs
  <1> DEFINE wanted == Wanted(InitServices)
             listed == Listed(cache.ini)
             toDelete == listed \ wanted
             toCreate == wanted \ listed
             rejected == {x \in toDelete : ini[x] = Nothing}
                         \cup {x \in toCreate : ini[x] # Nothing}
  <1>2. PICK A \in Prefixes(toDelete, toCreate, {}) :
             /\ A \cap rejected = {}
             /\ ini' = [x \in Services |->
                          IF x \notin A THEN ini[x]
                          ELSE IF x \in toDelete THEN Nothing ELSE NewInit]
             /\ initRun' = [x \in Services |->
                              IF x \in A \cap toDelete THEN Nothing
                              ELSE initRun[x]]
             /\ \/ /\ A = toDelete \cup toCreate
                   /\ Continue("initReady", Set("inited", A = {}), FALSE)
                \/ Err(Set("inited", TRUE))
    BY DEF CreateInitJobs
  <1>3. /\ initRun'[s] = initRun[s]
        /\ \/ ini'[s] = ini[s]
           \/ /\ ini[s] = Nothing /\ ini'[s] = NewInit /\ NewInit # Nothing
              /\ s \in InitServices /\ base.want[s] # Nothing
    <2>1. s \notin toDelete
      BY <1>1 DEF Inv, ObjectsAreSeen, InitIsHonest, Listed, Wanted
    <2>2. NewInit # Nothing
      BY DEF NewInit, InitObject, JobStates
    <2> QED  BY <1>2, <2>1, <2>2 DEF Prefixes, Wanted
  <1>4. pc' \in {"initReady", "save"}
    BY <1>2 DEF Continue, Err
  <1>5. pc' = "initReady" /\ "inited" \in done' /\ base.want[s] # Nothing
        /\ s \in InitServices => cache.ini[s] # Nothing
    BY <1>2 DEF Continue, Err, Set, Wanted, Listed
  <1> HIDE DEF wanted, listed, toDelete, toCreate, rejected
  <1>6. InitIsHonest(s)'
    <2>1. CASE ini'[s] = ini[s]
      BY <1>1, <1>3, <2>1 DEF Inv, InitIsHonest
    <2>2. CASE /\ ini[s] = Nothing /\ ini'[s] = NewInit
               /\ NewInit # Nothing /\ s \in InitServices
      <3>1. /\ initRun'[s] = Nothing /\ \A e \in Envs : <<s, e>> \notin inited
            /\ cache.ini[s] = Nothing
        BY <1>3, <2>2 DEF Inv, InitIsHonest
      <3>2. ini'[s] # Nothing /\ ini'[s].state = "Pending"
        BY <2>2 DEF NewInit
      <3> QED  BY <1>1, <2>2, <3>1, <3>2 DEF InitIsHonest
    <2> QED  BY <1>3, <2>1, <2>2
  <1> QED
    BY <1>1, <1>3, <1>4, <1>5, <1>6
    DEF Inv, CopiesAgree, ObjectsAreSeen, DbIsHonest, StageFacts, LaterObjects

LEMMA InvCheckInitJobs ==
    ASSUME TypeOK, NEW s \in Services, Inv(s), CheckInitJobs
    PROVE  Inv(s)'
  <1>1. UNCHANGED <<site, db, ini, mig, dep, siteCache, cache, base, existing,
                    inited, initRun, unsaved>>
        /\ pc = "initReady" /\ pc' \in {"migCreate", "save"}
    BY DEF CheckInitJobs, objects, caches, read, servers, runs, Continue, Err,
           FinalErr
  <1>2. pc' = "migCreate" /\ base.want[s] # Nothing /\ s \in InitServices
        => <<s, site.want[s].env>> \in inited
    <2> SUFFICES ASSUME pc' = "migCreate", base.want[s] # Nothing,
                        s \in InitServices
                 PROVE  <<s, site.want[s].env>> \in inited
      OBVIOUS
    <2>1. "inited" \in done /\ AllComplete(cache.ini)
      BY DEF CheckInitJobs, Continue, Err, FinalErr
    <2>2. cache.ini[s] # Nothing
      BY <1>1, <2>1 DEF Inv, StageFacts
    <2> QED  BY <2>1, <2>2 DEF AllComplete, Listed, Inv, InitIsHonest
  <1>3. StageFacts(s)'
    BY <1>1, <1>2 DEF Inv, StageFacts
  <1> QED
    BY <1>1, <1>2, <1>3, InvStage

LEMMA InvCreateMigrationJobs ==
    ASSUME TypeOK, NEW s \in Services, Inv(s), CreateMigrationJobs
    PROVE  Inv(s)'
  <1>1. UNCHANGED <<site, db, ini, dep, siteCache, cache, base, existing,
                    inited, initRun, unsaved>>
        /\ pc = "migCreate" /\ pc' \in {"migReady", "save"}
    BY DEF CreateMigrationJobs, caches, read, servers, runs, Continue, Err
  <1> DEFINE wanted == IF base.st.enabled THEN Wanted(MigServices) ELSE {}
             listed == Listed(cache.mig)
             toDelete == listed \ wanted
             toCreate == wanted \ listed
             toUpdate == {x \in wanted \cap listed :
                            cache.mig[x].tag # base.want[x].tag}
             rejected == {x \in toDelete : mig[x] = Nothing}
                         \cup {x \in toUpdate : mig[x] # cache.mig[x]}
                         \cup {x \in toCreate : mig[x] # Nothing}
  <1>2. PICK A \in Prefixes(toDelete, toUpdate, toCreate) :
             /\ A \cap rejected = {}
             /\ mig' = [x \in Services |->
                          IF x \notin A THEN mig[x]
                          ELSE IF x \in toDelete THEN Nothing
                          ELSE IF x \in toCreate THEN NewMig(base.want[x].tag)
                          ELSE [mig[x] EXCEPT !.tag = base.want[x].tag]]
    BY DEF CreateMigrationJobs
  <1>3. \/ mig'[s] = mig[s] \/ mig'[s] = Nothing
        \/ mig'[s] = NewMig(base.want[s].tag) /\ base.want[s] # Nothing
        \/ mig[s] # Nothing /\ mig'[s] = [mig[s] EXCEPT !.tag = base.want[s].tag]
    <2>1. CASE s \in toUpdate /\ s \in A
      BY <1>2, <2>1 DEF Listed
    <2> QED  BY <1>2, <2>1 DEF Prefixes, Wanted
  <1> HIDE DEF wanted, listed, toDelete, toCreate, toUpdate, rejected
  <1>4. mig'[s] # Nothing =>
          /\ site.want[s] # Nothing
          /\ s \in InitServices => <<s, site.want[s].env>> \in inited
          /\ mig'[s].state = "Running" => mig'[s].run.env = site.want[s].env
    <2>1. CASE mig'[s] = NewMig(base.want[s].tag) /\ base.want[s] # Nothing
      BY <1>1, <2>1 DEF Inv, CopiesAgree, StageFacts, NewMig
    <2>2. CASE mig[s] # Nothing
               /\ mig'[s] = [mig[s] EXCEPT !.tag = base.want[s].tag]
      <3>1. mig[s] \in MigObject
        BY <2>2 DEF TypeOK, Maybe
      <3>2. mig'[s].state = mig[s].state /\ mig'[s].run = mig[s].run
        BY <2>2, <3>1 DEF MigObject
      <3> QED  BY <2>2, <3>2 DEF Inv, LaterObjects
    <2> QED  BY <1>3, <2>1, <2>2 DEF Inv, LaterObjects
  <1> QED
    BY <1>1, <1>4 DEF Inv, CopiesAgree, ObjectsAreSeen, DbIsHonest,
                      InitIsHonest, StageFacts, LaterObjects

LEMMA InvCheckMigrationJobs ==
    ASSUME TypeOK, NEW s \in Services, Inv(s), CheckMigrationJobs
    PROVE  Inv(s)'
  <1>1. UNCHANGED <<site, db, ini, mig, dep, siteCache, cache, base, existing,
                    inited, initRun, unsaved>>
        /\ pc = "migReady" /\ pc' \in {"workloads", "save"}
    BY DEF CheckMigrationJobs, objects, caches, read, servers, runs, Continue,
        Err,
           FinalErr
  <1>2. StageFacts(s)'
    BY <1>1 DEF Inv, StageFacts
  <1> QED
    BY <1>1, <1>2, InvStage

LEMMA InvUpdateWorkloads ==
    ASSUME TypeOK, NEW s \in Services, Inv(s), UpdateWorkloads
    PROVE  Inv(s)'
  <1>1. UNCHANGED <<site, db, ini, mig, siteCache, cache, base, existing,
                    inited, initRun, unsaved>>
        /\ pc = "workloads" /\ pc' \in {"network", "save"}
    BY DEF UpdateWorkloads, caches, read, servers, runs, Continue, Err
  <1> DEFINE wanted == IF base.st.enabled THEN Wanted(Services) ELSE {}
             listed == Listed(cache.dep)
             toDelete == listed \ wanted
             toUpdate == wanted \cap listed
             toCreate == wanted \ listed
             rejected == {x \in toDelete \cup toUpdate : dep[x] = Nothing}
                         \cup {x \in toCreate : dep[x] # Nothing}
  <1>2. PICK A \in Prefixes(toDelete, toUpdate, toCreate) :
             dep' = [x \in Services |->
                       IF x \notin A THEN dep[x]
                       ELSE IF x \in toDelete THEN Nothing
                       ELSE IF x \in toCreate THEN base.want[x]
                       ELSE Patched(dep[x], cache.dep[x], base.want[x])]
    BY DEF UpdateWorkloads
  <1>3. dep'[s] = dep[s] \/ dep'[s] = Nothing \/ dep'[s] = base.want[s]
    BY <1>2 DEF Patched
  <1> HIDE DEF wanted, listed, toDelete, toCreate, toUpdate, rejected
  <1> QED
    BY <1>1, <1>3 DEF Inv, CopiesAgree, ObjectsAreSeen, DbIsHonest,
                      InitIsHonest, StageFacts, LaterObjects

LEMMA InvUpdateNetworking ==
    ASSUME TypeOK, NEW s \in Services, Inv(s), UpdateNetworking
    PROVE  Inv(s)'
  <1>1. UNCHANGED <<site, db, ini, mig, dep, siteCache, cache, base, existing,
                    inited, initRun, unsaved>>
        /\ pc = "network" /\ pc' = "save"
    BY DEF UpdateNetworking, caches, read, servers, runs, Err
  <1>2. StageFacts(s)'
    BY <1>1 DEF Inv, StageFacts
  <1> QED
    BY <1>1, <1>2, InvStage

LEMMA InvSaveStatus ==
    ASSUME TypeOK, NEW s \in Services, Inv(s), SaveStatus
    PROVE  Inv(s)'
  <1>1. /\ UNCHANGED <<db, ini, mig, dep, siteCache, cache, existing,
                    inited, initRun, unsaved>>
        /\ pc' = "idle" /\ base'.want[s] = Nothing
    BY DEF SaveStatus, objects, servers, runs, Return, NoSite, None
  <1>2. site'.want = site.want
    BY DEF SaveStatus
  <1> QED
    BY <1>1, <1>2 DEF Inv, CopiesAgree, ObjectsAreSeen, DbIsHonest,
                      InitIsHonest, StageFacts, LaterObjects

LEMMA InvCrash ==
    ASSUME TypeOK, NEW s \in Services, Inv(s), Crash
    PROVE  Inv(s)'
  <1>1. /\ UNCHANGED <<site, db, ini, mig, dep, existing,
                    inited, initRun, unsaved>>
        /\ pc' = "idle" /\ base'.want[s] = Nothing /\ siteCache' = site
        /\ cache'.db = db /\ cache'.ini = ini
    BY DEF Crash, objects, servers, runs, Return, NoSite, None
  <1> QED
    BY <1>1 DEF Inv, CopiesAgree, ObjectsAreSeen, DbIsHonest, InitIsHonest,
                StageFacts, LaterObjects

LEMMA InvSync ==
    ASSUME TypeOK, NEW s \in Services, Inv(s), Sync
    PROVE  Inv(s)'
  <1>1. UNCHANGED <<site, db, ini, mig, dep, existing, inited, initRun,
      unsaved,
                    pc, base, done>>
    BY DEF Sync, SyncSite, SyncDb, SyncIni, SyncMig, SyncDep, Owned, objects,
           servers, runs, read, copy
  <1>2. siteCache' \in {siteCache, site}
    BY DEF Sync, SyncSite, SyncDb, SyncIni, SyncMig, SyncDep, Owned
  <1>3. cache'.db \in {cache.db, db} /\ cache'.ini \in {cache.ini, ini}
    BY DEF Sync, SyncSite, SyncDb, SyncIni, SyncMig, SyncDep, Owned, TypeOK,
           CacheState
  <1> QED
    BY <1>1, <1>2, <1>3 DEF Inv, CopiesAgree, ObjectsAreSeen, DbIsHonest,
                            InitIsHonest, StageFacts, LaterObjects

LEMMA InvDbController ==
    ASSUME TypeOK, NEW s \in Services, Inv(s), NEW r \in Services,
           DbController(r)
    PROVE  Inv(s)'
  <1>1. UNCHANGED <<site, ini, mig, dep, siteCache, cache, pc, base, done,
                    initRun, unsaved>>
    BY DEF DbController, ClaimDb, ProvisionDb, DropDb, reconciler, caches,
           read, copy, servers, runs
  <1>2. ~(DropDb(r) /\ r = s)
    BY DEF DropDb, Inv, DbIsHonest
  <1>3. \A e : <<s, e>> \in existing => <<s, e>> \in existing'
    BY <1>2 DEF DbController, ClaimDb, ProvisionDb, DropDb, servers, runs
  <1>4. \A e : <<s, e>> \in inited <=> <<s, e>> \in inited'
    BY <1>2 DEF DbController, ClaimDb, ProvisionDb, DropDb, servers, runs
  <1>5. \/ db'[s] = db[s]
        \/ /\ db[s] # Nothing /\ db'[s] # Nothing
           /\ db'[s].env = db[s].env /\ db'[s].deleting = db[s].deleting
           /\ db'[s].state = "Complete" => <<s, db[s].env>> \in existing'
    <2>1. CASE r # s
      BY <2>1 DEF DbController, ClaimDb, ProvisionDb, DropDb, TypeOK
    <2>2. CASE r = s
      <3>1. db[s] \in DbObject
        BY <2>2 DEF TypeOK, Maybe, DbController, ClaimDb, ProvisionDb, DropDb
      <3>2. \/ db'[s] = db[s]
            \/ db'[s] = [db[s] EXCEPT !.state = "Claimed"]
            \/ /\ db'[s] = [db[s] EXCEPT !.state = "Complete"]
               /\ <<s, db[s].env>> \in existing'
        BY <1>2, <2>2 DEF DbController, ClaimDb, ProvisionDb, TypeOK
      <3>3. db'[s] \in DbObject
        BY <3>1, <3>2 DEF DbObject
      <3> QED  BY <3>1, <3>2, <3>3 DEF DbObject
    <2> QED  BY <2>1, <2>2
  <1>6. DbIsHonest(s)'
    BY <1>1, <1>3, <1>5 DEF Inv, DbIsHonest
  <1>7. InitIsHonest(s)'
    BY <1>1, <1>4 DEF Inv, InitIsHonest
  <1>8. StageFacts(s)' /\ LaterObjects(s)'
    BY <1>1, <1>3, <1>4 DEF Inv, StageFacts, LaterObjects
  <1> QED
    BY <1>1, <1>5, <1>6, <1>7, <1>8 DEF Inv, CopiesAgree, ObjectsAreSeen

\* A step of the init controller or of a batch Job that keeps InitIsHonest.
LEMMA InvInitStep ==
    ASSUME NEW s \in Services, Inv(s), InitIsHonest(s)',
           UNCHANGED <<site, db, mig, dep, siteCache, cache, pc, base, done,
                       existing>>,
           ini[s] = Nothing <=> ini'[s] = Nothing, inited \subseteq inited'
    PROVE  Inv(s)'
  BY DEF Inv, CopiesAgree, ObjectsAreSeen, DbIsHonest, StageFacts, LaterObjects

LEMMA InvInitController ==
    ASSUME TypeOK, NEW s \in Services, Inv(s), NEW r \in Services,
           InitController(r)
    PROVE  Inv(s)'
  <1>1. UNCHANGED <<site, db, mig, dep, siteCache, cache, pc, base, done,
                    existing, inited>>
    BY DEF InitController, StartInit, FinishInit, reconciler, caches, read,
           copy
  <1>2. \A x \in JobStates : [state |-> x] # Nothing
    BY DEF InitObject
  <1>3. CASE r # s
    <2>1. /\ ini'[s] = ini[s] /\ initRun'[s] = initRun[s]
          /\ s \in unsaved' <=> s \in unsaved
      BY <1>3 DEF InitController, StartInit, FinishInit, TypeOK
    <2>2. InitIsHonest(s)'
      BY <1>1, <2>1 DEF Inv, InitIsHonest
    <2> QED  BY <1>1, <2>1, <2>2, InvInitStep
  <1>4. CASE r = s /\ StartInit(s)
    <2>1. ini[s] # Nothing /\ ini[s].state = "Pending" /\ unsaved \subseteq unsaved'
      BY <1>4 DEF StartInit
    <2>2. \/ ini'[s] = [state |-> "Running"]
          \/ ini'[s] = ini[s] /\ s \in unsaved'
      BY <1>4 DEF StartInit, TypeOK
    <2>3. ini'[s] # Nothing /\ (ini'[s].state = "Pending" => s \in unsaved')
          /\ ini'[s].state # "Complete"
      BY <1>2, <2>1, <2>2 DEF JobStates
    <2>4. \/ initRun'[s] = initRun[s]
          \/ /\ initRun'[s] = [env |-> site.want[s].env, phase |-> "Active"]
             /\ initRun[s] = Nothing
      BY <1>4 DEF StartInit, TypeOK, Inv, CopiesAgree
    <2>5. initRun'[s] # Nothing =>
            /\ initRun'[s].env = site.want[s].env
            /\ initRun'[s].phase = "Complete" =>
                 <<s, site.want[s].env>> \in inited
      BY <2>4 DEF Inv, InitIsHonest
    <2>6. InitIsHonest(s)'
      BY <1>1, <2>1, <2>3, <2>5 DEF Inv, InitIsHonest
    <2> QED  BY <1>1, <2>1, <2>3, <2>6, InvInitStep
  <1>5. CASE r = s /\ FinishInit(s)
    <2>1. ini[s] # Nothing /\ ini[s].state = "Running" /\ unsaved' = unsaved
      BY <1>5 DEF FinishInit
    <2>2. \/ ini'[s] = [state |-> "Failed"]
          \/ /\ initRun[s] # Nothing /\ initRun[s].phase # "Active"
             /\ ini'[s] = [state |-> initRun[s].phase]
      BY <1>5 DEF FinishInit, TypeOK
    <2>3. initRun[s] # Nothing /\ initRun[s].phase # "Active"
          => initRun[s].phase \in {"Complete", "Failed"}
      BY DEF TypeOK, Maybe, InitRun
    <2>4. /\ ini'[s] # Nothing /\ ini'[s].state # "Pending"
          /\ ini'[s].state = "Complete" => <<s, site.want[s].env>> \in inited
      BY <1>2, <2>2, <2>3 DEF JobStates, Inv, InitIsHonest
    <2>5. initRun'[s] \in {initRun[s], Nothing}
      BY <1>5 DEF FinishInit, TypeOK
    <2>6. InitIsHonest(s)'
      BY <1>1, <2>1, <2>4, <2>5 DEF Inv, InitIsHonest
    <2> QED  BY <1>1, <2>1, <2>4, <2>6, InvInitStep
  <1> QED
    BY <1>3, <1>4, <1>5 DEF InitController

LEMMA InvInitBatch ==
    ASSUME TypeOK, NEW s \in Services, Inv(s), NEW r \in Services, InitBatch(r)
    PROVE  Inv(s)'
  <1>1. UNCHANGED <<site, db, ini, mig, dep, siteCache, cache, pc, base, done,
                    existing, unsaved>>
        /\ inited \subseteq inited'
    BY DEF InitBatch, RunInit, ExpireInit, reconciler, caches, read, copy
  <1>2. CASE r # s
    <2>1. /\ initRun'[s] = initRun[s]
          /\ \A e : <<s, e>> \in inited' => <<s, e>> \in inited
      BY <1>2 DEF InitBatch, RunInit, ExpireInit, TypeOK
    <2>2. InitIsHonest(s)'
      BY <1>1, <2>1 DEF Inv, InitIsHonest
    <2> QED  BY <1>1, <2>2, InvInitStep
  <1>3. CASE r = s /\ RunInit(s)
    <2>1. /\ initRun[s] # Nothing /\ initRun[s].phase = "Active"
          /\ initRun[s] \in InitRun /\ initRun[s].env = site.want[s].env
          /\ ini[s] # Nothing /\ (ini[s].state = "Pending" => s \in unsaved)
      BY <1>3 DEF RunInit, TypeOK, Maybe, Inv, InitIsHonest
    <2>2. \/ /\ initRun'[s] = [initRun[s] EXCEPT !.phase = "Complete"]
             /\ inited' = inited \cup {<<s, initRun[s].env>>}
          \/ /\ initRun'[s] = [initRun[s] EXCEPT !.phase = "Failed"]
             /\ inited' = inited
      BY <1>3 DEF RunInit, TypeOK
    <2>3. /\ initRun'[s].env = site.want[s].env
          /\ initRun'[s].phase # "Active"
          /\ initRun'[s].phase = "Complete" =>
               <<s, site.want[s].env>> \in inited'
      BY <2>1, <2>2 DEF InitRun
    <2>4. InitIsHonest(s)'
      BY <1>1, <2>1, <2>3 DEF Inv, InitIsHonest
    <2> QED  BY <1>1, <2>4, InvInitStep
  <1>4. CASE r = s /\ ExpireInit(s)
    <2>1. initRun'[s] = Nothing /\ inited' = inited
      BY <1>4 DEF ExpireInit, TypeOK
    <2>2. InitIsHonest(s)'
      BY <1>1, <2>1 DEF Inv, InitIsHonest
    <2> QED  BY <1>1, <2>2, InvInitStep
  <1> QED
    BY <1>2, <1>3, <1>4 DEF InitBatch

LEMMA InvMigrationController ==
    ASSUME TypeOK, NEW s \in Services, Inv(s), NEW r \in Services,
           MigrationController(r)
    PROVE  Inv(s)'
  <1>1. UNCHANGED <<site, db, ini, dep, siteCache, cache, pc, base, done,
                    existing, inited, initRun, unsaved>>
    BY DEF MigrationController, ResetMigration, StartMigration,
           FinishMigration, reconciler, caches, read, copy, servers, runs
  <1>2. \/ mig'[s] = mig[s]
        \/ /\ mig[s] # Nothing
           /\ mig'[s].state = "Running" => mig'[s].run.env = site.want[s].env
    <2>1. CASE r # s
      BY <2>1 DEF MigrationController, ResetMigration, StartMigration,
                  FinishMigration, TypeOK
    <2>2. CASE r = s /\ (ResetMigration(s) \/ StartMigration(s))
      BY <2>2 DEF ResetMigration, StartMigration, TypeOK, Inv, CopiesAgree
    <2>3. CASE r = s /\ FinishMigration(s)
      <3>1. mig[s] # Nothing /\ mig[s] \in MigObject
        BY <2>3 DEF FinishMigration, TypeOK, Maybe
      <3>2. \/ mig'[s] = [mig[s] EXCEPT !.state = "Complete"]
            \/ mig'[s] = [mig[s] EXCEPT !.state = "Failed"]
        BY <2>3 DEF FinishMigration, TypeOK
      <3>3. mig'[s].state # "Running"
        BY <3>1, <3>2 DEF MigObject
      <3> QED  BY <3>1, <3>3
    <2> QED  BY <2>1, <2>2, <2>3 DEF MigrationController
  <1>3. CopiesAgree(s)' /\ ObjectsAreSeen(s)' /\ DbIsHonest(s)'
    BY <1>1, <1>2 DEF Inv, CopiesAgree, ObjectsAreSeen, DbIsHonest
  <1>4. InitIsHonest(s)' /\ StageFacts(s)' /\ LaterObjects(s)'
    BY <1>1, <1>2 DEF Inv, CopiesAgree, InitIsHonest, StageFacts, LaterObjects
  <1> QED
    BY <1>3, <1>4 DEF Inv

\* An edit keeps the environment and the place of a service that is still
\* Steady after it, and no service becomes Steady again.
LEMMA InvUser ==
    ASSUME TypeOK, NEW s \in Services, Inv(s), Steady(s)', User
    PROVE  Inv(s)'
  <1>1. UNCHANGED <<siteCache, base, pc, db, ini, mig, dep, cache, existing,
                    inited, initRun, unsaved, done>>
    BY DEF User, EditTag, EditEnv, RemoveService, AddService, Toggle, Edited,
           objects, servers, runs, copy
  <1>2. \/ site'.want[s] = site.want[s]
        \/ site.want[s] = Nothing
        \/ /\ site'.want[s] # Nothing /\ site'.want[s].env = site.want[s].env
    <2>0. site.want \in [Services -> Maybe(Want)]
      BY DEF TypeOK, Site
    <2>1. ASSUME NEW r \in Services, NEW t \in Tags, EditTag(r, t)
          PROVE  \/ site'.want[s] = site.want[s]
                 \/ /\ site'.want[s] # Nothing
                    /\ site'.want[s].env = site.want[s].env
      <3>1. site'.want = [site.want EXCEPT ![r] = [tag |-> t,
                                                 env |-> site.want[r].env]]
        BY <2>1 DEF EditTag, Edited
      <3>2. [tag |-> t, env |-> site.want[r].env] \in Want
        BY <2>0, <2>1 DEF EditTag, Want, Maybe
      <3> QED  BY <2>0, <3>1, <3>2
    <2>2. ASSUME NEW r \in Services, NEW e \in Envs, EditEnv(r, e)
          PROVE  site'.want[s] = site.want[s]
      <3>1. r # s
        BY <2>2 DEF EditEnv, Mark, Steady, TypeOK
      <3> QED  BY <2>0, <2>2, <3>1 DEF EditEnv, Edited
    <2>3. ASSUME NEW r \in Services, RemoveService(r)
          PROVE  site'.want[s] = site.want[s]
      <3>1. r # s
        BY <2>3 DEF RemoveService, Mark, Steady, TypeOK
      <3> QED  BY <2>0, <2>3, <3>1 DEF RemoveService, Edited
    <2>4. ASSUME NEW r \in Services, NEW w \in Want, AddService(r, w)
          PROVE  site'.want[s] = site.want[s] \/ site.want[s] = Nothing
      BY <2>0, <2>4 DEF AddService, Edited
    <2>5. ASSUME Toggle PROVE site'.want[s] = site.want[s]
      BY <2>5 DEF Toggle, Edited
    <2> QED  BY <2>1, <2>2, <2>3, <2>4, <2>5 DEF User
  <1>3. CASE site.want[s] = Nothing
    <2>1. /\ siteCache.want[s] = Nothing /\ base.want[s] = Nothing
          /\ db[s] = Nothing /\ ini[s] = Nothing /\ mig[s] = Nothing
          /\ dep[s] = Nothing /\ cache.db[s] = Nothing
          /\ cache.ini[s] = Nothing /\ initRun[s] = Nothing
          /\ \A e \in Envs : <<s, e>> \notin inited
      BY <1>3 DEF Inv, CopiesAgree, ObjectsAreSeen, DbIsHonest, InitIsHonest,
                  LaterObjects
    <2> QED
      BY <1>1, <2>1 DEF Inv, CopiesAgree, ObjectsAreSeen, DbIsHonest,
                        InitIsHonest, StageFacts, LaterObjects
  <1>4. CASE site.want[s] # Nothing
    BY <1>1, <1>2, <1>4 DEF Inv, CopiesAgree, ObjectsAreSeen, DbIsHonest,
                            InitIsHonest, StageFacts, LaterObjects
  <1> QED
    BY <1>3, <1>4

LEMMA InvReconcile ==
    ASSUME TypeOK, NEW s \in Services, Inv(s), Reconcile
    PROVE  Inv(s)'
  BY InvBegin, InvCreateDatabases, InvCheckDatabases, InvUpdateConfigs,
     InvCreateInitJobs, InvCheckInitJobs, InvCreateMigrationJobs,
     InvCheckMigrationJobs, InvUpdateWorkloads, InvUpdateNetworking,
     InvSaveStatus
  DEF Reconcile

\* No mark of an edit is ever taken back.
LEMMA EditsOnlyGrow ==
    ASSUME TypeOK, NEW s \in Services, [Next]_vars
    PROVE  edits[s] \subseteq edits'[s]
  <1>1. CASE UNCHANGED vars
    BY <1>1 DEF vars, budget
  <1>2. CASE User
    <2>1. edits \in [Services -> SUBSET {"tag", "env", "removed", "toggled"}]
      BY DEF TypeOK
    <2>2. ASSUME NEW r \in Services, NEW kind, Mark(r, kind)
          PROVE  edits[s] \subseteq edits'[s]
      BY <2>1, <2>2 DEF Mark
    <2>3. Toggle => edits[s] \subseteq edits'[s]
      BY DEF Toggle
    <2>4. \/ \E r \in Services : \E kind : Mark(r, kind)
          \/ Toggle \/ UNCHANGED edits
      BY Zenon, <1>2 DEF User, EditTag, EditEnv, RemoveService, AddService
    <2> QED  BY Zenon, <2>2, <2>3, <2>4
  <1>3. CASE Sync
    BY <1>3 DEF Sync, SyncSite, SyncDb, SyncIni, SyncMig, SyncDep, Owned,
                budget
  <1>4. CASE Reconcile
    BY <1>4 DEF Reconcile, BeginReconcile, CreateDatabases, CheckDatabases,
                UpdateConfigs, CreateInitJobs, CheckInitJobs,
                CreateMigrationJobs, CheckMigrationJobs, UpdateWorkloads,
                UpdateNetworking, SaveStatus, budget
  <1>5. CASE Crash
    BY <1>5 DEF Crash, budget
  <1>6. ASSUME NEW r \in Services,
               DbController(r) \/ InitController(r) \/ InitBatch(r)
                 \/ MigrationController(r)
        PROVE  edits' = edits
    BY <1>6 DEF DbController, ClaimDb, ProvisionDb, DropDb, InitController,
                StartInit, FinishInit, InitBatch,
                RunInit, ExpireInit, MigrationController, ResetMigration,
                StartMigration, FinishMigration, reconciler, budget
  <1> QED  BY <1>1, <1>2, <1>3, <1>4, <1>5, <1>6 DEF Next

\* A service that is Steady after a step was Steady before it.
LEMMA SteadyBackwards ==
    ASSUME TypeOK, NEW s \in Services, [Next]_vars, Steady(s)'
    PROVE  Steady(s)
  BY EditsOnlyGrow DEF Steady

LEMMA InvNext == TypeOK /\ SteadyInv /\ [Next]_vars => SteadyInv'
  <1> SUFFICES ASSUME TypeOK, SteadyInv, [Next]_vars,
                      NEW s \in Services, Steady(s)'
               PROVE  Inv(s)'
    BY DEF SteadyInv
  <1>1. Inv(s)
    BY SteadyBackwards DEF SteadyInv
  <1>2. CASE UNCHANGED vars
    BY <1>1, <1>2, InvUntouched DEF vars, objects, caches, read, copy,
        servers, runs
  <1>3. CASE Next
    BY <1>1, <1>3, InvReconcile, InvCrash, InvSync, InvDbController,
       InvInitController, InvInitBatch, InvMigrationController, InvUser
    DEF Next
  <1> QED
    BY <1>2, <1>3

\* For a service that keeps its environment and its place in the site, no
\* interleaving makes the objects, the caches or the reconcile in progress
\* promise more than the database servers, runs hold.
THEOREM SteadyInvHolds == Spec => []SteadyInv
  BY TypeInit, TypeNext, InvInit, InvNext, PTL DEF Spec

\* The gates before the workloads work: a Deployment runs only against a
\* database that exists and has been initialised.
THEOREM DeployedAfterInit == Spec => []DeployedDbIsInitialised
  <1>1. SteadyInv => DeployedDbIsInitialised
    BY DEF SteadyInv, DeployedDbIsInitialised, Inv, LaterObjects, Running
  <1> QED
    BY <1>1, SteadyInvHolds, PTL

\* No interleaving of the reconciler, its stale lists, crashes and the user
\* makes a batch Job run the init of a service that keeps its place on a
\* database that is already initialised; only a lost save of "Running" can.
THEOREM InitJobRunsOnce == Spec => []InitRunsOnce
  <1>1. TypeOK /\ SteadyInv => InitRunsOnce
    <2> SUFFICES ASSUME TypeOK, SteadyInv, NEW s \in InitServices,
                        Steady(s), s \notin unsaved,
                        initRun[s] # Nothing, initRun[s].phase = "Active",
                        <<s, initRun[s].env>> \in inited
                 PROVE  FALSE
      BY DEF InitRunsOnce
    <2>1. Inv(s) /\ initRun[s].env \in Envs
      BY DEF SteadyInv, TypeOK, Maybe, InitRun
    <2> QED  BY <2>1 DEF Inv, InitIsHonest
  <1> QED
    BY <1>1, TypeCorrect, SteadyInvHolds, PTL

\* The database controller drops a database only when the user asked for it.
THEOREM DropsOnlyWhenAsked == Spec => DropsAreWanted
  <1>1. TypeOK /\ SteadyInv /\ [Next]_vars
        => [\A s \in Services, e \in Envs :
              <<s, e>> \in existing \ existing' => ~Steady(s)]_vars
    <2> SUFFICES ASSUME SteadyInv, Next, NEW s \in Services, NEW e \in Envs,
                        <<s, e>> \in existing \ existing', Steady(s)
                 PROVE  FALSE
      OBVIOUS
    <2>1. PICK r \in Services : DropDb(r)
      <3>1. CASE Sync
        BY <3>1 DEF Sync, SyncSite, SyncDb, SyncIni, SyncMig, SyncDep, Owned,
                    servers, runs
      <3>2. CASE Reconcile
        BY <3>2 DEF Reconcile, BeginReconcile, CreateDatabases,
                    CheckDatabases, UpdateConfigs, CreateInitJobs,
                    CheckInitJobs, CreateMigrationJobs, CheckMigrationJobs,
                    UpdateWorkloads, UpdateNetworking, SaveStatus, servers, runs
      <3>3. CASE Crash
        BY <3>3 DEF Crash, servers, runs
      <3>4. CASE User
        BY <3>4 DEF User, EditTag, EditEnv, RemoveService, AddService, Toggle,
                    Edited, servers, runs
      <3>5. ASSUME NEW x \in Services,
                   DbController(x) \/ InitController(x) \/ InitBatch(x)
                 \/ MigrationController(x)
            PROVE  DropDb(x)
        BY <3>5 DEF DbController, ClaimDb, ProvisionDb, InitController,
                    StartInit, FinishInit, InitBatch,
                RunInit, ExpireInit, MigrationController, ResetMigration,
                    StartMigration, FinishMigration, servers, runs
      <3> QED  BY <3>1, <3>2, <3>3, <3>4, <3>5 DEF Next
    <2>2. r = s /\ db[s] # Nothing /\ db[s].deleting
      BY <2>1 DEF DropDb
    <2> QED  BY <2>2 DEF SteadyInv, Inv, DbIsHonest
  <1> QED
    BY <1>1, TypeCorrect, SteadyInvHolds, PTL DEF Spec, DropsAreWanted

\* No migration runs before the service's init job is really done.
THEOREM MigrationAfterInit == Spec => MigrationsFollowInit
  <1> DEFINE Follows == \A s \in InitServices, e \in Envs, t \in Tags :
                          <<s, e, t>> \in migrated' \ migrated /\ Steady(s)
                          => <<s, e>> \in existing /\ <<s, e>> \in inited
  <1>1. TypeOK /\ SteadyInv /\ [Next]_vars => [Follows]_vars
    <2> SUFFICES ASSUME TypeOK, SteadyInv, Next, NEW s \in InitServices,
                        NEW e \in Envs, NEW t \in Tags,
                        <<s, e, t>> \in migrated' \ migrated, Steady(s)
                 PROVE  <<s, e>> \in existing /\ <<s, e>> \in inited
      OBVIOUS
    <2>1. PICK r \in Services : FinishMigration(r)
      <3>1. CASE Sync
        BY <3>1 DEF Sync, SyncSite, SyncDb, SyncIni, SyncMig, SyncDep, Owned,
                    servers, runs
      <3>2. CASE Reconcile
        BY <3>2 DEF Reconcile, BeginReconcile, CreateDatabases,
                    CheckDatabases, UpdateConfigs, CreateInitJobs,
                    CheckInitJobs, CreateMigrationJobs, CheckMigrationJobs,
                    UpdateWorkloads, UpdateNetworking, SaveStatus, servers, runs
      <3>3. CASE Crash
        BY <3>3 DEF Crash, servers, runs
      <3>4. CASE User
        BY <3>4 DEF User, EditTag, EditEnv, RemoveService, AddService, Toggle,
                    Edited, servers, runs
      <3>5. ASSUME NEW x \in Services,
                   DbController(x) \/ InitController(x) \/ InitBatch(x)
                 \/ MigrationController(x)
            PROVE  FinishMigration(x)
        BY <3>5 DEF DbController, ClaimDb, ProvisionDb, DropDb, InitController,
                    StartInit, FinishInit, InitBatch,
                RunInit, ExpireInit, MigrationController, ResetMigration,
                    StartMigration, servers, runs
      <3> QED  BY <3>1, <3>2, <3>3, <3>4, <3>5 DEF Next
    <2>2. /\ r = s /\ mig[s] # Nothing /\ mig[s].state = "Running"
          /\ mig[s].run.env = e /\ <<s, e>> \in existing
      BY <2>1 DEF FinishMigration
    <2> QED  BY <2>2 DEF SteadyInv, Inv, LaterObjects
  <1> QED
    BY <1>1, TypeCorrect, SteadyInvHolds, PTL DEF Spec, MigrationsFollowInit
-----------------------------------------------------------------------------
(***************************************************************************)
(* Services and sites that nobody edited: what SteadyInv says of the       *)
(* environment holds of the tag, and of Enabled, as well.                  *)
(***************************************************************************)

\* Every copy of the site says of the service what the site says of it.
CopiesAreSame(s) ==
    /\ site.enabled /\ siteCache.enabled
    /\ pc # "idle" => base.enabled
    /\ pc \notin {"idle", "save"} => base.st.enabled
    /\ siteCache.want[s] # Nothing => siteCache.want[s] = site.want[s]
    /\ base.want[s] # Nothing => base.want[s] = site.want[s]

MigrationOf(s) == <<s, site.want[s].env, site.want[s].tag>>

\* The DbMigrationJob is never deleted, runs the tag of the spec, and its
\* "Complete" is never a lie, not even when it is read late.
MigrationIsHonest(s) ==
    /\ mig[s] # Nothing =>
         /\ siteCache.want[s] # Nothing
         /\ pc # "idle" => base.want[s] # Nothing
         /\ mig[s].tag = site.want[s].tag
         /\ mig[s].state = "Running" => mig[s].run = site.want[s]
         /\ mig[s].state = "Complete" => MigrationOf(s) \in migrated
    /\ cache.mig[s] # Nothing =>
         /\ mig[s] # Nothing
         /\ cache.mig[s].state = "Complete" => MigrationOf(s) \in migrated

\* What a reconcile knows at the last gate, and what follows for Deployments.
MigrationFacts(s) ==
    /\ base.want[s] # Nothing =>
         /\ pc = "migReady" /\ "migrated" \in done => cache.mig[s] # Nothing
         /\ pc = "workloads" => MigrationOf(s) \in migrated
    /\ dep[s] # Nothing =>
         dep[s] = site.want[s] /\ MigrationOf(s) \in migrated

MigrationInv(s) ==
    CopiesAreSame(s) /\ MigrationIsHonest(s) /\ MigrationFacts(s)

UneditedInv == \A s \in MigServices : edits[s] = {} => MigrationInv(s)

\* The flags of any copy of the status.
AllFlags == done \cup site.st.done \cup siteCache.st.done

Workloads == \A s \in Services : site.want[s] # Nothing => dep[s] = site.want[s]
Networked == \A s \in Services : site.want[s] # Nothing => s \in net

\* A site that was never edited: all copies are the same, what is deployed
\* stays, and the last flag is set only when everything is.
OriginalSite ==
    /\ site.enabled /\ siteCache.enabled /\ siteCache.want = site.want
    /\ pc # "idle" => base.enabled /\ base.want = site.want
    /\ pc \notin {"idle", "save"} => base.st.enabled

DeploymentsStay ==
    /\ \A s \in Services : dep[s] # Nothing => dep[s] = site.want[s]
    /\ pc = "network" => Workloads
    /\ "network" \in AllFlags => Workloads /\ Networked
    /\ site.st.state = "Complete" => "network" \in site.st.done

OriginalInv == editsLeft = MaxEdits => OriginalSite /\ DeploymentsStay

LEMMA MigrationInit == Init => UneditedInv
  <1> SUFFICES ASSUME Init, NEW s \in MigServices PROVE MigrationInv(s)
    BY DEF UneditedInv
  <1>1. /\ siteCache = site /\ base.want[s] = Nothing /\ pc = "idle"
        /\ mig[s] = Nothing /\ dep[s] = Nothing /\ cache.mig[s] = Nothing
    BY DEF Init, None, NoSite
  <1>2. site.enabled
    <2>1. \E w : site = [want |-> w, enabled |-> TRUE, st |-> NewStatus]
      BY Zenon DEF Init
    <2> QED  BY <2>1
  <1> QED
    BY <1>1, <1>2
    DEF MigrationInv, CopiesAreSame, MigrationIsHonest, MigrationFacts

\* A stage that is not about the migrations, and does not lead to them.
LEMMA MigrationAside ==
    ASSUME NEW s \in MigServices, MigrationInv(s),
           UNCHANGED <<site, siteCache, base, mig, cache, dep, migrated>>,
           pc \notin {"idle", "save"},
           pc' \notin {"idle", "migReady", "workloads"}
    PROVE  MigrationInv(s)'
  BY DEF MigrationInv, CopiesAreSame, MigrationIsHonest, MigrationFacts,
         MigrationOf

LEMMA MigrationOtherStages ==
    ASSUME NEW s \in MigServices, MigrationInv(s),
           \/ CreateDatabases \/ CheckDatabases \/ UpdateConfigs
           \/ CreateInitJobs \/ CheckInitJobs \/ UpdateNetworking
    PROVE  MigrationInv(s)'
  <1>1. UNCHANGED <<site, siteCache, base, mig, cache, dep, migrated>>
    BY DEF CreateDatabases, CheckDatabases, UpdateConfigs, CreateInitJobs,
           CheckInitJobs, UpdateNetworking, objects, caches, read, servers, runs
  <1>2. pc \notin {"idle", "save"}
        /\ pc' \notin {"idle", "migReady", "workloads"}
    BY DEF CreateDatabases, CheckDatabases, UpdateConfigs, CreateInitJobs,
           CheckInitJobs, UpdateNetworking, Continue, Err, FinalErr
  <1> QED
    BY <1>1, <1>2, MigrationAside

LEMMA MigrationBegin ==
    ASSUME NEW s \in MigServices, MigrationInv(s), BeginReconcile
    PROVE  MigrationInv(s)'
  <1>1. /\ pc = "idle" /\ pc' \in {"create", "save"} /\ base' = siteCache
        /\ pc' = "create" => siteCache.st.enabled = siteCache.enabled
    BY DEF BeginReconcile, UpToDate
  <1>2. UNCHANGED <<site, siteCache, mig, dep, cache, migrated>>
    BY DEF BeginReconcile, objects, caches, servers, runs
  <1> QED
    BY <1>1, <1>2 DEF MigrationInv, CopiesAreSame, MigrationIsHonest,
                      MigrationFacts, MigrationOf

LEMMA MigrationCreateJobs ==
    ASSUME TypeOK, NEW s \in MigServices, Inv(s), MigrationInv(s),
           CreateMigrationJobs
    PROVE  MigrationInv(s)'
  <1>1. UNCHANGED <<site, dep, siteCache, cache, base, migrated>>
        /\ pc = "migCreate" /\ pc' \in {"migReady", "save"}
    BY DEF CreateMigrationJobs, caches, read, servers, runs, Continue, Err
  <1> DEFINE wanted == IF base.st.enabled THEN Wanted(MigServices) ELSE {}
             listed == Listed(cache.mig)
             toDelete == listed \ wanted
             toCreate == wanted \ listed
             toUpdate == {x \in wanted \cap listed :
                            cache.mig[x].tag # base.want[x].tag}
             rejected == {x \in toDelete : mig[x] = Nothing}
                         \cup {x \in toUpdate : mig[x] # cache.mig[x]}
                         \cup {x \in toCreate : mig[x] # Nothing}
  <1>2. PICK A \in Prefixes(toDelete, toUpdate, toCreate) :
             /\ A \cap rejected = {}
             /\ mig' = [x \in Services |->
                          IF x \notin A THEN mig[x]
                          ELSE IF x \in toDelete THEN Nothing
                          ELSE IF x \in toCreate THEN NewMig(base.want[x].tag)
                          ELSE [mig[x] EXCEPT !.tag = base.want[x].tag]]
             /\ \/ Continue("migReady",
                            Set("migrated", toDelete \cup toCreate = {}), FALSE)
                \/ Err(Set("migrated", TRUE))
    BY ZenonT(60) DEF CreateMigrationJobs
  <1>3. base.want[s] # Nothing => s \in wanted
    BY <1>1 DEF MigrationInv, CopiesAreSame, Wanted
  <1>4. \/ mig'[s] = mig[s]
        \/ /\ mig[s] = Nothing /\ mig'[s] = NewMig(site.want[s].tag)
           /\ base.want[s] # Nothing
    <2>1. s \notin toDelete
      BY <1>1, <1>3 DEF MigrationInv, MigrationIsHonest, Listed
    <2>2. CASE s \in toCreate
      BY <1>2, <2>1, <2>2 DEF MigrationInv, CopiesAreSame, Wanted
    <2>3. CASE s \in toUpdate /\ s \in A
      <3>1. /\ mig[s] = cache.mig[s] /\ base.want[s] # Nothing
            /\ cache.mig[s].tag # base.want[s].tag /\ cache.mig[s] # Nothing
        BY <1>2, <2>3 DEF Wanted, Listed
      <3> QED  BY <3>1 DEF MigrationInv, CopiesAreSame, MigrationIsHonest
    <2> QED  BY <1>2, <2>1, <2>2, <2>3 DEF Prefixes
  <1>5. pc' = "migReady" /\ "migrated" \in done' /\ base.want[s] # Nothing
        => cache.mig[s] # Nothing
    BY <1>2, <1>3 DEF Continue, Err, Set, Listed
  <1>6. mig[s] = Nothing /\ mig'[s] = NewMig(site.want[s].tag)
          /\ base.want[s] # Nothing
        => siteCache.want[s] # Nothing
    BY DEF Inv, CopiesAgree
  <1> HIDE DEF wanted, listed, toDelete, toCreate, toUpdate, rejected
  <1> QED
    BY <1>1, <1>4, <1>5, <1>6
    DEF MigrationInv, CopiesAreSame, MigrationIsHonest, MigrationFacts,
        MigrationOf, NewMig

LEMMA MigrationCheckJobs ==
    ASSUME TypeOK, NEW s \in MigServices, MigrationInv(s), CheckMigrationJobs
    PROVE  MigrationInv(s)'
  <1>1. UNCHANGED <<site, mig, dep, siteCache, cache, base, migrated>>
        /\ pc = "migReady" /\ pc' \in {"workloads", "save"}
    BY DEF CheckMigrationJobs, objects, caches, read, servers, runs, Continue,
        Err,
           FinalErr
  <1>2. pc' = "workloads" /\ base.want[s] # Nothing
        => MigrationOf(s) \in migrated
    <2> SUFFICES ASSUME pc' = "workloads", base.want[s] # Nothing
                 PROVE  MigrationOf(s) \in migrated
      OBVIOUS
    <2>1. "migrated" \in done /\ AllComplete(cache.mig)
      BY DEF CheckMigrationJobs, Continue, Err, FinalErr
    <2>2. cache.mig[s] # Nothing
      BY <1>1, <2>1 DEF MigrationInv, MigrationFacts
    <2> QED
      BY <2>1, <2>2 DEF AllComplete, Listed, MigrationInv, MigrationIsHonest
  <1> QED
    BY <1>1, <1>2 DEF MigrationInv, CopiesAreSame, MigrationIsHonest,
                      MigrationFacts, MigrationOf

LEMMA MigrationUpdateWorkloads ==
    ASSUME TypeOK, NEW s \in MigServices, MigrationInv(s), UpdateWorkloads
    PROVE  MigrationInv(s)'
  <1>1. UNCHANGED <<site, mig, siteCache, cache, base, migrated>>
        /\ pc = "workloads" /\ pc' \in {"network", "save"}
    BY DEF UpdateWorkloads, caches, read, servers, runs, Continue, Err
  <1> DEFINE wanted == IF base.st.enabled THEN Wanted(Services) ELSE {}
             listed == Listed(cache.dep)
             toDelete == listed \ wanted
             toUpdate == wanted \cap listed
             toCreate == wanted \ listed
  <1>2. PICK A \in Prefixes(toDelete, toUpdate, toCreate) :
             dep' = [x \in Services |->
                       IF x \notin A THEN dep[x]
                       ELSE IF x \in toDelete THEN Nothing
                       ELSE IF x \in toCreate THEN base.want[x]
                       ELSE Patched(dep[x], cache.dep[x], base.want[x])]
    BY DEF UpdateWorkloads
  <1>3. dep'[s] = dep[s] \/ dep'[s] = Nothing \/ dep'[s] = base.want[s]
    BY <1>2 DEF Patched
  <1> HIDE DEF wanted, listed, toDelete, toCreate, toUpdate
  <1> QED
    BY <1>1, <1>3 DEF MigrationInv, CopiesAreSame, MigrationIsHonest,
                      MigrationFacts, MigrationOf

LEMMA MigrationSaveStatus ==
    ASSUME NEW s \in MigServices, MigrationInv(s), SaveStatus
    PROVE  MigrationInv(s)'
  <1>1. /\ UNCHANGED <<mig, dep, siteCache, cache, migrated>>
        /\ pc' = "idle" /\ base'.want[s] = Nothing
    BY DEF SaveStatus, objects, servers, runs, Return, NoSite, None
  <1>2. site'.want = site.want /\ site'.enabled = site.enabled
    BY DEF SaveStatus
  <1> QED
    BY <1>1, <1>2 DEF MigrationInv, CopiesAreSame, MigrationIsHonest,
                      MigrationFacts, MigrationOf

LEMMA MigrationCrash ==
    ASSUME NEW s \in MigServices, Inv(s), MigrationInv(s), Crash
    PROVE  MigrationInv(s)'
  <1>1. /\ UNCHANGED <<site, mig, dep, migrated>> /\ siteCache' = site
        /\ pc' = "idle" /\ base'.want[s] = Nothing /\ cache'.mig = mig
    BY DEF Crash, objects, servers, runs, Return, NoSite, None
  <1> QED
    BY <1>1 DEF MigrationInv, CopiesAreSame, MigrationIsHonest,
                MigrationFacts, MigrationOf, Inv, CopiesAgree

LEMMA MigrationSync ==
    ASSUME TypeOK, NEW s \in MigServices, Inv(s), MigrationInv(s), Sync
    PROVE  MigrationInv(s)'
  <1>1. UNCHANGED <<site, mig, dep, migrated, pc, base, done>>
    BY DEF Sync, SyncSite, SyncDb, SyncIni, SyncMig, SyncDep, Owned, objects,
           servers, runs, read, copy
  <1>2. siteCache' \in {siteCache, site}
    BY DEF Sync, SyncSite, SyncDb, SyncIni, SyncMig, SyncDep, Owned
  <1>3. cache'.mig \in {cache.mig, mig}
    BY DEF Sync, SyncSite, SyncDb, SyncIni, SyncMig, SyncDep, Owned, TypeOK,
           CacheState
  <1> QED
    BY <1>1, <1>2, <1>3 DEF MigrationInv, CopiesAreSame, MigrationIsHonest,
                            MigrationFacts, MigrationOf, Inv, CopiesAgree

\* The database controller keeps what a database that is not dropped holds.
LEMMA MigrationDbController ==
    ASSUME NEW s \in MigServices, Inv(s), MigrationInv(s), NEW r \in Services,
           DbController(r)
    PROVE  MigrationInv(s)'
  <1>1. UNCHANGED <<site, mig, dep, siteCache, cache, pc, base, done>>
    BY DEF DbController, ClaimDb, ProvisionDb, DropDb, reconciler, caches,
           read, copy
  <1>2. ~(DropDb(r) /\ r = s)
    BY DEF DropDb, Inv, DbIsHonest
  <1>3. \A e, t : <<s, e, t>> \in migrated => <<s, e, t>> \in migrated'
    BY <1>2 DEF DbController, ClaimDb, ProvisionDb, DropDb, servers, runs
  <1> QED
    BY <1>1, <1>3 DEF MigrationInv, CopiesAreSame, MigrationIsHonest,
                      MigrationFacts, MigrationOf

LEMMA MigrationInitController ==
    ASSUME NEW s \in MigServices, MigrationInv(s), NEW r \in Services,
           InitController(r) \/ InitBatch(r)
    PROVE  MigrationInv(s)'
  <1>1. UNCHANGED <<site, mig, dep, siteCache, cache, pc, base, done,
      migrated>>
    BY DEF InitController, StartInit, FinishInit, InitBatch, RunInit,
           ExpireInit, reconciler, caches, read, copy, servers
  <1> QED
    BY <1>1 DEF MigrationInv, CopiesAreSame, MigrationIsHonest,
                MigrationFacts, MigrationOf

LEMMA MigrationJobSteps ==
    ASSUME TypeOK, NEW s \in MigServices, MigrationInv(s), NEW r \in Services,
           MigrationController(r)
    PROVE  MigrationInv(s)'
  <1>1. /\ UNCHANGED <<site, dep, siteCache, cache, pc, base, done>>
        /\ migrated \subseteq migrated'
    BY DEF MigrationController, ResetMigration, StartMigration,
           FinishMigration, reconciler, caches, read, copy, servers, runs
  <1>2. \/ mig'[s] = mig[s]
        \/ /\ mig[s] # Nothing /\ mig'[s].tag = mig[s].tag
           /\ mig'[s].state = "Running" => mig'[s].run = site.want[s]
           /\ mig'[s].state = "Complete" => MigrationOf(s) \in migrated'
    <2>1. CASE r # s
      BY <2>1 DEF MigrationController, ResetMigration, StartMigration,
                  FinishMigration, TypeOK
    <2>2. CASE r = s /\ (ResetMigration(s) \/ StartMigration(s))
      BY <2>2 DEF ResetMigration, StartMigration, TypeOK, MigrationInv,
                  CopiesAreSame
    <2>3. CASE r = s /\ FinishMigration(s)
      <3>1. mig[s] # Nothing /\ mig[s] \in MigObject /\ mig[s].state = "Running"
        BY <2>3 DEF FinishMigration, TypeOK, Maybe
      <3>2. mig[s].run = site.want[s]
        BY <3>1 DEF MigrationInv, MigrationIsHonest
      <3>3. \/ /\ mig'[s] = [mig[s] EXCEPT !.state = "Complete"]
               /\ MigrationOf(s) \in migrated'
            \/ mig'[s] = [mig[s] EXCEPT !.state = "Failed"]
        BY <2>3, <3>2 DEF FinishMigration, TypeOK, MigrationOf
      <3> QED  BY <3>1, <3>3 DEF MigObject
    <2> QED  BY <2>1, <2>2, <2>3 DEF MigrationController
  <1>3. mig[s] # Nothing => mig'[s] # Nothing
    <2> SUFFICES ASSUME mig[s] \in MigObject PROVE mig'[s] # Nothing
      BY DEF TypeOK, Maybe
    <2>1. CASE r # s
      BY <2>1 DEF MigrationController, ResetMigration, StartMigration,
                  FinishMigration, TypeOK
    <2>2. CASE r = s /\ ResetMigration(s)
      <3>1. mig'[s] = [tag |-> mig[s].tag, last |-> mig[s].tag,
                       state |-> "Pending", run |-> Nothing]
        BY <2>2 DEF ResetMigration, TypeOK
      <3>2. mig'[s] \in MigObject
        BY <3>1 DEF MigObject, JobStates, Maybe
      <3> QED  BY <3>2
    <2>3. CASE r = s /\ StartMigration(s)
      <3>1. mig'[s] = [tag |-> mig[s].tag, last |-> mig[s].last,
                       state |-> "Running", run |-> siteCache.want[s]]
            /\ siteCache.want[s] \in Want
        BY <2>3 DEF StartMigration, TypeOK, Site, Maybe
      <3>2. mig'[s] \in MigObject
        BY <3>1 DEF MigObject, JobStates, Maybe
      <3> QED  BY <3>2
    <2>4. CASE r = s /\ FinishMigration(s)
      <3>1. \/ mig'[s] = [mig[s] EXCEPT !.state = "Complete"]
            \/ mig'[s] = [mig[s] EXCEPT !.state = "Failed"]
        BY <2>4 DEF FinishMigration, TypeOK
      <3>2. mig'[s] \in MigObject
        BY <3>1 DEF MigObject, JobStates
      <3> QED  BY <3>2
    <2> QED  BY <2>1, <2>2, <2>3, <2>4 DEF MigrationController
  <1> QED
    BY <1>1, <1>2, <1>3 DEF MigrationInv, CopiesAreSame, MigrationIsHonest,
                            MigrationFacts, MigrationOf

\* An edit that leaves the service unmarked adds it, or is about another one.
LEMMA MigrationUser ==
    ASSUME TypeOK, NEW s \in MigServices, Inv(s), MigrationInv(s),
           edits'[s] = {}, User
    PROVE  MigrationInv(s)'
  <1>1. UNCHANGED <<siteCache, base, pc, mig, dep, cache, migrated, done>>
    BY DEF User, EditTag, EditEnv, RemoveService, AddService, Toggle, Edited,
           objects, servers, runs, copy
  <1>2. /\ site'.enabled = site.enabled
        /\ site'.want[s] = site.want[s] \/ site.want[s] = Nothing
    <2>0. site.want \in [Services -> Maybe(Want)] /\ s \in Services
      BY DEF TypeOK, Site
    <2>1. ASSUME NEW r \in Services, NEW t \in Tags, EditTag(r, t)
          PROVE  site'.want[s] = site.want[s] /\ site'.enabled = site.enabled
      <3>1. r # s
        BY <2>0, <2>1 DEF EditTag, Mark, TypeOK
      <3> QED  BY <2>0, <2>1, <3>1 DEF EditTag, Edited
    <2>2. ASSUME NEW r \in Services, NEW e \in Envs, EditEnv(r, e)
          PROVE  site'.want[s] = site.want[s] /\ site'.enabled = site.enabled
      <3>1. r # s
        BY <2>0, <2>2 DEF EditEnv, Mark, TypeOK
      <3> QED  BY <2>0, <2>2, <3>1 DEF EditEnv, Edited
    <2>3. ASSUME NEW r \in Services, RemoveService(r)
          PROVE  site'.want[s] = site.want[s] /\ site'.enabled = site.enabled
      <3>1. r # s
        BY <2>0, <2>3 DEF RemoveService, Mark, TypeOK
      <3> QED  BY <2>0, <2>3, <3>1 DEF RemoveService, Edited
    <2>4. ASSUME NEW r \in Services, NEW w \in Want, AddService(r, w)
          PROVE  /\ site'.want[s] = site.want[s] \/ site.want[s] = Nothing
                 /\ site'.enabled = site.enabled
      BY <2>0, <2>4 DEF AddService, Edited
    <2>5. ~Toggle
      BY <2>0 DEF Toggle
    <2> QED  BY <2>1, <2>2, <2>3, <2>4, <2>5 DEF User
  <1>3. CASE site.want[s] = Nothing
    <2>1. /\ siteCache.want[s] = Nothing /\ base.want[s] = Nothing
          /\ mig[s] = Nothing /\ dep[s] = Nothing /\ cache.mig[s] = Nothing
      BY <1>3 DEF Inv, CopiesAgree, LaterObjects, MigrationInv,
                  MigrationIsHonest
    <2> QED
      BY <1>1, <1>2, <2>1 DEF MigrationInv, CopiesAreSame, MigrationIsHonest,
                              MigrationFacts
  <1>4. CASE site.want[s] # Nothing
    BY <1>1, <1>2, <1>4 DEF MigrationInv, CopiesAreSame, MigrationIsHonest,
                            MigrationFacts, MigrationOf
  <1> QED
    BY <1>3, <1>4

LEMMA MigrationReconcile ==
    ASSUME TypeOK, NEW s \in MigServices, Inv(s), MigrationInv(s), Reconcile
    PROVE  MigrationInv(s)'
  BY MigrationBegin, MigrationOtherStages, MigrationCreateJobs,
     MigrationCheckJobs, MigrationUpdateWorkloads, MigrationSaveStatus
  DEF Reconcile

LEMMA MigrationNext ==
    TypeOK /\ SteadyInv /\ UneditedInv /\ [Next]_vars => UneditedInv'
  <1> SUFFICES ASSUME TypeOK, SteadyInv, UneditedInv, [Next]_vars,
                      NEW s \in MigServices, edits'[s] = {}
               PROVE  MigrationInv(s)'
    BY DEF UneditedInv
  <1>1. Inv(s) /\ MigrationInv(s)
    BY EditsOnlyGrow DEF SteadyInv, Steady, UneditedInv
  <1>2. CASE UNCHANGED vars
    BY <1>1, <1>2 DEF vars, objects, caches, read, copy, servers, runs,
       MigrationInv, CopiesAreSame, MigrationIsHonest, MigrationFacts,
       MigrationOf
  <1>3. CASE Next
    BY <1>1, <1>3, MigrationReconcile, MigrationCrash, MigrationSync,
       MigrationDbController, MigrationInitController, MigrationJobSteps,
       MigrationUser
    DEF Next
  <1> QED
    BY <1>2, <1>3

\* The last gate works for a service nobody edited: its image is deployed only
\* after its migrations have run, however late the jobs are read.
THEOREM DeployedAfterMigration == Spec => []DeployedTagIsMigrated
  <1>1. SteadyInv /\ UneditedInv => DeployedTagIsMigrated
    BY DEF UneditedInv, DeployedTagIsMigrated, MigrationInv, MigrationFacts,
           MigrationOf, Running
  <1> QED
    BY <1>1, TypeCorrect, SteadyInvHolds, MigrationInit, MigrationNext, PTL
    DEF Spec

-----------------------------------------------------------------------------
LEMMA OriginalInit == Init => OriginalInv
  <1> SUFFICES ASSUME Init PROVE OriginalSite /\ DeploymentsStay
    BY DEF OriginalInv
  <1>1. PICK w : site = [want |-> w, enabled |-> TRUE, st |-> NewStatus]
    BY Zenon DEF Init
  <1>2. siteCache = site /\ pc = "idle" /\ done = {} /\ dep = None
    BY Zenon DEF Init
  <1>3. site.enabled /\ site.st = NewStatus
    BY <1>1
  <1>4. NewStatus.done = {} /\ NewStatus.state # "Complete"
    BY Zenon DEF NewStatus
  <1> QED
    BY <1>2, <1>3, <1>4 DEF OriginalSite, DeploymentsStay, AllFlags, None

\* A step that keeps the copies and the Deployments, and sets no last flag.
LEMMA OriginalAside ==
    ASSUME OriginalSite, DeploymentsStay,
           UNCHANGED <<site, siteCache, base, dep, net>>,
           pc \notin {"idle", "save"}, pc' \notin {"idle", "network"},
           "network" \in done' => "network" \in done
    PROVE  OriginalSite' /\ DeploymentsStay'
  BY DEF OriginalSite, DeploymentsStay, AllFlags, Workloads, Networked

LEMMA OriginalOtherStages ==
    ASSUME OriginalSite, DeploymentsStay,
           \/ CreateDatabases \/ CheckDatabases \/ UpdateConfigs
           \/ CreateInitJobs \/ CheckInitJobs \/ CreateMigrationJobs
           \/ CheckMigrationJobs
    PROVE  OriginalSite' /\ DeploymentsStay'
  <1>1. UNCHANGED <<site, siteCache, base, dep, net>>
    BY DEF CreateDatabases, CheckDatabases, UpdateConfigs, CreateInitJobs,
           CheckInitJobs, CreateMigrationJobs, CheckMigrationJobs, objects,
           caches, read
  <1>2. pc \notin {"idle", "save"} /\ pc' \notin {"idle", "network"}
    BY DEF CreateDatabases, CheckDatabases, UpdateConfigs, CreateInitJobs,
           CheckInitJobs, CreateMigrationJobs, CheckMigrationJobs, Continue,
           Err, FinalErr
  <1>3. "network" \in done' => "network" \in done
    <2>1. CASE CreateDatabases
      <3>1. PICK v : done' = Set("created", v)
        BY Zenon, <2>1 DEF CreateDatabases, Continue, Err
      <3> QED  BY ONLY <3>1 DEF Set
    <2>2. CASE CheckDatabases
      <3>1. \/ \E v : done' = Set("created", v) \cup {"inited"}
            \/ \E v : done' = Set("inited", v)
        BY Zenon, <2>2 DEF CheckDatabases, Continue, Err
      <3>2. ASSUME NEW v, done' = Set("created", v) \cup {"inited"}
            PROVE  "network" \in done' => "network" \in done
        BY ONLY <3>2 DEF Set
      <3>3. ASSUME NEW v, done' = Set("inited", v)
            PROVE  "network" \in done' => "network" \in done
        BY ONLY <3>3 DEF Set
      <3> QED  BY Zenon, <3>1, <3>2, <3>3
    <2>3. CASE UpdateConfigs
      BY <2>3 DEF UpdateConfigs, Continue, Err, Set
    <2>4. CASE CreateInitJobs \/ CheckInitJobs
      <3>1. done' = done \/ \E v : done' = Set("inited", v)
        BY Zenon, <2>4 DEF CreateInitJobs, CheckInitJobs, Continue, Err,
            FinalErr
      <3>2. ASSUME NEW v, done' = Set("inited", v)
            PROVE  "network" \in done' => "network" \in done
        BY ONLY <3>2 DEF Set
      <3> QED  BY Zenon, <3>1, <3>2
    <2>5. CASE CreateMigrationJobs \/ CheckMigrationJobs
      <3>1. done' = done \/ \E v : done' = Set("migrated", v)
        BY Zenon, <2>5 DEF CreateMigrationJobs, CheckMigrationJobs, Continue,
                           Err, FinalErr
      <3>2. ASSUME NEW v, done' = Set("migrated", v)
            PROVE  "network" \in done' => "network" \in done
        BY ONLY <3>2 DEF Set
      <3> QED  BY Zenon, <3>1, <3>2
    <2> QED  BY Zenon, <2>1, <2>2, <2>3, <2>4, <2>5
  <1> QED
    BY <1>1, <1>2, <1>3, OriginalAside

LEMMA OriginalBegin ==
    ASSUME OriginalSite, DeploymentsStay, BeginReconcile
    PROVE  OriginalSite' /\ DeploymentsStay'
  <1>1. /\ pc' \in {"create", "save"} /\ base' = siteCache
        /\ pc' = "create" => siteCache.st.enabled = siteCache.enabled
        /\ done' = siteCache.st.done
    BY DEF BeginReconcile, UpToDate
  <1>2. UNCHANGED <<site, siteCache, dep, net>>
    BY DEF BeginReconcile, objects, caches
  <1> QED
    BY <1>1, <1>2 DEF OriginalSite, DeploymentsStay, AllFlags, Workloads,
                      Networked

\* Every Deployment is of the spec, before and after, so none goes.
LEMMA OriginalUpdateWorkloads ==
    ASSUME TypeOK, OriginalSite, DeploymentsStay, UpdateWorkloads
    PROVE  OriginalSite' /\ DeploymentsStay'
  <1>1. UNCHANGED <<site, siteCache, base, net>>
        /\ pc = "workloads" /\ pc' \in {"network", "save"}
        /\ ("network" \in done' => "network" \in done)
    BY DEF UpdateWorkloads, caches, read, Continue, Err, Set
  <1> DEFINE wanted == IF base.st.enabled THEN Wanted(Services) ELSE {}
             listed == Listed(cache.dep)
             toDelete == listed \ wanted
             toUpdate == wanted \cap listed
             toCreate == wanted \ listed
             rejected == {s \in toDelete \cup toUpdate : dep[s] = Nothing}
                         \cup {s \in toCreate : dep[s] # Nothing}
  <1>2. PICK A \in Prefixes(toDelete, toUpdate, toCreate) :
             /\ A \cap rejected = {}
             /\ dep' = [s \in Services |->
                          IF s \notin A THEN dep[s]
                          ELSE IF s \in toDelete THEN Nothing
                          ELSE IF s \in toCreate THEN base.want[s]
                          ELSE Patched(dep[s], cache.dep[s], base.want[s])]
             /\ \/ A = toDelete \cup toUpdate \cup toCreate
                \/ pc' = "save"
    BY DEF UpdateWorkloads, Err
  <1>3. \A s \in Services : s \in wanted <=> site.want[s] # Nothing
    BY <1>1 DEF OriginalSite, Wanted
  <1>4. ASSUME NEW s \in Services, dep[s] # Nothing
        PROVE  dep[s] = site.want[s] /\ site.want[s] # Nothing
    BY <1>4 DEF DeploymentsStay
  <1>5. ASSUME NEW s \in Services
        PROVE  /\ dep[s] # Nothing => dep'[s] = dep[s]
               /\ dep'[s] # Nothing => dep'[s] = site.want[s]
    <2>1. s \in toDelete => s \notin wanted
      OBVIOUS
    <2>2. base.want[s] = site.want[s]
      BY <1>1 DEF OriginalSite
    <2> QED
      BY <1>2, <1>3, <1>4, <2>1, <2>2 DEF Patched
  <1>6. ASSUME pc' = "network", NEW s \in Services, site.want[s] # Nothing
        PROVE  dep'[s] = site.want[s]
    <2>1. s \in A /\ s \notin toDelete
      BY <1>2, <1>3, <1>6
    <2>2. base.want[s] = site.want[s]
      BY <1>1 DEF OriginalSite
    <2>3. CASE s \in toCreate
      BY <1>2, <2>1, <2>2, <2>3
    <2>4. CASE s \notin toCreate
      <3>1. dep[s] # Nothing
        BY <1>2, <1>3, <1>6, <2>1, <2>4
      <3> QED  BY <1>4, <1>5, <3>1
    <2> QED  BY <2>3, <2>4
  <1> HIDE DEF wanted, listed, toDelete, toUpdate, toCreate, rejected
  <1>7. OriginalSite'
    BY <1>1 DEF OriginalSite
  <1>8. Workloads => Workloads'
    BY <1>1, <1>5 DEF Workloads
  <1>9. pc' = "network" => Workloads'
    BY <1>1, <1>6 DEF Workloads
  <1> QED
    BY <1>1, <1>5, <1>7, <1>8, <1>9 DEF DeploymentsStay, AllFlags, Networked

LEMMA OriginalUpdateNetworking ==
    ASSUME TypeOK, OriginalSite, DeploymentsStay, UpdateNetworking
    PROVE  OriginalSite' /\ DeploymentsStay'
  <1>1. UNCHANGED <<site, siteCache, base, dep>>
        /\ pc = "network" /\ pc' = "save"
    BY DEF UpdateNetworking, caches, read, Err
  <1> DEFINE wanted == IF base.st.enabled THEN Wanted(Services) ELSE {}
             toDelete == net \ wanted
             toCreate == wanted \ net
  <1>2. PICK A \in Prefixes(toDelete, toCreate, {}) :
             /\ net' = (net \ (A \cap toDelete)) \cup (A \cap toCreate)
             /\ \/ A = toDelete \cup toCreate
                \/ done' = done
    BY DEF UpdateNetworking, Err
  <1>3. \A s \in Services : site.want[s] # Nothing => s \in wanted
    BY <1>1 DEF OriginalSite, Wanted
  <1>4. Networked => Networked'
    BY <1>1, <1>2, <1>3 DEF Networked
  <1>5. "network" \in done' /\ "network" \notin done => Networked'
    BY <1>1, <1>2, <1>3 DEF Networked
  <1> HIDE DEF wanted, toDelete, toCreate
  <1>6. OriginalSite'
    BY <1>1 DEF OriginalSite
  <1> QED
    BY <1>1, <1>4, <1>5, <1>6 DEF DeploymentsStay, AllFlags, Workloads

\* What is saved as Complete has every flag.
LEMMA OriginalSaveStatus ==
    ASSUME OriginalSite, DeploymentsStay, SaveStatus
    PROVE  OriginalSite' /\ DeploymentsStay'
  <1>1. /\ UNCHANGED <<siteCache, dep, net>>
        /\ pc' = "idle" /\ done' = {}
    BY Zenon DEF SaveStatus, objects, Return
  <1>2. site'.want = site.want /\ site'.enabled = site.enabled
    BY DEF SaveStatus
  <1>3. /\ site'.st.done \in {site.st.done, done}
        /\ site'.st.state = "Complete" => "network" \in site'.st.done
    <2> DEFINE st == [applied |-> TRUE, enabled |-> base.enabled,
                      done |-> done, state |-> SetSiteState]
    <2>1. \/ site' = site
          \/ site' = [want |-> site.want, enabled |-> site.enabled, st |-> st]
      BY DEF SaveStatus
    <2>2. st.done = done /\ st.state = SetSiteState
      OBVIOUS
    <2>3. SetSiteState = "Complete" => "network" \in done
      BY DEF SetSiteState, Flags
    <2> HIDE DEF st
    <2> QED  BY <2>1, <2>2, <2>3 DEF DeploymentsStay
  <1> QED
    BY <1>1, <1>2, <1>3
    DEF OriginalSite, DeploymentsStay, AllFlags, Workloads, Networked

LEMMA OriginalCrash ==
    ASSUME OriginalSite, DeploymentsStay, Crash
    PROVE  OriginalSite' /\ DeploymentsStay'
  <1>1. /\ UNCHANGED <<site, dep, net>> /\ siteCache' = site
        /\ pc' = "idle" /\ done' = {}
    BY Zenon DEF Crash, objects, Return
  <1> QED
    BY <1>1 DEF OriginalSite, DeploymentsStay, AllFlags, Workloads, Networked

LEMMA OriginalSync ==
    ASSUME OriginalSite, DeploymentsStay, Sync
    PROVE  OriginalSite' /\ DeploymentsStay'
  <1>1. UNCHANGED <<site, dep, net, pc, base, done>>
    BY DEF Sync, SyncSite, SyncDb, SyncIni, SyncMig, SyncDep, Owned, objects,
           read, copy
  <1>2. siteCache' \in {siteCache, site}
    BY DEF Sync, SyncSite, SyncDb, SyncIni, SyncMig, SyncDep, Owned
  <1> QED
    BY <1>1, <1>2
    DEF OriginalSite, DeploymentsStay, AllFlags, Workloads, Networked

LEMMA OriginalChildren ==
    ASSUME OriginalSite, DeploymentsStay, NEW r \in Services,
           DbController(r) \/ InitController(r) \/ InitBatch(r)
                 \/ MigrationController(r)
    PROVE  OriginalSite' /\ DeploymentsStay'
  <1>1. UNCHANGED <<site, siteCache, dep, net, pc, base, done>>
    BY DEF DbController, ClaimDb, ProvisionDb, DropDb, InitController,
           StartInit, FinishInit, InitBatch,
                RunInit, ExpireInit, MigrationController, ResetMigration,
           StartMigration, FinishMigration, reconciler, caches, read, copy
  <1> QED
    BY <1>1 DEF OriginalSite, DeploymentsStay, AllFlags, Workloads, Networked

LEMMA OriginalNext == TypeOK /\ OriginalInv /\ [Next]_vars => OriginalInv'
  <1> SUFFICES ASSUME TypeOK, OriginalInv, [Next]_vars, editsLeft' = MaxEdits
               PROVE  OriginalSite' /\ DeploymentsStay'
    BY DEF OriginalInv
  <1>1. ~User
    BY DEF TypeOK, User, EditTag, EditEnv, RemoveService, AddService, Toggle,
           Edited
  <1>2. editsLeft = MaxEdits
    <2>1. CASE UNCHANGED vars
      BY <2>1 DEF vars, budget
    <2>2. CASE Sync
      BY <2>2 DEF Sync, SyncSite, SyncDb, SyncIni, SyncMig, SyncDep, Owned,
                  budget
    <2>3. CASE Reconcile
      BY <2>3 DEF Reconcile, BeginReconcile, CreateDatabases, CheckDatabases,
                  UpdateConfigs, CreateInitJobs, CheckInitJobs,
                  CreateMigrationJobs, CheckMigrationJobs, UpdateWorkloads,
                  UpdateNetworking, SaveStatus, budget
    <2>4. CASE Crash
      BY <2>4 DEF Crash, budget
    <2>5. ASSUME NEW r \in Services,
                 DbController(r) \/ InitController(r) \/ InitBatch(r)
                 \/ MigrationController(r)
          PROVE  editsLeft' = editsLeft
      BY <2>5 DEF DbController, ClaimDb, ProvisionDb, DropDb, InitController,
                  StartInit, FinishInit, InitBatch,
                RunInit, ExpireInit, MigrationController, ResetMigration,
                  StartMigration, FinishMigration, reconciler, budget
    <2> QED  BY <1>1, <2>1, <2>2, <2>3, <2>4, <2>5 DEF Next
  <1>3. OriginalSite /\ DeploymentsStay
    BY <1>2 DEF OriginalInv
  <1>4. CASE UNCHANGED vars
    BY <1>3, <1>4 DEF vars, objects, caches, read, copy, OriginalSite,
       DeploymentsStay, AllFlags, Workloads, Networked
  <1>5. CASE Reconcile
    BY <1>3, <1>5, OriginalBegin, OriginalOtherStages,
       OriginalUpdateWorkloads, OriginalUpdateNetworking, OriginalSaveStatus
    DEF Reconcile
  <1> QED
    BY <1>1, <1>3, <1>4, <1>5, OriginalCrash, OriginalSync, OriginalChildren
    DEF Next

\* The flags are cleared and set by different stages on a copy that may be
\* old, and yet a site nobody edited is not Complete before all its services
\* run and are reachable.
THEOREM CompleteAfterDeployment == Spec => []CompleteMeansDeployed
  <1>1. OriginalInv => CompleteMeansDeployed
    BY DEF OriginalInv, DeploymentsStay, AllFlags, Workloads, Networked,
           CompleteMeansDeployed
  <1> QED
    BY <1>1, TypeCorrect, OriginalInit, OriginalNext, PTL DEF Spec
=============================================================================
