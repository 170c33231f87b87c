------------------------ MODULE DatabaseServerProofs ------------------------
(***************************************************************************)
(* Proofs about DatabaseServer, for any set of objects, users, databases   *)
(* and specs, and any number of edits and faults.                          *)
(***************************************************************************)
EXTENDS DatabaseServer, TLAPS

USE ServerAssumption, NoObjectAssumption

-----------------------------------------------------------------------------
(* The inductive invariant. *)

Reconciling == {"user", "database", "read", "revoke", "save"}
Deleting == {"removeUser", "revokeAll", "removeDatabase", "finalizer"}

\* What is on the server, in a cache or in work was named by an object.
Naming ==
    /\ \A o \in Objs :
         /\ obj[o] # Nothing => obj[o].spec \in named[o]
         /\ cache[o] # Nothing => cache[o].spec \in named[o]
         /\ task = o => copy.spec \in named[o]
    /\ \A u \in Users : users[u] # Nothing =>
         \E o \in Objs : \E s \in named[o] : s.user = u /\ s.password = users[u]
    /\ \A d \in dbs : \E o \in Objs : \E s \in named[o] : s.db = d
    /\ \A g \in grants :
         /\ users[g[1]] # Nothing
         /\ \E o \in Objs : \E s \in named[o] : s.user = g[1] /\ s.db = g[2]

\* The worker has an object exactly while it works, and does to it what the
\* copy asks for.  What counts as the latest version is the latest version.
Working ==
    /\ \A o \in fresh : cache[o] = obj[o]
    /\ current => task # Nothing /\ copy = obj[task]
    /\ pc = "idle" <=> task = Nothing
    /\ task # Nothing => copy \in Object
    /\ pc \in Reconciling => ~copy.deleting
    /\ pc \in Deleting => copy.deleting
    /\ kind = "mongo" => pc \notin {"database", "read", "revoke", "revokeAll"}

\* How old copies relate to the objects: a finalizer that someone will act on
\* is still there, and a worker whose copy is outdated will look again.
VersionOf(o) ==
    /\ obj[o] # Nothing /\ obj[o].deleting => obj[o].finalizer
    /\ cache[o] # Nothing /\ cache[o].deleting => cache[o].finalizer
    /\ (o \in queued \/ task = o) /\ cache[o] # Nothing =>
         /\ cache[o].finalizer => obj[o] # Nothing /\ obj[o].finalizer
         /\ cache[o].deleting => obj[o] # Nothing /\ obj[o].deleting
    /\ task = o => /\ obj[o] # Nothing /\ obj[o].finalizer
                   /\ copy.deleting => obj[o].deleting
    /\ task = o /\ current => o \in fresh /\ o \notin queued
    /\ task = o /\ ~current => o \notin fresh \/ o \in queued

Versions == \A o \in Objs : VersionOf(o)

\* What the statements so far have achieved.
Progress ==
    /\ pc \in {"database", "read", "revoke", "save"} =>
         users[U] = copy.spec.password
    /\ kind = "mysql" /\ pc \in {"read", "revoke", "save"} => D \in dbs
    /\ pc = "revoke" =>
         /\ D \in rows => <<U, D>> \in grants
         /\ \A d \in Dbs : <<U, d>> \in grants /\ d # D =>
                d \in rows \/ <<U, d>> \in unread
    /\ pc = "save" =>
         /\ <<U, D>> \in grants
         /\ \A d \in Dbs : <<U, d>> \in grants /\ d # D => <<U, d>> \in unread
    /\ kind = "mysql" /\ pc \in {"revokeAll", "removeDatabase", "finalizer"} =>
         users[U] = Nothing
    /\ kind = "mysql" /\ pc = "finalizer" => D \notin dbs
    /\ kind = "mongo" /\ pc = "removeUser" => D \notin dbs \ late
    /\ kind = "mongo" /\ pc = "finalizer" =>
         /\ users[U] = Nothing
         /\ Alone(task) /\ named[task] = {copy.spec} => D \notin dbs \ late

\* The only spec of an object that shares no name.
Sole(o, s) == Alone(o) /\ named[o] = {s}

\* What is on the server for such an object is protected by its finalizer.
Protected ==
    \A o \in Objs, s \in Specs :
        Sole(o, s) /\ (users[s.user] # Nothing \/ s.db \in dbs \ late) =>
            obj[o] # Nothing /\ obj[o].finalizer

IInv == /\ TypeOK /\ Naming /\ Working /\ Versions /\ Progress /\ Protected
        /\ RestMeansUsable

-----------------------------------------------------------------------------
(***************************************************************************)
(* Type correctness, with Working.                                         *)
(***************************************************************************)

Shape == TypeOK /\ Working

\* Giving up puts the key back and leaves the worker idle.
LEMMA AbandonShape ==
    ASSUME TypeOK, task \in Objs, Abandon
    PROVE  /\ pc' = "idle" /\ task' = Nothing /\ copy' = Nothing
           /\ current' = FALSE /\ rows' = {}
           /\ queued' = queued \cup {task} /\ queued' \subseteq Objs
  BY DEF TypeOK, Abandon, Idle

LEMMA FaultShape ==
    ASSUME TypeOK, Fault
    PROVE  faultsLeft' \in 0..MaxFaults
  BY DEF TypeOK, Fault

\* What a statement may have done: the server is as it was or as the
\* statement leaves it, and the worker goes on or gives up.
Went(us, ds, gs, next) ==
    /\ \/ users' = us /\ dbs' = ds /\ grants' = gs
       \/ UNCHANGED server
    /\ \/ /\ pc' = next /\ UNCHANGED <<queued, task, copy, current>>
          /\ users' = us /\ dbs' = ds /\ grants' = gs
       \/ Abandon
    /\ faultsLeft' \in 0..MaxFaults

LEMMA ExecWent ==
    ASSUME TypeOK, NEW us, NEW ds, NEW gs, NEW next, Exec(us, ds, gs, next)
    PROVE  Went(us, ds, gs, next)
  <1>1. faultsLeft' \in 0..MaxFaults
    BY FaultShape DEF Exec, TypeOK
  <1> QED  BY <1>1 DEF Exec, Went

LEMMA WentType ==
    ASSUME TypeOK, task \in Objs, NEW next \in Steps,
           NEW us \in [Users -> Maybe(Passwords)],
           NEW ds \in SUBSET Dbs, NEW gs \in SUBSET (Users \X Dbs),
           Went(us, ds, gs, next)
    PROVE  /\ pc' \in Steps /\ task' \in Maybe(Objs) /\ copy' \in Maybe(Object)
           /\ current' \in BOOLEAN /\ queued' \subseteq Objs
           /\ users' \in [Users -> Maybe(Passwords)]
           /\ dbs' \subseteq Dbs /\ grants' \subseteq Users \X Dbs
           /\ faultsLeft' \in 0..MaxFaults
  <1>1. CASE Abandon
    BY <1>1, AbandonShape DEF TypeOK, Went, server, Maybe, Steps
  <1>2. CASE pc' = next /\ UNCHANGED <<queued, task, copy, current>>
    BY <1>2 DEF TypeOK, Went, server
  <1> QED  BY <1>1, <1>2 DEF Went

LEMMA Names ==
    ASSUME Shape, task # Nothing
    PROVE  /\ task \in Objs /\ copy \in Object
           /\ copy.spec \in Spec0 /\ copy.spec.password \in Passwords
           /\ U \in Users /\ D \in Dbs
  BY DEF Shape, Working, TypeOK, Maybe, Object, Spec0, U, D

\* After a statement the worker is still well formed.
LEMMA WentWorking ==
    ASSUME Shape, task \in Objs, UNCHANGED kind, NEW us, NEW ds, NEW gs,
           UNCHANGED objects,
           NEW next \in Steps \ {"idle"},
           next \in Reconciling => ~copy.deleting,
           next \in Deleting => copy.deleting,
           kind = "mongo" => next \notin {"database", "read", "revoke", "revokeAll"},
           Went(us, ds, gs, next)
    PROVE  Working'
  <1>1. CASE Abandon
    BY <1>1, AbandonShape DEF Shape, Working, Reconciling, Deleting, objects
  <1>2. CASE pc' = next /\ UNCHANGED <<queued, task, copy, current>>
    BY <1>2, Names DEF Shape, Working, objects
  <1> QED  BY <1>1, <1>2 DEF Went

LEMMA StatementShape ==
    ASSUME Shape, NEW step \in Steps \ {"idle"}, Statement(step),
           NEW us \in [Users -> Maybe(Passwords)],
           NEW ds \in SUBSET Dbs, NEW gs \in SUBSET (Users \X Dbs),
           NEW next \in Steps \ {"idle"},
           step \in Reconciling <=> next \in Reconciling,
           kind = "mongo" => next \notin {"database", "read", "revoke", "revokeAll"},
           Went(us, ds, gs, next),
           rows' \subseteq Dbs, late' \subseteq Dbs, unread' \subseteq Users \X Dbs
    PROVE  Shape'
  <1>1. task \in Objs /\ UNCHANGED <<kind, objects, named, editsLeft>>
    BY DEF Statement, Shape, Working, TypeOK, Maybe
  <1>2. Working'
    <2>1. /\ step \in Reconciling => ~copy.deleting
          /\ step \in Deleting => copy.deleting
      BY DEF Statement, Shape, Working
    <2>2. \A x \in Steps \ {"idle"} : x \in Deleting <=> x \notin Reconciling
      BY DEF Steps, Deleting, Reconciling
    <2> QED  BY <1>1, <2>1, <2>2, WentWorking
  <1>3. TypeOK
    BY DEF Shape
  <1>4. /\ pc' \in Steps /\ task' \in Maybe(Objs) /\ copy' \in Maybe(Object)
        /\ current' \in BOOLEAN /\ queued' \subseteq Objs
        /\ users' \in [Users -> Maybe(Passwords)]
        /\ dbs' \subseteq Dbs /\ grants' \subseteq Users \X Dbs
        /\ faultsLeft' \in 0..MaxFaults
    BY <1>1, <1>3, WentType
  <1> QED  BY <1>1, <1>2, <1>3, <1>4 DEF Shape, TypeOK, objects

\* The databases a user has grants on are databases.
LEMMA GrantedToType ==
    ASSUME TypeOK, NEW u
    PROVE  /\ GrantedTo(u) \subseteq Dbs
           /\ \A d : d \in GrantedTo(u) <=> <<u, d>> \in grants
  BY DEF TypeOK, GrantedTo

LEMMA ShapeInit == Init => Shape
  <1> SUFFICES ASSUME Init PROVE Shape
    OBVIOUS
  <1>1. /\ obj \in [Objs -> Maybe(Object)] /\ cache = obj
        /\ users \in [Users -> Maybe(Passwords)] /\ named \in [Objs -> SUBSET Specs]
    BY DEF Init, Maybe
  <1>2. /\ fresh = Objs /\ queued = {} /\ pc = "idle" /\ task = Nothing
        /\ copy = Nothing /\ rows = {} /\ dbs = {} /\ grants = {}
        /\ late = {} /\ unread = {} /\ kind \in {"mysql", "mongo"}
    BY DEF Init
  <1>3. editsLeft \in 0..MaxEdits /\ faultsLeft \in 0..MaxFaults
    BY DEF Init
  <1>4. ~current /\ current \in BOOLEAN
    BY Zenon DEF Init
  <1> QED
    BY <1>1, <1>2, <1>3, <1>4
    DEF Shape, TypeOK, Working, Maybe, Steps, Reconciling, Deleting

\* A write by a site or by the finalizer's first step.
LEMMA WriteType ==
    ASSUME TypeOK, NEW o \in Objs, NEW x \in Maybe(Object), Write(o, x)
    PROVE  /\ obj' \in [Objs -> Maybe(Object)] /\ fresh' \subseteq Objs
           /\ current' \in BOOLEAN
  BY DEF TypeOK, Write

\* The three edits of an object.
LEMMA ObjectEdited ==
    ASSUME NEW x \in Object, NEW s \in Specs
    PROVE  /\ [x EXCEPT !.spec = s] \in Object
           /\ [x EXCEPT !.deleting = TRUE] \in Object
           /\ [x EXCEPT !.finalizer = TRUE] \in Object
  BY DEF Object

LEMMA ShapeSites ==
    ASSUME Shape, NEW o \in Objs,
           \/ \E s \in Specs : Create(o, s) \/ Change(o, s)
           \/ Delete(o) \/ AddFinalizer(o)
    PROVE  Shape'
  <1>1. PICK x \in Maybe(Object) : Write(o, x)
    <2>0. /\ Object \subseteq Maybe(Object) /\ Nothing \in Maybe(Object)
          /\ obj[o] # Nothing => obj[o] \in Object
      BY DEF Shape, TypeOK, Maybe
    <2>1. ASSUME NEW s \in Specs, Create(o, s)
          PROVE  \E x \in Maybe(Object) : Write(o, x)
      <3>1. [spec |-> s, finalizer |-> FALSE, deleting |-> FALSE,
             complete |-> FALSE] \in Object
        BY DEF Object
      <3> QED  BY Zenon, <2>0, <2>1, <3>1 DEF Create
    <2>2. ASSUME NEW s \in Specs, Change(o, s)
          PROVE  \E x \in Maybe(Object) : Write(o, x)
      <3>1. [obj[o] EXCEPT !.spec = s] \in Maybe(Object)
        BY Zenon, <2>0, <2>2, ObjectEdited DEF Change
      <3> QED  BY Zenon, <2>2, <3>1 DEF Change
    <2>3. CASE Delete(o)
      <3> DEFINE y == IF obj[o].finalizer THEN [obj[o] EXCEPT !.deleting = TRUE]
                      ELSE Nothing
      <3>1. Write(o, y)
        BY Zenon, <2>3 DEF Delete
      <3>2. y \in Maybe(Object)
        <4>1. [obj[o] EXCEPT !.deleting = TRUE] \in Maybe(Object)
          <5>1. obj[o] \in Object
            BY Zenon, <2>0, <2>3 DEF Delete
          <5> QED  BY <2>0, <5>1 DEF Object
        <4> QED  BY Zenon, <2>0, <4>1
      <3> QED  BY Zenon, <3>1, <3>2
    <2>4. CASE AddFinalizer(o)
      <3>1. [obj[o] EXCEPT !.finalizer = TRUE] \in Maybe(Object)
        <4>1. obj[o] \in Object
          BY <2>4 DEF AddFinalizer, Shape, Working, TypeOK, Maybe
        <4> QED  BY <2>0, <4>1 DEF Object
      <3> QED  BY Zenon, <2>4, <3>1 DEF AddFinalizer
    <2> QED  BY Zenon, <2>1, <2>2, <2>3, <2>4
  <1>2. /\ UNCHANGED <<kind, cache, queued, pc, task, copy, rows, server, late,
                       unread, faultsLeft>>
        /\ editsLeft' \in 0..MaxEdits
        /\ named' \in [Objs -> SUBSET Specs]
    <2>1. CASE \E s \in Specs : Create(o, s) \/ Change(o, s)
      BY <2>1 DEF Create, Change, Edit, Shape, TypeOK
    <2>2. CASE Delete(o) \/ AddFinalizer(o)
      BY <2>2 DEF Delete, AddFinalizer, Edit, Shape, TypeOK, history
    <2> QED  BY <2>1, <2>2
  <1>3. TypeOK'
    BY <1>1, <1>2, WriteType DEF Shape, TypeOK, server
  <1>4. /\ \A p \in fresh' : cache'[p] = obj'[p]
        /\ current' => task' # Nothing /\ copy' = obj'[task']
    BY <1>1, <1>2 DEF Write, Shape, TypeOK, Working, Maybe
  <1> QED
    BY <1>2, <1>3, <1>4 DEF Shape, Working

LEMMA ShapeStart ==
    ASSUME Shape, NEW o \in Objs, Start(o)
    PROVE  Shape'
  <1>1. cache[o] \in Object /\ pc' = FirstStep(cache[o]) /\ pc = "idle"
    BY DEF Start, Shape, TypeOK, Maybe
  <1>2. /\ pc' \in Steps \ {"idle"}
        /\ pc' \in Reconciling => ~cache[o].deleting
        /\ pc' \in Deleting => cache[o].deleting
        /\ pc' \notin {"database", "read", "revoke", "revokeAll"}
    BY <1>1 DEF FirstStep, Steps, Reconciling, Deleting
  <1> QED
    BY <1>1, <1>2
    DEF Start, Shape, TypeOK, Working, Maybe, objects, server, history

LEMMA ShapeOthers ==
    ASSUME Shape,
           \/ \E o \in Objs : Ignore(o) \/ Sync(o)
           \/ ServiceWrites
           \/ Crash
    PROVE  Shape'
  <1>1. CASE \E o \in Objs : Ignore(o)
    BY <1>1 DEF Ignore, Shape, TypeOK, Working, objects, worker, server, history
  <1>2. CASE \E o \in Objs : Sync(o)
    BY <1>2 DEF Sync, Shape, TypeOK, Working, worker, server, history
  <1>3. CASE ServiceWrites
    BY <1>3 DEF ServiceWrites, Shape, TypeOK, Working, objects, worker, D, Maybe
  <1>4. CASE Crash
    BY <1>4, FaultShape
    DEF Crash, Idle, Shape, TypeOK, Working, server, history, Maybe, Steps,
        Reconciling, Deleting
  <1> QED  BY <1>1, <1>2, <1>3, <1>4

LEMMA ShapeSave ==
    ASSUME Shape, SaveStatus \/ RemoveFinalizer
    PROVE  Shape'
  <1>1. task \in Objs
    BY DEF SaveStatus, RemoveFinalizer, Shape, Working, TypeOK, Maybe
  <1>2. UNCHANGED <<kind, cache, server, history, editsLeft>>
    BY DEF SaveStatus, RemoveFinalizer
  <1>3. faultsLeft' \in 0..MaxFaults
    BY FaultShape DEF SaveStatus, RemoveFinalizer, Refused, Shape, TypeOK
  <1>4. /\ pc' = "idle" /\ task' = Nothing /\ copy' = Nothing
        /\ current' = FALSE /\ rows' = {} /\ queued' \subseteq Objs
    BY <1>1, AbandonShape DEF SaveStatus, RemoveFinalizer, Idle, Shape, TypeOK
  <1>5. obj' \in [Objs -> Maybe(Object)] /\ fresh' \subseteq Objs
    <2>1. CASE UNCHANGED <<obj, fresh>>
      BY <2>1 DEF Shape, TypeOK
    <2>2. CASE current /\ obj' = [obj EXCEPT ![task] = Nothing]
      BY <1>1, <2>2 DEF SaveStatus, RemoveFinalizer, Shape, TypeOK, Maybe
    <2>3. CASE current /\ obj' = [obj EXCEPT ![task].complete = TRUE]
      <3>1. obj[task] \in Object
        BY <1>1, <2>3 DEF Shape, Working
      <3>2. [obj[task] EXCEPT !.complete = TRUE] \in Object
        BY <3>1 DEF Object
      <3> QED
        BY <1>1, <2>3, <3>2 DEF SaveStatus, RemoveFinalizer, Shape, TypeOK, Maybe
    <2> QED  BY <2>1, <2>2, <2>3 DEF SaveStatus, RemoveFinalizer
  <1>6. \A p \in fresh' : cache'[p] = obj'[p]
    BY <1>1, <1>2 DEF SaveStatus, RemoveFinalizer, Shape, TypeOK, Working
  <1>7. TypeOK'
    BY <1>2, <1>3, <1>4, <1>5 DEF Shape, TypeOK, server, history, Maybe, Steps
  <1> QED
    BY <1>2, <1>4, <1>6, <1>7 DEF Shape, Working, Reconciling, Deleting

\* The statements: each leads to a step of its own half.
LEMMA ShapeStatements ==
    ASSUME Shape,
           \/ ReconcileMysqlUser \/ ReconcileMongoUser \/ ReconcileDatabase
           \/ Revoke
           \/ RemoveMysqlUser \/ RemoveMongoUser \/ RevokePermissions
           \/ RemoveMysqlDatabase \/ RemoveMongoDatabase
    PROVE  Shape'
  <1> DEFINE without == [users EXCEPT ![U] = Nothing]
             bare == {g \in grants : g[1] # U}
  <1>0. TypeOK /\ (pc # "idle" => task # Nothing)
    BY DEF Shape, Working
  <1>1. pc # "idle" =>
          /\ WithPassword \in [Users -> Maybe(Passwords)]
          /\ without \in [Users -> Maybe(Passwords)]
          /\ bare \subseteq Users \X Dbs
          /\ bare \cup {<<U, D>>} \subseteq Users \X Dbs
          /\ dbs \cup {D} \subseteq Dbs
    BY <1>0, Names DEF TypeOK, WithPassword, Maybe
  <1>2. users \in [Users -> Maybe(Passwords)] /\ dbs \subseteq Dbs
        /\ grants \subseteq Users \X Dbs /\ rows \subseteq Dbs
        /\ late \subseteq Dbs /\ unread \subseteq Users \X Dbs
    BY <1>0 DEF TypeOK
  <1>3. CASE ReconcileMysqlUser
    <2>1. Went(WithPassword, dbs, grants, "database")
      BY <1>0, <1>3, ExecWent DEF ReconcileMysqlUser
    <2> QED
      BY <1>1, <1>2, <1>3, <2>1, StatementShape
      DEF ReconcileMysqlUser, Statement, Steps, Reconciling
  <1>4. CASE ReconcileMongoUser
    <2>1. Went(WithPassword, dbs, bare \cup {<<U, D>>}, "save")
      BY <1>0, <1>4, ExecWent DEF ReconcileMongoUser
    <2> QED
      BY <1>1, <1>2, <1>4, <2>1, StatementShape
      DEF ReconcileMongoUser, Statement, Steps, Reconciling
  <1>5. CASE ReconcileDatabase
    <2>1. Went(users, dbs \cup {D}, grants, "read")
      BY <1>0, <1>5, ExecWent DEF ReconcileDatabase
    <2>2. kind # "mongo"
      BY <1>5 DEF ReconcileDatabase, Statement, Shape, Working
    <2> QED
      BY <1>1, <1>2, <1>5, <2>1, <2>2, StatementShape
      DEF ReconcileDatabase, Statement, Steps, Reconciling
  <1>6. CASE Revoke
    <2>1. PICK d \in rows :
             /\ Exec(users, dbs, grants \ {<<U, d>>}, "revoke")
             /\ rows' = IF pc' = "idle" THEN {} ELSE rows \ {d}
      BY <1>6 DEF Revoke
    <2>2. Went(users, dbs, grants \ {<<U, d>>}, "revoke")
      BY <1>0, <2>1, ExecWent
    <2>3. grants \ {<<U, d>>} \subseteq Users \X Dbs /\ rows' \subseteq Dbs
      BY <1>2, <2>1
    <2>4. kind # "mongo"
      BY <1>6 DEF Revoke, Statement, Shape, Working
    <2> QED
      BY <1>2, <1>6, <2>2, <2>3, <2>4, StatementShape
      DEF Revoke, Statement, Steps, Reconciling
  <1>7. CASE RemoveMysqlUser
    <2>1. PICK us \in [Users -> Maybe(Passwords)], gs \in SUBSET (Users \X Dbs) :
             Went(us, dbs, gs, "revokeAll")
      <3>1. Went(without, dbs, bare, "revokeAll") /\ pc # "idle"
        BY <1>0, <1>7, ExecWent DEF RemoveMysqlUser, DropUser, Statement
      <3> QED  BY <1>1, <3>1
    <2>2. Statement("removeUser") /\ kind = "mysql" /\ UNCHANGED <<rows, late, unread>>
      BY <1>7 DEF RemoveMysqlUser
    <2> QED
      BY <1>2, <2>1, <2>2, StatementShape DEF Steps, Reconciling
  <1>8. CASE RemoveMongoUser
    <2>1. PICK us \in [Users -> Maybe(Passwords)], gs \in SUBSET (Users \X Dbs) :
             Went(us, dbs, gs, "finalizer")
      <3>1. Went(without, dbs, bare, "finalizer") /\ pc # "idle"
        BY <1>0, <1>8, ExecWent DEF RemoveMongoUser, DropUser, Statement
      <3> QED  BY <1>1, <3>1
    <2>2. Statement("removeUser") /\ UNCHANGED <<rows, late, unread>>
      BY <1>8 DEF RemoveMongoUser
    <2> QED
      BY <1>2, <2>1, <2>2, StatementShape DEF Steps, Reconciling
  <1>9. CASE RevokePermissions
    <2>1. Went(users, dbs, bare, "removeDatabase")
      BY <1>0, <1>9, ExecWent DEF RevokePermissions
    <2> QED
      BY <1>1, <1>2, <1>9, <2>1, StatementShape
      DEF RevokePermissions, Statement, Steps, Reconciling
  <1>10. CASE RemoveMysqlDatabase
    <2>1. PICK rest \in SUBSET Dbs : Went(users, rest, grants, "finalizer")
      BY <1>0, <1>2, <1>10, ExecWent DEF RemoveMysqlDatabase
    <2>2. Statement("removeDatabase") /\ UNCHANGED <<rows, late, unread>>
      BY <1>10 DEF RemoveMysqlDatabase
    <2> QED
      BY <1>2, <2>1, <2>2, StatementShape DEF Steps, Reconciling
  <1>11. CASE RemoveMongoDatabase
    <2>1. PICK rest \in SUBSET Dbs : Went(users, rest, grants, "removeUser")
      BY <1>0, <1>2, <1>11, ExecWent DEF RemoveMongoDatabase
    <2>2. late' \subseteq Dbs
      BY <1>2, <1>11 DEF RemoveMongoDatabase
    <2>3. Statement("removeDatabase") /\ UNCHANGED <<rows, unread>>
      BY <1>11 DEF RemoveMongoDatabase
    <2> QED
      BY <1>2, <2>1, <2>2, <2>3, StatementShape DEF Steps, Reconciling
  <1> QED
    BY <1>3, <1>4, <1>5, <1>6, <1>7, <1>8, <1>9, <1>10, <1>11

LEMMA ShapeRead ==
    ASSUME Shape, ReadPermissions
    PROVE  Shape'
  <1>1. /\ kind # "mongo" /\ pc = "read" /\ TypeOK /\ task # Nothing
        /\ UNCHANGED server /\ late' \subseteq Dbs
    BY DEF ReadPermissions, Statement, Shape, Working, TypeOK
  <1>2. GrantedTo(U) \subseteq Dbs /\ U \in Users /\ task \in Objs
    BY <1>1, Names, GrantedToType
  <1>3. Went(users, dbs, grants, "revoke")
    BY <1>1, FaultShape DEF ReadPermissions, Went, server, TypeOK
  <1>4. rows' \subseteq Dbs /\ unread' \subseteq Users \X Dbs
    BY <1>1, <1>2, AbandonShape DEF ReadPermissions, TypeOK
  <1> QED
    BY <1>1, <1>3, <1>4, StatementShape
    DEF ReadPermissions, TypeOK, Steps, Reconciling

LEMMA ShapeGrant ==
    ASSUME Shape, Grant
    PROVE  Shape'
  <1>1. /\ kind # "mongo" /\ pc = "revoke" /\ TypeOK /\ task # Nothing
        /\ rows' \subseteq Dbs /\ late' \subseteq Dbs /\ unread' \subseteq Users \X Dbs
    BY DEF Grant, Statement, Shape, Working, TypeOK
  <1>2. CASE D \in rows
    <2>1. Went(users, dbs, grants, "save")
      BY <1>1, <1>2 DEF Grant, Went, server, TypeOK
    <2> QED
      BY <1>1, <2>1, StatementShape DEF Grant, TypeOK, Steps, Reconciling
  <1>3. CASE D \notin rows
    <2>1. Went(users, dbs, grants \cup {<<U, D>>}, "save")
      BY <1>1, <1>3, ExecWent DEF Grant
    <2>2. grants \cup {<<U, D>>} \subseteq Users \X Dbs
      BY <1>1, Names DEF TypeOK
    <2> QED
      BY <1>1, <2>1, <2>2, StatementShape DEF Grant, TypeOK, Steps, Reconciling
  <1> QED  BY <1>2, <1>3

LEMMA ShapeStep == Shape /\ [Next]_vars => Shape'
  <1>1. CASE UNCHANGED vars
    BY <1>1
    DEF vars, objects, worker, server, history, Shape, TypeOK, Working
  <1> QED
    BY <1>1, ShapeSites, ShapeStart, ShapeOthers, ShapeSave, ShapeStatements,
       ShapeRead, ShapeGrant
    DEF Next, Worker, Reconcile

\* Objects, the worker, the server's users, databases and grants stay well
\* typed; in particular the status and the finalizer are never written to an
\* object that is gone, for the write needs the latest copy
\* (mysqldatabase_controller.go:62-116).
THEOREM ServerTypeCorrect == Spec => []TypeOK
  <1>1. Shape => TypeOK
    BY DEF Shape
  <1> QED  BY <1>1, ShapeInit, ShapeStep, PTL DEF Spec

-----------------------------------------------------------------------------
(***************************************************************************)
(* What all statements have in common.                                     *)
(***************************************************************************)

AnyStatement ==
    \/ ReconcileMysqlUser \/ ReconcileMongoUser \/ ReconcileDatabase
    \/ ReadPermissions \/ Revoke \/ Grant
    \/ RemoveMysqlUser \/ RemoveMongoUser \/ RevokePermissions
    \/ RemoveMysqlDatabase \/ RemoveMongoDatabase

\* A statement changes nothing on the server but what the copy names.
TouchesOwn ==
    /\ \A u \in Users : u # U => users'[u] = users[u]
    /\ \A d \in Dbs : d # D => /\ d \in dbs' <=> d \in dbs
                               /\ d \in late' <=> d \in late
    /\ \A u \in Users, d \in Dbs : u # U =>
          /\ <<u, d>> \in grants' <=> <<u, d>> \in grants
          /\ <<u, d>> \in unread' <=> <<u, d>> \in unread

Frame ==
    /\ pc # "idle"
    /\ UNCHANGED <<kind, objects, named>>
    /\ \/ UNCHANGED <<queued, task, copy, current>>
       \/ Abandon
    /\ TouchesOwn

LEMMA StatementFrame ==
    ASSUME Shape, AnyStatement
    PROVE  Frame
  <1>1. /\ pc # "idle" /\ task # Nothing /\ TypeOK
        /\ UNCHANGED <<kind, objects, named>>
    BY DEF AnyStatement, Statement, ReconcileMysqlUser, ReconcileMongoUser,
           ReconcileDatabase, ReadPermissions, Revoke, Grant, RemoveMysqlUser,
           RemoveMongoUser, RevokePermissions, RemoveMysqlDatabase,
           RemoveMongoDatabase, Shape, Working
  <1>2. UNCHANGED <<queued, task, copy, current>> \/ Abandon
    BY DEF AnyStatement, Exec, DropUser, ReconcileMysqlUser, ReconcileMongoUser,
           ReconcileDatabase, ReadPermissions, Revoke, Grant, RemoveMysqlUser,
           RemoveMongoUser, RevokePermissions, RemoveMysqlDatabase,
           RemoveMongoDatabase
  <1>3. U \in Users /\ D \in Dbs
    BY <1>1, Names
  <1> SUFFICES TouchesOwn
    BY <1>1, <1>2 DEF Frame
  <1>4. CASE ReconcileMysqlUser
    BY <1>1, <1>4
    DEF Exec, TouchesOwn, server, ReconcileMysqlUser, WithPassword, TypeOK
  <1>5. CASE ReconcileMongoUser
    BY <1>1, <1>5
    DEF Exec, TouchesOwn, server, ReconcileMongoUser, WithPassword, TypeOK
  <1>6. CASE ReconcileDatabase
    BY <1>1, <1>6 DEF Exec, TouchesOwn, server, ReconcileDatabase
  <1>7. CASE ReadPermissions
    BY <1>1, <1>3, <1>7 DEF ReadPermissions, TouchesOwn, server
  <1>8. CASE Revoke
    BY <1>1, <1>8 DEF Exec, TouchesOwn, server, Revoke
  <1>9. CASE Grant
    <2>1. CASE D \in rows
      BY <1>9, <2>1 DEF Grant, TouchesOwn, server
    <2>2. CASE D \notin rows
      BY <1>1, <1>9, <2>2 DEF Exec, TouchesOwn, server, Grant
    <2> QED  BY <2>1, <2>2
  <1>10. CASE RemoveMysqlUser
    BY <1>1, <1>10 DEF Exec, TouchesOwn, server, RemoveMysqlUser, DropUser, TypeOK
  <1>11. CASE RemoveMongoUser
    BY <1>1, <1>11 DEF Exec, TouchesOwn, server, RemoveMongoUser, DropUser, TypeOK
  <1>12. CASE RevokePermissions
    BY <1>1, <1>12 DEF Exec, TouchesOwn, server, RevokePermissions
  <1>13. CASE RemoveMysqlDatabase
    BY <1>1, <1>13 DEF Exec, TouchesOwn, server, RemoveMysqlDatabase
  <1>14. CASE RemoveMongoDatabase
    BY <1>1, <1>14 DEF Exec, TouchesOwn, server, RemoveMongoDatabase
  <1> QED
    BY <1>4, <1>5, <1>6, <1>7, <1>8, <1>9, <1>10, <1>11, <1>12, <1>13, <1>14
    DEF AnyStatement

-----------------------------------------------------------------------------
(* Versions. *)

LEMMA VersionsInit == Init => Versions
  BY DEF Init, Versions, VersionOf

LEMMA VersionsFrame ==
    ASSUME Shape, Versions, Frame
    PROVE  Versions'
  <1>1. /\ UNCHANGED objects
        /\ task \in Objs
    BY DEF Frame, Shape, Working, TypeOK, Maybe
  <1>2. CASE UNCHANGED <<queued, task, copy, current>>
    BY <1>1, <1>2 DEF Versions, VersionOf, objects
  <1>3. CASE Abandon
    BY <1>1, <1>3 DEF Versions, VersionOf, objects, Abandon, Idle
  <1> QED  BY <1>2, <1>3 DEF Frame

LEMMA VersionsSites ==
    ASSUME Shape, Versions, NEW o \in Objs,
           \/ \E s \in Specs : Create(o, s) \/ Change(o, s)
           \/ Delete(o) \/ AddFinalizer(o)
    PROVE  Versions'
  <1> SUFFICES ASSUME NEW p \in Objs PROVE VersionOf(p)'
    BY DEF Versions
  <1>1. UNCHANGED <<cache, queued, pc, task, copy>>
    BY DEF Create, Change, Delete, AddFinalizer
  <1>2. PICK x : Write(o, x)
    BY DEF Create, Change, Delete, AddFinalizer
  <1>3. CASE p # o
    <2>1. /\ obj'[p] = obj[p] /\ (p \in fresh' <=> p \in fresh)
          /\ task = p => (current' <=> current)
      BY <1>2, <1>3 DEF Write, Shape, TypeOK
    <2> QED  BY <1>1, <2>1 DEF Versions, VersionOf
  <1>4. CASE p = o
    <2>1. o \notin fresh' /\ (task = o => ~current') /\ obj'[o] = x
      BY <1>2 DEF Write, Shape, TypeOK
    <2>2. CASE \E s \in Specs : Create(o, s)
      BY <1>1, <1>4, <2>1, <2>2
      DEF Create, Versions, VersionOf, Shape, Working, Write, TypeOK
    <2>3. CASE \E s \in Specs : Change(o, s)
      <3>1. /\ obj[o] \in Object /\ obj[o] # Nothing
            /\ obj'[o] \in Object /\ obj'[o] # Nothing
            /\ obj'[o].finalizer = obj[o].finalizer
            /\ obj'[o].deleting = obj[o].deleting
        BY <2>3 DEF Change, Shape, TypeOK, Write, Maybe, Object
      <3> QED  BY <1>1, <1>4, <2>1, <3>1 DEF Versions, VersionOf
    <2>4. CASE Delete(o)
      <3>1. obj[o] \in Object /\ obj[o] # Nothing
        BY <2>4 DEF Delete, Shape, TypeOK, Maybe
      <3>2. CASE obj[o].finalizer
        <4>1. /\ obj'[o] # Nothing /\ obj'[o].finalizer /\ obj'[o].deleting
          BY <2>4, <3>1, <3>2 DEF Delete, Write, Shape, TypeOK, Object
        <4> QED  BY <1>1, <1>4, <2>1, <3>2, <4>1 DEF Versions, VersionOf
      <3>3. CASE ~obj[o].finalizer
        <4>1. obj'[o] = Nothing
          BY <2>4, <3>3 DEF Delete, Write, Shape, TypeOK
        <4> QED
          BY <1>1, <1>4, <2>1, <3>1, <3>3, <4>1 DEF Versions, VersionOf, Shape, Working
      <3> QED  BY <3>2, <3>3
    <2>5. CASE AddFinalizer(o)
      BY <1>1, <1>4, <2>1, <2>5
      DEF AddFinalizer, Write, Versions, VersionOf, Shape, Working, TypeOK, Maybe, Object
    <2> QED  BY <2>2, <2>3, <2>4, <2>5
  <1> QED  BY <1>3, <1>4

LEMMA VersionsOthers ==
    ASSUME Shape, Versions,
           \/ \E o \in Objs : Ignore(o) \/ Sync(o) \/ Start(o)
           \/ ServiceWrites \/ Crash \/ SaveStatus \/ RemoveFinalizer
           \/ UNCHANGED vars
    PROVE  Versions'
  <1>0. TypeOK /\ Working
    BY DEF Shape
  <1>1. CASE \E o \in Objs : Ignore(o)
    BY <1>0, <1>1 DEF Ignore, Versions, VersionOf, objects, worker, Working, TypeOK
  <1>2. CASE \E o \in Objs : Sync(o)
    BY <1>0, <1>2 DEF Sync, Versions, VersionOf, worker, Working, TypeOK
  <1>3. CASE \E o \in Objs : Start(o)
    BY ZenonT(60), <1>0, <1>3
    DEF Start, Versions, VersionOf, objects, Working, TypeOK
  <1>4. CASE ServiceWrites \/ UNCHANGED vars
    BY <1>4 DEF ServiceWrites, vars, objects, worker, Versions, VersionOf
  <1>5. CASE Crash
    BY <1>0, <1>5 DEF Crash, Idle, Versions, VersionOf, TypeOK
  <1>6. CASE SaveStatus
    <2>1. task \in Objs
      BY <1>0, <1>6 DEF SaveStatus, Working, TypeOK, Maybe
    <2>2. /\ task' = Nothing /\ UNCHANGED cache
          /\ queued' \in {queued, queued \cup {task}}
      BY <1>6 DEF SaveStatus, Abandon, Idle
    <2>3. CASE UNCHANGED <<obj, fresh>>
      BY <2>1, <2>2, <2>3 DEF Versions, VersionOf
    <2>4. CASE /\ current /\ obj' = [obj EXCEPT ![task].complete = TRUE]
               /\ UNCHANGED queued
      <3>1. /\ obj[task] \in Object /\ obj[task] # Nothing
            /\ obj'[task] \in Object /\ obj'[task] # Nothing
            /\ obj'[task].finalizer = obj[task].finalizer
            /\ obj'[task].deleting = obj[task].deleting
            /\ \A p \in Objs : p # task => obj'[p] = obj[p]
        BY ZenonT(60), <1>0, <2>1, <2>4 DEF Working, TypeOK, Object
      <3> QED  BY <2>1, <2>2, <2>4, <3>1 DEF Versions, VersionOf
    <2> QED  BY <1>6, <2>3, <2>4 DEF SaveStatus
  <1>7. CASE RemoveFinalizer
    <2>1. task \in Objs
      BY <1>0, <1>7 DEF RemoveFinalizer, Working, TypeOK, Maybe
    <2>2. /\ task' = Nothing /\ UNCHANGED cache
          /\ queued' \in {queued, queued \cup {task}}
      BY <1>7 DEF RemoveFinalizer, Abandon, Idle
    <2>3. CASE UNCHANGED <<obj, fresh>>
      BY <2>1, <2>2, <2>3 DEF Versions, VersionOf
    <2>4. CASE /\ current /\ obj' = [obj EXCEPT ![task] = Nothing]
               /\ UNCHANGED queued
      BY <1>0, <2>1, <2>2, <2>4 DEF Versions, VersionOf, TypeOK
    <2> QED  BY <1>7, <2>3, <2>4 DEF RemoveFinalizer
  <1> QED
    BY <1>1, <1>2, <1>3, <1>4, <1>5, <1>6, <1>7

-----------------------------------------------------------------------------
(* Naming. *)

LEMMA NamingInit == Init => Naming
  BY DEF Init, Naming

\* What a statement may leave on the server.
LEMMA NamingStatement ==
    ASSUME Shape, Naming, Frame,
           users'[U] \in {users[U], Nothing, copy.spec.password},
           dbs' \subseteq dbs \cup {D},
           grants' \subseteq grants \cup {<<U, D>>},
           \A g \in grants' : users'[g[1]] # Nothing
    PROVE  Naming'
  <1>1. task \in Objs /\ copy.spec \in named[task] /\ UNCHANGED <<objects, named>>
    BY DEF Frame, Shape, Working, TypeOK, Maybe, Naming
  <1>2. \A o \in Objs : task' = o => copy'.spec \in named'[o]
    BY <1>1 DEF Frame, Abandon, Idle, Naming
  <1>3. \A u \in Users : users'[u] # Nothing =>
          \E o \in Objs : \E s \in named[o] : s.user = u /\ s.password = users'[u]
    BY <1>1 DEF Frame, TouchesOwn, Naming, U
  <1>4. \A d \in dbs' : \E o \in Objs : \E s \in named[o] : s.db = d
    BY <1>1 DEF Naming, D
  <1>5. \A g \in grants' : \E o \in Objs : \E s \in named[o] :
          s.user = g[1] /\ s.db = g[2]
    BY <1>1 DEF Naming, U, D
  <1> QED  BY <1>1, <1>2, <1>3, <1>4, <1>5 DEF Naming, objects

\* The pairs with privileges are pairs of a user and a database.
LEMMA GrantPairs ==
    ASSUME TypeOK, NEW g \in grants
    PROVE  /\ g[1] \in Users /\ g[2] \in Dbs /\ g = <<g[1], g[2]>>
  BY DEF TypeOK

LEMMA NamingStatements ==
    ASSUME Shape, Naming, Progress, AnyStatement
    PROVE  Naming'
  <1>1. Frame
    BY StatementFrame
  <1>2. TypeOK /\ U \in Users /\ copy.spec.password # Nothing
    BY <1>1, Names DEF Shape, Working, Frame
  <1>3. \A g \in grants : users[g[1]] # Nothing
    BY DEF Naming
  <1> USE DEF Exec, server
  <1> SUFFICES /\ users'[U] \in {users[U], Nothing, copy.spec.password}
               /\ dbs' \subseteq dbs \cup {D}
               /\ grants' \subseteq grants \cup {<<U, D>>}
               /\ \A g \in grants' : users'[g[1]] # Nothing
    BY <1>1, NamingStatement
  <1>4. CASE ReconcileMysqlUser
    BY <1>2, <1>3, <1>4, GrantPairs DEF ReconcileMysqlUser, WithPassword, TypeOK
  <1>5. CASE ReconcileMongoUser
    BY <1>2, <1>3, <1>5, GrantPairs DEF ReconcileMongoUser, WithPassword, TypeOK
  <1>6. CASE ReconcileDatabase
    BY <1>3, <1>6 DEF ReconcileDatabase
  <1>7. CASE ReadPermissions
    BY <1>3, <1>7 DEF ReadPermissions
  <1>8. CASE Revoke
    BY <1>3, <1>8 DEF Revoke
  <1>9. CASE Grant
    <2>1. users[U] = copy.spec.password
      BY <1>9 DEF Grant, Statement, Progress
    <2> QED  BY <1>2, <1>3, <1>9, <2>1 DEF Grant
  <1>10. CASE RemoveMysqlUser
    BY <1>2, <1>3, <1>10, GrantPairs DEF RemoveMysqlUser, DropUser, TypeOK
  <1>11. CASE RemoveMongoUser
    BY <1>2, <1>3, <1>11, GrantPairs DEF RemoveMongoUser, DropUser, TypeOK
  <1>12. CASE RevokePermissions
    BY <1>3, <1>12 DEF RevokePermissions
  <1>13. CASE RemoveMysqlDatabase
    BY <1>3, <1>13 DEF RemoveMysqlDatabase
  <1>14. CASE RemoveMongoDatabase
    BY <1>3, <1>14 DEF RemoveMongoDatabase
  <1> QED
    BY <1>4, <1>5, <1>6, <1>7, <1>8, <1>9, <1>10, <1>11, <1>12, <1>13, <1>14
    DEF AnyStatement

\* The names of objects only grow, with their specs.
LEMMA NamingSites ==
    ASSUME Shape, Naming, NEW o \in Objs,
           \/ \E s \in Specs : Create(o, s) \/ Change(o, s)
           \/ Delete(o) \/ AddFinalizer(o)
    PROVE  Naming'
  <1>1. /\ UNCHANGED <<cache, pc, task, copy, server>>
        /\ \A p \in Objs : named[p] \subseteq named'[p]
    <2>1. CASE \E s \in Specs : Create(o, s) \/ Change(o, s)
      BY <2>1 DEF Create, Change, Shape, TypeOK
    <2>2. CASE Delete(o) \/ AddFinalizer(o)
      BY <2>2 DEF Delete, AddFinalizer, history
    <2> QED  BY <2>1, <2>2
  <1>2. \A p \in Objs : obj'[p] # Nothing => obj'[p].spec \in named'[p]
    <2> SUFFICES ASSUME NEW p \in Objs, obj'[p] # Nothing
                 PROVE  obj'[p].spec \in named'[p]
      OBVIOUS
    <2>1. CASE \E s \in Specs : Create(o, s)
      BY <1>1, <2>1 DEF Create, Write, Naming, Shape, TypeOK
    <2>3. CASE \E s \in Specs : Change(o, s)
      <3>1. PICK s \in Specs : Change(o, s)
        BY <2>3
      <3>2. obj[o] \in Object
        BY <3>1 DEF Change, Shape, TypeOK, Maybe
      <3>3. [obj[o] EXCEPT !.spec = s].spec = s
        BY <3>2 DEF Object
      <3> QED
        BY <1>1, <3>1, <3>3 DEF Change, Write, Naming, Shape, TypeOK
    <2>4. CASE Delete(o) \/ AddFinalizer(o)
      <3>1. obj[o] # Nothing /\ obj[o] \in Object
        BY <2>4 DEF Delete, AddFinalizer, Shape, Working, TypeOK, Maybe
      <3>2. obj'[p] = obj[p] \/ obj'[p] # Nothing => obj'[p].spec = obj[p].spec
        BY <2>4, <3>1 DEF Delete, AddFinalizer, Write, Shape, TypeOK, Object
      <3> QED
        BY <1>1, <2>4, <3>1, <3>2 DEF Delete, AddFinalizer, Write, Naming, Shape, TypeOK
    <2> QED  BY <2>1, <2>3, <2>4
  <1> QED
    BY <1>1, <1>2 DEF Naming, server

LEMMA NamingOthers ==
    ASSUME Shape, Naming,
           \/ \E o \in Objs : Ignore(o) \/ Sync(o) \/ Start(o)
           \/ ServiceWrites \/ Crash \/ SaveStatus \/ RemoveFinalizer
           \/ UNCHANGED vars
    PROVE  Naming'
  <1>0. TypeOK /\ Working
    BY DEF Shape
  <1>1. CASE \E o \in Objs : Ignore(o)
    BY <1>1 DEF Ignore, Naming, objects, worker, server, history
  <1>2. CASE \E o \in Objs : Sync(o)
    BY <1>0, <1>2 DEF Sync, Naming, worker, server, history, TypeOK
  <1>3. CASE \E o \in Objs : Start(o)
    BY <1>3 DEF Start, Naming, objects, server, history
  <1>4. CASE ServiceWrites
    <2>1. PICK g \in grants : dbs' = dbs \cup {g[2]}
      BY <1>4 DEF ServiceWrites
    <2> QED
      BY <1>4, <2>1 DEF ServiceWrites, Naming, objects, worker
  <1>5. CASE Crash
    BY <1>0, <1>5 DEF Crash, Idle, Naming, server, history
  <1>6. CASE SaveStatus \/ RemoveFinalizer
    <2>1. /\ task' = Nothing /\ UNCHANGED <<cache, server, history>>
      BY <1>6 DEF SaveStatus, RemoveFinalizer, Abandon, Idle
    <2>2. \A p \in Objs : obj'[p] # Nothing =>
            obj[p] # Nothing /\ obj'[p].spec = obj[p].spec
      <3>1. CASE UNCHANGED obj
        BY <3>1
      <3>2. CASE obj' = [obj EXCEPT ![task] = Nothing]
        BY <1>0, <3>2 DEF TypeOK
      <3>3. CASE SaveStatus /\ current /\ obj' = [obj EXCEPT ![task].complete = TRUE]
        <4>1. task \in Objs /\ obj[task] \in Object /\ obj[task] # Nothing
          BY <1>0, <3>3 DEF Working, TypeOK, Maybe, Object
        <4>2. obj'[task].spec = obj[task].spec
          BY <1>0, <3>3, <4>1 DEF TypeOK, Object
        <4>3. \A p \in Objs : p # task => obj'[p] = obj[p]
          BY <1>0, <3>3 DEF TypeOK
        <4> QED  BY <4>1, <4>2, <4>3
      <3> QED  BY <1>6, <3>1, <3>2, <3>3 DEF SaveStatus, RemoveFinalizer
    <2> QED
      BY <1>0, <2>1, <2>2 DEF Naming, server, history
  <1>7. CASE UNCHANGED vars
    BY <1>7 DEF vars, Naming, objects, worker, server, history
  <1> QED
    BY <1>1, <1>2, <1>3, <1>4, <1>5, <1>6, <1>7

-----------------------------------------------------------------------------
(* Progress. *)

LEMMA ProgressInit == Init => Progress
  BY DEF Init, Progress

LEMMA ProgressStatements ==
    ASSUME Shape, Naming, Progress, AnyStatement
    PROVE  Progress'
  <1>1. Frame
    BY StatementFrame
  <1>2. /\ TypeOK /\ U \in Users /\ D \in Dbs
        /\ kind = "mongo" => pc \notin {"database", "read", "revoke", "revokeAll"}
        /\ UNCHANGED <<kind, named>>
    BY <1>1, Names DEF Shape, Working, Frame
  <1>3. CASE Abandon
    BY <1>3 DEF Abandon, Idle, Progress
  <1> SUFFICES ASSUME ~Abandon PROVE Progress'
    BY <1>3
  <1>4. UNCHANGED <<task, copy>> /\ U' = U /\ D' = D
    BY <1>1 DEF Frame, U, D
  <1> USE DEF Exec, server
  <1>5. CASE ReconcileMysqlUser
    BY <1>2, <1>4, <1>5 DEF ReconcileMysqlUser, WithPassword, TypeOK, Progress
  <1>6. CASE ReconcileMongoUser
    <2>1. /\ users'[U] = copy.spec.password /\ kind = "mongo" /\ pc' = "save"
          /\ grants' = {g \in grants : g[1] # U} \cup {<<U, D>>}
          /\ UNCHANGED unread
      BY <1>2, <1>6 DEF ReconcileMongoUser, WithPassword, TypeOK
    <2> QED  BY <1>2, <1>4, <2>1 DEF Progress
  <1>7. CASE ReconcileDatabase
    BY <1>2, <1>4, <1>7 DEF ReconcileDatabase, Statement, Progress
  <1>8. CASE ReadPermissions
    <2>1. /\ pc = "read" /\ pc' = "revoke" /\ UNCHANGED server
          /\ rows' \subseteq GrantedTo(U)
          /\ \A d \in Dbs : d \in GrantedTo(U) =>
                d \in rows' \/ <<U, d>> \in unread'
      BY <1>2, <1>8 DEF ReadPermissions, Statement
    <2> QED  BY <1>2, <1>4, <2>1, GrantedToType DEF Progress
  <1>9. CASE Revoke
    <2>1. PICK d \in rows \ {D} :
             /\ grants' = grants \ {<<U, d>>} /\ rows' \in {{}, rows \ {d}}
             /\ pc = "revoke" /\ pc' = "revoke"
             /\ rows' = rows \ {d}
             /\ UNCHANGED <<users, dbs, unread>>
      BY <1>9 DEF Revoke, Statement
    <2> QED  BY <1>2, <1>4, <2>1 DEF Progress
  <1>10. CASE Grant
    <2>1. /\ pc = "revoke" /\ pc' = "save" /\ UNCHANGED <<users, dbs, unread>>
          /\ rows \subseteq {D}
          /\ \/ D \in rows /\ UNCHANGED grants
             \/ grants' = grants \cup {<<U, D>>}
      BY <1>10 DEF Grant, Statement
    <2> QED  BY <1>2, <1>4, <2>1 DEF Progress
  <1>11. CASE RemoveMysqlUser
    BY <1>2, <1>4, <1>11 DEF RemoveMysqlUser, DropUser, TypeOK, Progress
  <1>12. CASE RemoveMongoUser
    <2>1. /\ users'[U] = Nothing /\ kind = "mongo"
          /\ pc = "removeUser" /\ pc' = "finalizer"
          /\ UNCHANGED <<dbs, late>>
      BY <1>2, <1>12 DEF RemoveMongoUser, Statement, DropUser, TypeOK
    <2> QED  BY <1>2, <1>4, <2>1 DEF Progress
  <1>13. CASE RevokePermissions
    BY <1>2, <1>4, <1>13 DEF RevokePermissions, Statement, Progress
  <1>14. CASE RemoveMysqlDatabase
    BY <1>2, <1>4, <1>14 DEF RemoveMysqlDatabase, Statement, Progress
  <1>15. CASE RemoveMongoDatabase
    BY <1>2, <1>4, <1>15 DEF RemoveMongoDatabase, Statement, Progress
  <1> QED
    BY <1>5, <1>6, <1>7, <1>8, <1>9, <1>10, <1>11, <1>12, <1>13, <1>14, <1>15
    DEF AnyStatement

\* Who shared a name still does after an edit.
LEMMA AloneShrinks ==
    ASSUME NEW o \in Objs, \A p \in Objs : named[p] \subseteq named'[p]
    PROVE  Alone(o)' => Alone(o)
  BY DEF Alone

\* What a site does to the names.
LEMMA SitesNamed ==
    ASSUME Shape, NEW o \in Objs,
           \/ \E s \in Specs : Create(o, s) \/ Change(o, s)
           \/ Delete(o) \/ AddFinalizer(o)
    PROVE  /\ UNCHANGED <<kind, cache, queued, pc, task, copy, rows, server, late,
                          unread>>
           /\ \A p \in Objs : named[p] \subseteq named'[p]
           /\ \A p \in Objs \ {o} : named'[p] = named[p] /\ obj'[p] = obj[p]
  <1>1. CASE \E s \in Specs : Create(o, s) \/ Change(o, s)
    BY <1>1 DEF Create, Change, Write, Shape, TypeOK
  <1>2. CASE Delete(o) \/ AddFinalizer(o)
    BY <1>2 DEF Delete, AddFinalizer, Write, history, Shape, TypeOK
  <1> QED  BY <1>1, <1>2

\* An object whose only spec is still s after an edit had that spec before,
\* or none.
LEMMA SoleBefore ==
    ASSUME Shape, Naming, NEW o \in Objs, NEW s,
           \E t \in Specs : Change(o, t)
    PROVE  named'[o] # {s}
  <1>1. PICK t \in Specs : Change(o, t)
    OBVIOUS
  <1>2. /\ obj[o].spec \in named[o] /\ obj[o].spec # t
        /\ named'[o] = named[o] \cup {t}
    BY <1>1 DEF Change, Naming, Shape, TypeOK
  <1> QED  BY <1>2

LEMMA ProgressSites ==
    ASSUME Shape, Naming, Versions, Progress, NEW o \in Objs,
           \/ \E s \in Specs : Create(o, s) \/ Change(o, s)
           \/ Delete(o) \/ AddFinalizer(o)
    PROVE  Progress'
  <1>1. /\ UNCHANGED <<kind, pc, task, copy, rows, server, late, unread>>
        /\ U' = U /\ D' = D
    BY SitesNamed DEF U, D
  <1>2. ASSUME kind = "mongo", pc = "finalizer",
               Alone(task)', named'[task] = {copy.spec}
        PROVE  Alone(task) /\ named[task] = {copy.spec}
    <2>1. task \in Objs /\ copy.spec \in named[task] /\ obj[task] # Nothing
      BY <1>2 DEF Shape, Working, TypeOK, Maybe, Naming, Versions, VersionOf
    <2>2. Alone(task)
      BY <1>1, <1>2, <2>1, SitesNamed, AloneShrinks DEF Alone
    <2>3. named[task] \subseteq named'[task]
      BY <2>1, SitesNamed
    <2> QED  BY <1>2, <2>1, <2>2, <2>3
  <1> QED  BY <1>1, <1>2 DEF Progress, server

\* A user that a service logs in with, and what it writes, have been named.
LEMMA ProgressWrites ==
    ASSUME Shape, Naming, Progress, ServiceWrites
    PROVE  Progress'
  <1>1. /\ kind = "mongo"
        /\ UNCHANGED <<kind, pc, task, copy, rows, users, grants, named, unread>>
        /\ U' = U /\ D' = D
    BY DEF ServiceWrites, worker, U, D
  <1>2. PICK g \in grants :
          /\ dbs' = dbs \cup {g[2]}
          /\ late' = IF pc = "removeUser" /\ D = g[2] THEN late \cup {D} ELSE late
    BY DEF ServiceWrites
  <1>3. ASSUME pc = "finalizer", Alone(task), named[task] = {copy.spec}
        PROVE  g[2] # D
    <2>1. task \in Objs /\ users[U] = Nothing /\ users[g[1]] # Nothing
      BY <1>1, <1>3 DEF Shape, Working, TypeOK, Maybe, Progress, Naming
    <2>2. PICK p \in Objs : \E t \in named[p] : t.user = g[1] /\ t.db = g[2]
      BY DEF Naming
    <2>3. p # task
      BY <1>3, <2>1, <2>2 DEF U
    <2> QED  BY <1>3, <2>1, <2>2, <2>3 DEF Alone, Apart, D
  <1>4. Alone(task)' <=> Alone(task)
    BY <1>1 DEF Alone
  <1> QED  BY <1>1, <1>2, <1>3, <1>4 DEF Progress

LEMMA ProgressOthers ==
    ASSUME Shape, Progress,
           \/ \E o \in Objs : Ignore(o) \/ Sync(o) \/ Start(o)
           \/ Crash \/ SaveStatus \/ RemoveFinalizer
           \/ UNCHANGED vars
    PROVE  Progress'
  <1>1. CASE (\E o \in Objs : Ignore(o) \/ Sync(o)) \/ UNCHANGED vars
    <2>1. UNCHANGED <<kind, worker, server, history>>
      BY <1>1 DEF Ignore, Sync, vars
    <2> QED  BY <2>1 DEF Progress, worker, server, history, Alone, U, D
  <1>2. CASE \E o \in Objs : Start(o)
    <2>1. PICK o \in Objs : Start(o)
      BY <1>2
    <2>2. /\ pc' \in {"user", "removeUser", "removeDatabase"} /\ UNCHANGED kind
          /\ pc' = "removeUser" => kind # "mongo"
          /\ pc' = "removeDatabase" => kind # "mysql"
      BY <2>1 DEF Start, FirstStep, Shape, TypeOK
    <2> QED  BY <2>2 DEF Progress
  <1>3. CASE Crash \/ SaveStatus \/ RemoveFinalizer
    BY <1>3 DEF Crash, SaveStatus, RemoveFinalizer, Abandon, Idle, Progress
  <1> QED  BY <1>1, <1>2, <1>3

-----------------------------------------------------------------------------
(* Protected. *)

LEMMA ProtectedInit == Init => Protected
  BY DEF Init, Protected, Sole, TypeOK

\* The statements of the worker concern no other object that shares no name.
LEMMA ForeignStatement ==
    ASSUME Shape, Naming, Frame, NEW o \in Objs, task # o, Alone(o),
           NEW s \in named[o]
    PROVE  /\ users'[s.user] = users[s.user]
           /\ s.db \in dbs' <=> s.db \in dbs
           /\ s.db \in late' <=> s.db \in late
           /\ \A d \in Dbs :
                /\ <<s.user, d>> \in grants' <=> <<s.user, d>> \in grants
                /\ <<s.user, d>> \in unread' <=> <<s.user, d>> \in unread
  <1>1. task \in Objs /\ copy.spec \in named[task]
    BY DEF Frame, Shape, Working, TypeOK, Maybe, Naming
  <1>2. s.user # U /\ s.db # D
    BY <1>1 DEF Alone, Apart, U, D
  <1>3. s.user \in Users /\ s.db \in Dbs
    BY DEF Shape, TypeOK, Spec0
  <1> QED  BY <1>2, <1>3 DEF Frame, TouchesOwn

LEMMA ProtectedFrame ==
    ASSUME Shape, Naming, Versions, Protected, Frame
    PROVE  Protected'
  <1> SUFFICES ASSUME NEW o \in Objs, NEW s \in Specs, Sole(o, s)',
                      users'[s.user] # Nothing \/ s.db \in dbs' \ late'
               PROVE  obj'[o] # Nothing /\ obj'[o].finalizer
    BY DEF Protected
  <1>1. UNCHANGED <<obj, named>>
    BY DEF Frame, objects
  <1>2. Sole(o, s) /\ s \in named[o]
    BY <1>1 DEF Sole, Alone
  <1>3. CASE task = o
    BY <1>1, <1>3 DEF Versions, VersionOf
  <1>4. CASE task # o
    BY <1>1, <1>2, <1>4, ForeignStatement DEF Protected, Sole
  <1> QED  BY <1>3, <1>4

LEMMA ProtectedSites ==
    ASSUME Shape, Naming, Versions, Protected, NEW o \in Objs,
           \/ \E s \in Specs : Create(o, s) \/ Change(o, s)
           \/ Delete(o) \/ AddFinalizer(o)
    PROVE  Protected'
  <1> SUFFICES ASSUME NEW p \in Objs, NEW s \in Specs, Sole(p, s)',
                      users'[s.user] # Nothing \/ s.db \in dbs' \ late'
               PROVE  obj'[p] # Nothing /\ obj'[p].finalizer
    BY DEF Protected
  <1>1. /\ UNCHANGED <<server, late>> /\ Alone(p)
        /\ named[p] \subseteq {s}
        /\ named'[p] = {s} /\ Alone(p)'
        /\ users[s.user] # Nothing \/ s.db \in dbs \ late
    BY SitesNamed, AloneShrinks DEF Sole, server
  <1>2. CASE named[p] = {}
    <2>1. s.user \in Users
      BY DEF Spec0
    <2>2. PICK q \in Objs : \E t \in named[q] : t.user = s.user \/ t.db = s.db
      BY <1>1, <2>1 DEF Naming
    <2>3. q # p
      BY <1>2, <2>2
    <2>4. \E t \in named'[q] : t.user = s.user \/ t.db = s.db
      BY <2>2, SitesNamed
    <2> QED  BY <1>1, <2>3, <2>4 DEF Alone, Apart
  <1>3. CASE named[p] = {s}
    <2>1. obj[p] # Nothing /\ obj[p].finalizer
      BY <1>1, <1>3 DEF Protected, Sole
    <2>2. CASE p # o
      BY <2>1, <2>2, SitesNamed
    <2>3. CASE p = o
      <3>1. obj[o] \in Object
        BY <2>1, <2>3 DEF Shape, TypeOK, Maybe
      <3>2. ~ \E t \in Specs : Create(o, t) \/ Change(o, t)
        BY <1>1, <2>1, <2>3, SoleBefore DEF Create
      <3>3. CASE Delete(o)
        BY <2>1, <2>3, <3>1, <3>3 DEF Delete, Write, Shape, TypeOK, Object
      <3>4. CASE AddFinalizer(o)
        BY ZenonT(60), <2>1, <2>3, <3>1, <3>4
        DEF AddFinalizer, Write, Shape, TypeOK, Object
      <3> QED  BY <3>2, <3>3, <3>4
    <2> QED  BY <2>2, <2>3
  <1> QED  BY <1>1, <1>2, <1>3

LEMMA ProtectedWrites ==
    ASSUME Shape, Naming, Protected, ServiceWrites
    PROVE  Protected'
  <1> SUFFICES ASSUME NEW o \in Objs, NEW s \in Specs, Sole(o, s)',
                      users'[s.user] # Nothing \/ s.db \in dbs' \ late'
               PROVE  obj'[o] # Nothing /\ obj'[o].finalizer
    BY DEF Protected
  <1>1. UNCHANGED <<obj, named, users>> /\ late \subseteq late'
    BY DEF ServiceWrites, objects
  <1>2. Sole(o, s)
    BY <1>1 DEF Sole, Alone
  <1>3. PICK g \in grants : dbs' = dbs \cup {g[2]}
    BY DEF ServiceWrites
  <1>4. CASE s.db = g[2]
    <2>1. PICK p \in Objs : \E t \in named[p] : t.user = g[1] /\ t.db = g[2]
      BY DEF Naming
    <2>2. p = o
      BY <1>2, <1>4, <2>1 DEF Sole, Alone, Apart
    <2>3. g[1] = s.user
      BY <1>2, <2>1, <2>2 DEF Sole
    <2>4. users[s.user] # Nothing
      BY <2>3 DEF Naming
    <2> QED  BY <1>1, <1>2, <2>4 DEF Protected
  <1>5. CASE s.db # g[2]
    BY <1>1, <1>2, <1>3, <1>5 DEF Protected
  <1> QED  BY <1>4, <1>5

\* The finalizer goes when nothing is left.
LEMMA ProtectedFinalizer ==
    ASSUME Shape, Naming, Versions, Progress, Protected, RemoveFinalizer
    PROVE  Protected'
  <1> SUFFICES ASSUME NEW o \in Objs, NEW s \in Specs, Sole(o, s)',
                      users'[s.user] # Nothing \/ s.db \in dbs' \ late'
               PROVE  obj'[o] # Nothing /\ obj'[o].finalizer
    BY DEF Protected
  <1>1. UNCHANGED <<server, history, kind>>
    BY DEF RemoveFinalizer
  <1>2. Sole(o, s) /\ (users[s.user] # Nothing \/ s.db \in dbs \ late)
    BY <1>1 DEF Sole, Alone, server, history
  <1>3. obj[o] # Nothing /\ obj[o].finalizer
    BY <1>2 DEF Protected
  <1>4. CASE UNCHANGED obj
    BY <1>3, <1>4
  <1>5. CASE obj' = [obj EXCEPT ![task] = Nothing]
    <2>1. CASE task # o
      BY <1>3, <1>5, <2>1 DEF Shape, TypeOK
    <2>2. CASE task = o
      <3>1. pc = "finalizer" /\ copy.spec = s /\ kind \in {"mysql", "mongo"}
        BY <1>2, <2>2 DEF RemoveFinalizer, Naming, Sole, Shape, TypeOK
      <3>2. users[s.user] = Nothing /\ s.db \notin dbs \ late
        BY <1>2, <2>2, <3>1 DEF Progress, Sole, U, D
      <3> QED  BY <1>2, <3>2
    <2> QED  BY <2>1, <2>2
  <1> QED  BY <1>4, <1>5 DEF RemoveFinalizer

LEMMA ProtectedOthers ==
    ASSUME Shape, Protected,
           \/ \E o \in Objs : Ignore(o) \/ Sync(o) \/ Start(o)
           \/ Crash \/ SaveStatus
           \/ UNCHANGED vars
    PROVE  Protected'
  <1>1. UNCHANGED <<server, history>>
    BY DEF Ignore, Sync, Start, Crash, SaveStatus, vars
  <1>2. \A o \in Objs : obj[o] # Nothing /\ obj[o].finalizer =>
                        obj'[o] # Nothing /\ obj'[o].finalizer
    <2>1. CASE UNCHANGED obj
      BY <2>1
    <2>2. CASE SaveStatus /\ current /\ obj' = [obj EXCEPT ![task].complete = TRUE]
      <3>1. task \in Objs /\ obj[task] \in Object
        BY <2>2 DEF Shape, Working, TypeOK, Maybe
      <3>2. /\ obj'[task] # Nothing /\ obj'[task].finalizer = obj[task].finalizer
            /\ \A p \in Objs : p # task => obj'[p] = obj[p]
        BY <2>2, <3>1 DEF Shape, TypeOK, Object
      <3> QED  BY <3>1, <3>2
    <2> QED
      BY <2>1, <2>2 DEF Ignore, Sync, Start, Crash, SaveStatus, vars, objects
  <1> QED
    BY <1>1, <1>2 DEF Protected, Sole, Alone, server, history

-----------------------------------------------------------------------------
(* RestMeansUsable. *)

\* The promise for one object.
Usable(o) ==
    LET s == obj[o].spec IN
    /\ obj[o].complete
    /\ users[s.user] = s.password
    /\ <<s.user, s.db>> \in grants
    /\ kind = "mysql" => s.db \in dbs
    /\ \A d \in GrantedTo(s.user) \ {s.db} : <<s.user, d>> \in unread

LEMMA RestIsUsable ==
    RestMeansUsable <=>
        \A o \in Objs : obj[o] # Nothing /\ AtRest(o) /\ Alone(o) => Usable(o)
  BY DEF RestMeansUsable, Usable

LEMMA RestInit == Init => RestMeansUsable
  BY DEF Init, RestMeansUsable

LEMMA RestFrame ==
    ASSUME Shape, TypeOK', Naming, Versions, RestMeansUsable, Frame
    PROVE  RestMeansUsable'
  <1> SUFFICES ASSUME NEW o \in Objs, obj'[o] # Nothing, AtRest(o)', Alone(o)'
               PROVE  Usable(o)'
    BY DEF RestMeansUsable, Usable
  <1>1. UNCHANGED <<kind, obj, fresh, named>>
    BY DEF Frame, objects
  <1>2. task # o /\ AtRest(o)
    BY <1>1 DEF Frame, Abandon, AtRest
  <1>3. Alone(o) /\ obj[o].spec \in named[o]
    BY <1>1 DEF Alone, Naming
  <1>4. Usable(o)
    BY <1>1, <1>2, <1>3 DEF RestMeansUsable, Usable
  <1> DEFINE s == obj[o].spec
  <1>5. /\ users'[s.user] = users[s.user]
        /\ s.db \in dbs' <=> s.db \in dbs
        /\ \A d \in Dbs :
             /\ <<s.user, d>> \in grants' <=> <<s.user, d>> \in grants
             /\ <<s.user, d>> \in unread' <=> <<s.user, d>> \in unread
    BY <1>2, <1>3, ForeignStatement
  <1>6. s.db \in Dbs
    BY <1>3 DEF Shape, TypeOK, Spec0
  <1>7. \A d \in GrantedTo(s.user)' : <<s.user, d>> \in grants'
    BY <1>1 DEF GrantedTo, TypeOK
  <1>8. \A d \in GrantedTo(s.user)' \ {s.db} : <<s.user, d>> \in unread'
    <2> SUFFICES ASSUME NEW d \in GrantedTo(s.user)', d # s.db
                 PROVE  <<s.user, d>> \in unread'
      OBVIOUS
    <2>1. d \in Dbs /\ <<s.user, d>> \in grants
      BY <1>5, <1>7 DEF TypeOK
    <2>2. d \in GrantedTo(s.user)
      BY <2>1, GrantedToType DEF Shape
    <2> QED  BY <1>4, <1>5, <2>1, <2>2 DEF Usable
  <1> QED
    BY <1>1, <1>4, <1>5, <1>6, <1>8 DEF Usable, GrantedTo

\* An object is at rest when its worker has found it Complete with the latest
\* copy: that is where the work is done.
LEMMA RestSave ==
    ASSUME Shape, Naming, Versions, Progress, RestMeansUsable, SaveStatus
    PROVE  RestMeansUsable'
  <1> SUFFICES ASSUME NEW o \in Objs, obj'[o] # Nothing, AtRest(o)', Alone(o)'
               PROVE  Usable(o)'
    BY DEF RestMeansUsable, Usable
  <1>1. /\ UNCHANGED <<kind, server, history>> /\ task \in Objs /\ pc = "save"
        /\ task' = Nothing
    BY DEF SaveStatus, Shape, Working, TypeOK, Maybe, Abandon, Idle
  <1>2. o \in fresh /\ o \notin queued /\ obj'[o] = obj[o]
    BY <1>1 DEF SaveStatus, AtRest, Abandon, Shape, TypeOK
  <1>3. Alone(o)
    BY <1>1 DEF Alone, history
  <1>4. Usable(o)
    <2>1. CASE task # o
      BY <1>2, <1>3, <2>1 DEF RestMeansUsable, Usable, AtRest
    <2>2. CASE task = o
      <3>1. current /\ copy = obj[o]
        BY <1>2, <2>2 DEF Versions, VersionOf, Shape, Working
      <3>2. copy.complete
        BY <1>1, <1>2, <2>2, <3>1 DEF SaveStatus, AtRest, Abandon, Refused
      <3>3. /\ users[U] = copy.spec.password
            /\ kind = "mysql" => D \in dbs
            /\ <<U, D>> \in grants
            /\ \A d \in Dbs : <<U, d>> \in grants /\ d # D => <<U, d>> \in unread
        BY <1>1 DEF Progress
      <3>4. \A d \in GrantedTo(U) \ {D} : <<U, d>> \in unread
        BY <3>3, GrantedToType DEF Shape
      <3> QED  BY <3>1, <3>2, <3>3, <3>4 DEF Usable, U, D
    <2> QED  BY <2>1, <2>2
  <1> QED
    BY <1>1, <1>2, <1>4 DEF Usable, GrantedTo, server, history

LEMMA RestSites ==
    ASSUME Shape, RestMeansUsable, NEW o \in Objs,
           \/ \E s \in Specs : Create(o, s) \/ Change(o, s)
           \/ Delete(o) \/ AddFinalizer(o)
    PROVE  RestMeansUsable'
  <1> SUFFICES ASSUME NEW p \in Objs, obj'[p] # Nothing, AtRest(p)', Alone(p)'
               PROVE  Usable(p)'
    BY DEF RestMeansUsable, Usable
  <1>1. p # o /\ fresh' \subseteq fresh
    BY DEF Create, Change, Delete, AddFinalizer, Write, AtRest
  <1>2. Alone(p) /\ AtRest(p)
    BY <1>1, SitesNamed, AloneShrinks DEF AtRest
  <1>3. Usable(p)
    BY <1>1, <1>2, SitesNamed DEF RestMeansUsable, Usable
  <1> QED
    BY <1>1, <1>3, SitesNamed DEF Usable, GrantedTo, server

LEMMA RestWrites ==
    ASSUME RestMeansUsable, ServiceWrites
    PROVE  RestMeansUsable'
  <1>1. /\ UNCHANGED <<kind, obj, fresh, queued, task, users, grants, named, unread>>
        /\ dbs \subseteq dbs'
    BY DEF ServiceWrites, objects, worker
  <1> QED
    BY <1>1 DEF RestMeansUsable, AtRest, Alone, GrantedTo

LEMMA RestOthers ==
    ASSUME Shape, Versions, RestMeansUsable,
           \/ \E o \in Objs : Ignore(o) \/ Sync(o) \/ Start(o)
           \/ Crash \/ RemoveFinalizer
           \/ UNCHANGED vars
    PROVE  RestMeansUsable'
  <1>1. UNCHANGED <<kind, server, history>>
    BY DEF Ignore, Sync, Start, Crash, RemoveFinalizer, vars
  <1>2. ASSUME NEW o \in Objs, obj'[o] # Nothing, AtRest(o)'
        PROVE  AtRest(o) /\ obj'[o] = obj[o]
    <2>1. CASE \E p \in Objs : Ignore(p)
      BY <1>2, <2>1 DEF Ignore, AtRest, Shape, Working, objects, worker
    <2>2. CASE \E p \in Objs : Sync(p)
      BY <1>2, <2>2 DEF Sync, AtRest, worker
    <2>3. CASE \E p \in Objs : Start(p)
      BY <1>2, <2>3 DEF Start, AtRest, objects, Shape, Working
    <2>4. CASE Crash
      BY <1>2, <2>4 DEF Crash, AtRest
    <2>5. CASE RemoveFinalizer
      <3>1. task \in Objs /\ task' = Nothing
        BY <2>5 DEF RemoveFinalizer, Abandon, Idle, Shape, Working, TypeOK, Maybe
      <3>2. o # task
        BY <1>2, <2>5, <3>1
        DEF RemoveFinalizer, Abandon, AtRest, Shape, TypeOK
      <3> QED
        BY <1>2, <2>5, <3>1, <3>2 DEF RemoveFinalizer, Abandon, AtRest, Shape, TypeOK
    <2>6. CASE UNCHANGED vars
      BY <1>2, <2>6 DEF vars, objects, worker, AtRest
    <2> QED  BY <2>1, <2>2, <2>3, <2>4, <2>5, <2>6
  <1> QED
    BY <1>1, <1>2 DEF RestMeansUsable, Alone, GrantedTo, server, history

-----------------------------------------------------------------------------
(***************************************************************************)
(* The inductive invariant, and what follows from it.                      *)
(***************************************************************************)

LEMMA InvInit == Init => IInv
  BY ShapeInit, NamingInit, VersionsInit, ProgressInit, ProtectedInit, RestInit
  DEF IInv, Shape

\* The steps by what the parts of the invariant say of them.
LEMMA NextSplit ==
    ASSUME [Next]_vars
    PROVE  \/ AnyStatement
           \/ \E o \in Objs : \/ \E s \in Specs : Create(o, s) \/ Change(o, s)
                              \/ Delete(o) \/ AddFinalizer(o)
           \/ ServiceWrites
           \/ SaveStatus
           \/ RemoveFinalizer
           \/ (\E o \in Objs : Ignore(o) \/ Sync(o) \/ Start(o))
                 \/ Crash \/ UNCHANGED vars
  BY DEF Next, Worker, Reconcile, AnyStatement

LEMMA InvStep == IInv /\ [Next]_vars => IInv'
  <1> SUFFICES ASSUME IInv, [Next]_vars PROVE IInv'
    OBVIOUS
  <1>1. /\ Shape /\ Naming /\ Versions /\ Progress /\ Protected /\ RestMeansUsable
        /\ Shape' /\ TypeOK'
    BY ShapeStep DEF IInv, Shape
  <1>2. CASE AnyStatement
    <2>1. Frame
      BY <1>1, <1>2, StatementFrame
    <2> QED
      BY <1>1, <1>2, <2>1, VersionsFrame, NamingStatements, ProgressStatements,
         ProtectedFrame, RestFrame DEF IInv, Shape
  <1>3. ASSUME NEW o \in Objs,
               \/ \E s \in Specs : Create(o, s) \/ Change(o, s)
               \/ Delete(o) \/ AddFinalizer(o)
        PROVE  IInv'
    BY <1>1, <1>3, VersionsSites, NamingSites, ProgressSites, ProtectedSites,
       RestSites DEF IInv, Shape
  <1>4. CASE ServiceWrites
    BY <1>1, <1>4, VersionsOthers, NamingOthers, ProgressWrites, ProtectedWrites,
       RestWrites DEF IInv, Shape
  <1>5. CASE SaveStatus
    BY <1>1, <1>5, VersionsOthers, NamingOthers, ProgressOthers, ProtectedOthers,
       RestSave DEF IInv, Shape
  <1>6. CASE RemoveFinalizer
    BY <1>1, <1>6, VersionsOthers, NamingOthers, ProgressOthers,
       ProtectedFinalizer, RestOthers DEF IInv, Shape
  <1>7. CASE (\E o \in Objs : Ignore(o) \/ Sync(o) \/ Start(o))
                \/ Crash \/ UNCHANGED vars
    BY <1>1, <1>7, VersionsOthers, NamingOthers, ProgressOthers,
       ProtectedOthers, RestOthers DEF IInv, Shape
  <1> QED
    BY <1>2, <1>3, <1>4, <1>5, <1>6, <1>7, NextSplit

LEMMA InvHolds == Spec => []IInv
  BY InvInit, InvStep, PTL DEF Spec

\* When the controller rests, the database of an object that shares no name
\* can be used, whatever failed, crashed or was changed on the way, for any
\* number of objects, users and databases (mysql_handler.go:125-143, 231-311).
THEOREM RestMeansUsableHolds == Spec => []RestMeansUsable
  <1>1. IInv => RestMeansUsable
    BY DEF IInv
  <1> QED  BY <1>1, InvHolds, PTL

\* An object that is gone has left nothing on the server under names no one
\* else had (mysql_handler.go:145-163, mongo_handler.go:140-154).
THEOREM GoneMeansCleanHolds == Spec => []GoneMeansClean
  <1>1. IInv => GoneMeansClean
    <2> SUFFICES ASSUME IInv, NEW o \in Objs, obj[o] = Nothing, Alone(o),
                        NEW s \in named[o], named[o] = {s}
                 PROVE  users[s.user] = Nothing /\ s.db \notin dbs \ late
      BY DEF GoneMeansClean
    <2>1. s \in Specs
      BY DEF IInv, TypeOK
    <2> QED  BY <2>1 DEF IInv, Protected, Sole
  <1> QED  BY <1>1, InvHolds, PTL

\* What a step never takes from an object in use.
Keeps(o) ==
    obj[o] # Nothing /\ ~obj[o].deleting /\ Alone(o) /\ named[o] = {obj[o].spec} =>
        LET s == obj[o].spec IN
        /\ users[s.user] # Nothing => users'[s.user] = users[s.user]
        /\ s.db \in dbs => s.db \in dbs'
        /\ <<s.user, s.db>> \in grants => <<s.user, s.db>> \in grants'

LEMMA KeepsStep ==
    ASSUME IInv, [Next]_vars, NEW o \in Objs
    PROVE  Keeps(o)
  <1> DEFINE s == obj[o].spec
  <1> SUFFICES ASSUME obj[o] # Nothing, ~obj[o].deleting, Alone(o), named[o] = {s}
               PROVE  /\ users[s.user] # Nothing => users'[s.user] = users[s.user]
                      /\ s.db \in dbs => s.db \in dbs'
                      /\ <<s.user, s.db>> \in grants => <<s.user, s.db>> \in grants'
    BY DEF Keeps
  <1>1. Shape /\ Naming /\ Versions
    BY DEF IInv, Shape
  <1>2. CASE UNCHANGED server
    BY <1>2 DEF server
  <1>3. CASE ServiceWrites
    BY <1>3 DEF ServiceWrites
  <1>4. CASE AnyStatement
    <2>1. Frame /\ task \in Objs /\ pc # "idle"
      BY <1>1, <1>4, StatementFrame DEF Frame, Shape, Working, TypeOK, Maybe
    <2>2. CASE task # o
      <3>1. s.db \in Dbs
        BY <1>1 DEF Shape, TypeOK, Spec0
      <3> QED  BY <1>1, <2>1, <2>2, <3>1, ForeignStatement
    <2>3. CASE task = o
      <3>1. copy.spec = s /\ ~copy.deleting
        BY <1>1, <2>3 DEF Naming, Versions, VersionOf
      <3>2. U = s.user /\ D = s.db /\ U \in Users /\ TypeOK
        BY <1>1, <2>1, <3>1, Names DEF U, D, Shape, Working
      <3>3. users[U] # Nothing => users[U] = copy.spec.password
        <4>1. ASSUME users[U] # Nothing
              PROVE  \E p \in Objs : \E t \in named[p] :
                        t.user = U /\ t.password = users[U]
          BY <1>1, <3>2, <4>1 DEF Naming
        <4> QED  BY <3>1, <3>2, <4>1 DEF Alone, Apart
      <3>4. pc \notin Deleting
        BY <1>1, <3>1 DEF Shape, Working
      <3> QED
        BY <1>4, <3>2, <3>3, <3>4
        DEF AnyStatement, Exec, server, Statement, Deleting, TypeOK, WithPassword,
            ReconcileMysqlUser, ReconcileMongoUser, ReconcileDatabase,
            ReadPermissions, Revoke, Grant, RemoveMysqlUser, RemoveMongoUser,
            RevokePermissions, RemoveMysqlDatabase, RemoveMongoDatabase
    <2> QED  BY <2>2, <2>3
  <1>5. UNCHANGED server \/ ServiceWrites \/ AnyStatement
    BY NextSplit
    DEF Create, Change, Delete, AddFinalizer, SaveStatus, RemoveFinalizer,
        Ignore, Sync, Start, Crash, vars
  <1> QED  BY <1>2, <1>3, <1>4, <1>5

\* No step takes a user, a database or a grant from an object that is not
\* being deleted, or changes its password, if no other object ever had one of
\* its names (mysql_handler.go:204-223, 277-311, mongo_handler.go:226-267).
THEOREM KeepsInUseHolds == Spec => KeepsInUse
  <1>1. IInv /\ [Next]_vars => \A o \in Objs : Keeps(o)
    BY KeepsStep
  <1>2. IInv /\ [Next]_vars => [\A o \in Objs : Keeps(o)]_vars
    BY <1>1
  <1> QED
    BY <1>2, InvHolds, PTL DEF Spec, KeepsInUse, Keeps
=============================================================================
