--------------------------- MODULE DatabaseServer ---------------------------
(***************************************************************************)
(* The MysqlDatabase and MongoDatabase controllers and what they do inside *)
(* a server: users with a password, databases, and the grants of a user on *)
(* a database.  A reconcile is a series of statements, any of which may    *)
(* fail, with or without having been executed, and the operator may die    *)
(* between two of them.  The two controllers are one code for two kinds of *)
(* server: the kind is chosen at the start.  One worker serves all objects *)
(* of a kind; objects of different sites may name the same user or         *)
(* database, for nothing refuses it.                                       *)
(***************************************************************************)
EXTENDS Naturals, FiniteSets

CONSTANTS
    Objs,       \* the names of the objects
    Specs,      \* the specs that sites give them, see Spec0
    Users, Dbs, Passwords,
    Nothing,    \* no object, no user
    MaxEdits,   \* bound: objects created, changed and deleted by sites
    MaxFaults   \* bound: failed statements and calls, crashes

\* Of MysqlDatabaseSpec and MongoDatabaseSpec.
Spec0 == [user : Users, db : Dbs, password : Passwords]

ASSUME ServerAssumption ==
    /\ Specs \subseteq Spec0
    /\ Nothing \notin Passwords \cup Objs
    /\ MaxEdits \in Nat /\ MaxFaults \in Nat
ASSUME NoObjectAssumption ==
    Nothing \notin [spec : Spec0, finalizer : BOOLEAN, deleting : BOOLEAN,
                    complete : BOOLEAN]

Maybe(S) == S \cup {Nothing}

\* The object; TaskStatus.State is "" or Complete, no code sets another.
Object == [spec : Spec0, finalizer : BOOLEAN, deleting : BOOLEAN,
           complete : BOOLEAN]

\* What the worker does next.
Steps == {"idle", "user", "database", "read", "revoke", "save",
          "removeUser", "revokeAll", "removeDatabase", "finalizer"}

VARIABLES
    kind,       \* "mysql" or "mongo"
    obj,        \* the objects at the API server
    cache,      \* the informer's copies ...
    fresh,      \* ... and which of them are the latest version
    queued,     \* the keys in the work queue
    pc, task,   \* the worker's next statement and its object,
    copy,       \* the object as read,
    current,    \* no one has written it since
    rows,       \* the databases it has read that its user has grants on
    users,      \* the server's users and their passwords
    dbs,        \* its databases
    grants,     \* the user-database pairs with privileges
    named,      \* history: the specs each object has had
    late,       \* history: databases that came back during a deletion
    unread,     \* history: grants that a read cut short did not return
    editsLeft, faultsLeft

server == <<users, dbs, grants>>
worker == <<pc, task, copy, current, rows>>
objects == <<obj, cache, fresh>>
history == <<named, late, unread>>
vars == <<kind, objects, queued, worker, server, history, editsLeft, faultsLeft>>

TypeOK ==
    /\ kind \in {"mysql", "mongo"}
    /\ obj \in [Objs -> Maybe(Object)] /\ cache \in [Objs -> Maybe(Object)]
    /\ fresh \subseteq Objs /\ queued \subseteq Objs
    /\ pc \in Steps /\ task \in Maybe(Objs) /\ copy \in Maybe(Object)
    /\ current \in BOOLEAN /\ rows \subseteq Dbs
    /\ users \in [Users -> Maybe(Passwords)]
    /\ dbs \subseteq Dbs /\ grants \subseteq Users \X Dbs
    /\ named \in [Objs -> SUBSET Specs]
    /\ late \subseteq Dbs /\ unread \subseteq Users \X Dbs
    /\ editsLeft \in 0..MaxEdits /\ faultsLeft \in 0..MaxFaults

Init ==
    /\ kind \in {"mysql", "mongo"}
    /\ obj = [o \in Objs |-> Nothing] /\ cache = obj
    /\ fresh = Objs /\ queued = {}
    /\ pc = "idle" /\ task = Nothing /\ copy = Nothing /\ current = FALSE
    /\ rows = {}
    /\ users = [u \in Users |-> Nothing] /\ dbs = {} /\ grants = {}
    /\ named = [o \in Objs |-> {}] /\ late = {} /\ unread = {}
    /\ editsLeft = MaxEdits /\ faultsLeft = MaxFaults

Fault == faultsLeft > 0 /\ faultsLeft' = faultsLeft - 1

-----------------------------------------------------------------------------
(* The site handlers' writes.  They read the cache that the controller reads. *)

Edit == editsLeft > 0 /\ editsLeft' = editsLeft - 1

\* The object o is now x at the API server.
Write(o, x) ==
    /\ obj' = [obj EXCEPT ![o] = x]
    /\ fresh' = fresh \ {o}
    /\ current' = (current /\ task # o)

\* A site wants a database that the cache does not have.
Create(o, s) ==
    /\ Edit /\ obj[o] = Nothing /\ o \in fresh
    /\ Write(o, [spec |-> s, finalizer |-> FALSE, deleting |-> FALSE,
                 complete |-> FALSE])
    /\ named' = [named EXCEPT ![o] = @ \cup {s}]
    /\ UNCHANGED <<kind, cache, queued, pc, task, copy, rows, server, late,
                   unread, faultsLeft>>

\* UpdateFromExpected, on an object that is being deleted too; an Update of
\* an outdated object is refused.  The status stays as it is.
Change(o, s) ==
    /\ Edit /\ obj[o] # Nothing /\ o \in fresh /\ obj[o].spec # s
    /\ Write(o, [obj[o] EXCEPT !.spec = s])
    /\ named' = [named EXCEPT ![o] = @ \cup {s}]
    /\ UNCHANGED <<kind, cache, queued, pc, task, copy, rows, server, late,
                   unread, faultsLeft>>

\* Delete: gone at once if there is no finalizer.
Delete(o) ==
    /\ Edit /\ obj[o] # Nothing /\ ~obj[o].deleting
    /\ Write(o, IF obj[o].finalizer THEN [obj[o] EXCEPT !.deleting = TRUE]
                ELSE Nothing)
    /\ UNCHANGED <<kind, cache, queued, pc, task, copy, rows, server, history,
                   faultsLeft>>

-----------------------------------------------------------------------------
(* doReconcile *)

\* The worker is done with its object.
Idle ==
    /\ pc' = "idle" /\ task' = Nothing /\ copy' = Nothing /\ current' = FALSE
    /\ rows' = {}

\* The object is gone: nothing to do.
Ignore(o) ==
    /\ pc = "idle" /\ o \in queued /\ cache[o] = Nothing
    /\ queued' = queued \ {o}
    /\ UNCHANGED <<kind, objects, worker, server, history, editsLeft, faultsLeft>>

\* The finalizer comes first.  The key stays queued: Requeue, or the error
\* of an Update with an outdated copy.
AddFinalizer(o) ==
    /\ pc = "idle" /\ o \in queued
    /\ cache[o] # Nothing /\ ~cache[o].deleting /\ ~cache[o].finalizer
    /\ o \in fresh
    /\ Write(o, [obj[o] EXCEPT !.finalizer = TRUE])
    /\ UNCHANGED <<kind, cache, queued, pc, task, copy, rows, server, history,
                   editsLeft, faultsLeft>>

\* The first step of reconcileTask or deleteTask.
FirstStep(x) ==
    IF ~x.deleting THEN "user"
    ELSE IF kind = "mysql" THEN "removeUser" ELSE "removeDatabase"

\* Mutant: the finalizer is not waited for.
Start_NoFinalizer(o) ==
    /\ pc = "idle" /\ o \in queued
    /\ cache[o] # Nothing
    /\ queued' = queued \ {o}
    /\ task' = o /\ copy' = cache[o] /\ current' = (o \in fresh)
    /\ pc' = FirstStep(cache[o])
    /\ UNCHANGED <<kind, objects, rows, server, history, editsLeft, faultsLeft>>

\* ReconcileMysqlDatabase, DeleteMysqlDatabase and those of mongo start.
Start(o) ==
    /\ pc = "idle" /\ o \in queued
    /\ cache[o] # Nothing /\ (cache[o].deleting \/ cache[o].finalizer)
    /\ queued' = queued \ {o}
    /\ task' = o /\ copy' = cache[o] /\ current' = (o \in fresh)
    /\ pc' = FirstStep(cache[o])
    /\ UNCHANGED <<kind, objects, rows, server, history, editsLeft, faultsLeft>>

\* It ends with an error and is tried again.
Abandon == queued' = queued \cup {task} /\ Idle

\* A write to the API server is refused for an outdated copy, or fails.
Refused == \/ ~current /\ UNCHANGED faultsLeft
           \/ Fault

U == copy.spec.user
D == copy.spec.db

\* Mutant: the error of a statement is ignored.
Exec_IgnoresError(us, ds, gs, next) ==
    /\ \/ users' = us /\ dbs' = ds /\ grants' = gs /\ UNCHANGED faultsLeft
       \/ Fault /\ UNCHANGED server
    /\ pc' = next
    /\ UNCHANGED <<queued, task, copy, current>>

\* The statement that is due leaves the server with us, ds and gs; the next
\* one is at step next.  Or it fails, done or not, or there is no connection,
\* and the reconcile ends with an error.
Exec(us, ds, gs, next) ==
    \/ /\ users' = us /\ dbs' = ds /\ grants' = gs
       /\ pc' = next
       /\ UNCHANGED <<queued, task, copy, current, faultsLeft>>
    \/ /\ Fault
       /\ \/ UNCHANGED server
          \/ users' = us /\ dbs' = ds /\ grants' = gs
       /\ Abandon

Statement(step) ==
    /\ pc = step
    /\ UNCHANGED <<kind, objects, named, editsLeft>>

\* The user with the password of the object.
WithPassword == [users EXCEPT ![U] = copy.spec.password]

\* reconcileUser of mysql: create the user or, if it cannot log in with the
\* password, change that.
ReconcileMysqlUser ==
    /\ Statement("user") /\ kind = "mysql"
    /\ Exec(WithPassword, dbs, grants, "database")
    /\ UNCHANGED <<rows, late, unread>>

\* reconcileUser of mongo: create or update it, with its only role.
ReconcileMongoUser ==
    /\ Statement("user") /\ kind = "mongo"
    /\ Exec(WithPassword, dbs, {g \in grants : g[1] # U} \cup {<<U, D>>}, "save")
    /\ UNCHANGED <<rows, late, unread>>

ReconcileDatabase ==
    /\ Statement("database")
    /\ Exec(users, dbs \cup {D}, grants, "read")
    /\ UNCHANGED <<rows, late, unread>>

GrantedTo(u) == {g[2] : g \in {h \in grants : h[1] = u}}

\* getDatabasesWhereUserHasPermissions.  When the connection breaks while
\* the rows are read, Next ends the loop and no one looks at the error.
ReadPermissions ==
    /\ Statement("read")
    /\ \/ /\ rows' = GrantedTo(U)
          /\ unread' = {g \in unread : g[1] # U}
          /\ pc' = "revoke"
          /\ UNCHANGED <<queued, task, copy, current, faultsLeft>>
       \/ /\ Fault
          /\ rows' \in SUBSET GrantedTo(U) \ {GrantedTo(U)}
          /\ unread' = unread \cup ({U} \X (GrantedTo(U) \ rows'))
          /\ pc' = "revoke"
          /\ UNCHANGED <<queued, task, copy, current>>
       \/ /\ Fault
          /\ Abandon
          /\ UNCHANGED unread
    /\ UNCHANGED <<server, late>>

\* Mutant: its own database is not spared.
Revoke_OwnToo ==
    /\ Statement("revoke")
    /\ \E d \in rows :
         /\ Exec(users, dbs, grants \ {<<U, d>>}, "revoke")
         /\ rows' = IF pc' = "idle" THEN {} ELSE rows \ {d}
    /\ UNCHANGED <<late, unread>>

\* revokeNotRequestedPermissions: one REVOKE for each other database read ...
Revoke ==
    /\ Statement("revoke")
    /\ \E d \in rows \ {D} :
         /\ Exec(users, dbs, grants \ {<<U, d>>}, "revoke")
         /\ rows' = IF pc' = "idle" THEN {} ELSE rows \ {d}
    /\ UNCHANGED <<late, unread>>

\* ... and reconcilePermissions: the GRANT, if its own was not among them.
Grant ==
    /\ Statement("revoke") /\ rows \subseteq {D}
    /\ \/ /\ D \in rows
          /\ pc' = "save"
          /\ UNCHANGED <<queued, task, copy, current, server, faultsLeft>>
       \/ /\ D \notin rows
          /\ Exec(users, dbs, grants \cup {<<U, D>>}, "save")
    /\ rows' = {}
    /\ UNCHANGED <<late, unread>>

\* SaveStatusUpdatesIfObjectChanged: Complete, if it was not.
SaveStatus ==
    /\ pc = "save"
    /\ \/ /\ copy.complete
          /\ Idle
          /\ UNCHANGED <<obj, fresh, queued, faultsLeft>>
       \/ /\ ~copy.complete /\ current
          /\ obj' = [obj EXCEPT ![task].complete = TRUE]
          /\ fresh' = fresh \ {task}
          /\ Idle
          /\ UNCHANGED <<queued, faultsLeft>>
       \/ /\ ~copy.complete
          /\ Refused
          /\ Abandon
          /\ UNCHANGED <<obj, fresh>>
    /\ UNCHANGED <<kind, cache, server, history, editsLeft>>

\* The user is dropped, its grants with it.
DropUser(next) == Exec([users EXCEPT ![U] = Nothing], dbs,
                       {g \in grants : g[1] # U}, next)

\* removeUser: on mysql it comes first, on mongo last.
RemoveMysqlUser ==
    /\ Statement("removeUser") /\ kind = "mysql"
    /\ DropUser("revokeAll")
    /\ UNCHANGED <<rows, late, unread>>

RemoveMongoUser ==
    /\ Statement("removeUser") /\ kind = "mongo"
    /\ DropUser("finalizer")
    /\ UNCHANGED <<rows, late, unread>>

\* revokePermissions, of mysql.
RevokePermissions ==
    /\ Statement("revokeAll")
    /\ Exec(users, dbs, {g \in grants : g[1] # U}, "removeDatabase")
    /\ UNCHANGED <<rows, late, unread>>

\* removeDatabase: on mysql it comes last, on mongo first.
RemoveMysqlDatabase ==
    /\ Statement("removeDatabase") /\ kind = "mysql"
    /\ Exec(users, dbs \ {D}, grants, "finalizer")
    /\ UNCHANGED <<rows, late, unread>>

RemoveMongoDatabase ==
    /\ Statement("removeDatabase") /\ kind = "mongo"
    /\ Exec(users, dbs \ {D}, grants, "removeUser")
    /\ late' = late \ {D}
    /\ UNCHANGED <<rows, unread>>

\* Mutant: a failed Update is not tried again.
RemoveFinalizer_NoRetry ==
    /\ pc = "finalizer"
    /\ \/ /\ current
          /\ obj' = [obj EXCEPT ![task] = Nothing]
          /\ fresh' = fresh \ {task}
          /\ UNCHANGED faultsLeft
       \/ /\ Refused
          /\ UNCHANGED <<obj, fresh>>
    /\ Idle
    /\ UNCHANGED <<kind, cache, queued, server, history, editsLeft>>

\* The Update without the finalizer: the object goes.
RemoveFinalizer ==
    /\ pc = "finalizer"
    /\ \/ /\ current
          /\ obj' = [obj EXCEPT ![task] = Nothing]
          /\ fresh' = fresh \ {task}
          /\ Idle
          /\ UNCHANGED <<queued, faultsLeft>>
       \/ /\ Refused
          /\ Abandon
          /\ UNCHANGED <<obj, fresh>>
    /\ UNCHANGED <<kind, cache, server, history, editsLeft>>

-----------------------------------------------------------------------------
(* The informer, the services that use the databases, and the end of the   *)
(* operator.                                                               *)

Sync(o) ==
    /\ o \notin fresh
    /\ cache' = [cache EXCEPT ![o] = obj[o]] /\ fresh' = fresh \cup {o}
    /\ queued' = queued \cup {o}
    /\ UNCHANGED <<kind, obj, worker, server, history, editsLeft, faultsLeft>>

\* A service writes to its mongo database, which makes it exist.  Its pods
\* may go on while the site's objects are deleted.
ServiceWrites ==
    /\ kind = "mongo"
    /\ \E g \in grants :
         /\ g[2] \notin dbs
         /\ dbs' = dbs \cup {g[2]}
         /\ late' = IF pc = "removeUser" /\ D = g[2] THEN late \cup {D} ELSE late
    /\ UNCHANGED <<kind, objects, queued, worker, users, grants, named, unread,
                   editsLeft, faultsLeft>>

\* The operator dies and starts again with the latest objects, all queued.
Crash ==
    /\ Fault
    /\ cache' = obj /\ fresh' = Objs
    /\ queued' = {o \in Objs : obj[o] # Nothing}
    /\ Idle
    /\ UNCHANGED <<kind, obj, server, history, editsLeft>>

Reconcile(o) == Ignore(o) \/ AddFinalizer(o) \/ Start(o)

Worker ==
    \/ \E o \in Objs : Reconcile(o)
    \/ ReconcileMysqlUser \/ ReconcileDatabase \/ ReadPermissions \/ Revoke \/ Grant
    \/ ReconcileMongoUser
    \/ SaveStatus
    \/ RemoveMysqlUser \/ RevokePermissions \/ RemoveMysqlDatabase
    \/ RemoveMongoDatabase \/ RemoveMongoUser
    \/ RemoveFinalizer

Next ==
    \/ \E o \in Objs : \/ \E s \in Specs : Create(o, s) \/ Change(o, s)
                       \/ Delete(o)
                       \/ Sync(o)
    \/ Worker
    \/ ServiceWrites
    \/ Crash

Spec == Init /\ [][Next]_vars

\* The worker goes on while there is a key in the queue, and watch events
\* arrive.
FairSpec ==
    Spec /\ WF_vars(Worker) /\ \A o \in Objs : WF_vars(Sync(o))

-----------------------------------------------------------------------------
(* Properties. *)

\* Of two specs: on one server they have nothing in common.
Apart(s, t) == s.user # t.user /\ s.db # t.db

\* No other object has ever named what o has named.
Alone(o) == \A p \in Objs \ {o} : \A s \in named[o], t \in named[p] : Apart(s, t)

\* The controller has nothing to do for o.
AtRest(o) == o \in fresh /\ o \notin queued /\ task # o

(* When the controller rests, the database of an object that shares no name *)
(* with another is there to be used, whatever failed, crashed or was        *)
(* changed on the way: Complete, the user with its password, the grant on   *)
(* its database, and no other grant but those a read cut short has missed   *)
(* (mysql_handler.go:125-143, 231-311).                                     *)
RestMeansUsable ==
    \A o \in Objs : obj[o] # Nothing /\ AtRest(o) /\ Alone(o) =>
        LET s == obj[o].spec IN
        /\ obj[o].complete
        /\ users[s.user] = s.password
        /\ <<s.user, s.db>> \in grants
        /\ kind = "mysql" => s.db \in dbs
        /\ \A d \in GrantedTo(s.user) \ {s.db} : <<s.user, d>> \in unread

(* What an object has named is gone from the server with it, unless it or   *)
(* another object also had other names for it, or a service wrote to its    *)
(* database after mongo had dropped it and before its user was              *)
(* (mysql_handler.go:145-163, mongo_handler.go:140-154).                    *)
GoneMeansClean ==
    \A o \in Objs : obj[o] = Nothing /\ task # o /\ Alone(o) =>
        \A s \in named[o] : named[o] = {s} =>
            users[s.user] = Nothing /\ s.db \notin dbs \ late

(* A step never takes a user, a database or a grant from an object that is  *)
(* not being deleted, nor changes its password, if no other object ever     *)
(* named the same and the object itself kept its names                      *)
(* (mysql_handler.go:204-223, 277-311, mongo_handler.go:226-267).           *)
KeepsInUse ==
    [][\A o \in Objs :
        obj[o] # Nothing /\ ~obj[o].deleting /\ Alone(o) /\ named[o] = {obj[o].spec} =>
            LET s == obj[o].spec IN
            /\ users[s.user] # Nothing => users'[s.user] = users[s.user]
            /\ s.db \in dbs => s.db \in dbs'
            /\ <<s.user, s.db>> \in grants => <<s.user, s.db>> \in grants']_vars

(* The controller comes to rest, and a deleted object goes in the end       *)
(* (mysqldatabase_controller.go:62-116).                                    *)
Settles == <>[](/\ pc = "idle" /\ queued = {} /\ fresh = Objs
                /\ \A o \in Objs : obj[o] # Nothing => ~obj[o].deleting)

=============================================================================
