----------------------- MODULE RedisAllocationProofs -----------------------
(***************************************************************************)
(* Theorems about RedisAllocation, for any sites, services, servers,       *)
(* database counts, edits and faults, with a cache that may lag.           *)
(***************************************************************************)
EXTENDS RedisAllocation, TLAPS

USE CountAssumption, SwitchAssumption, BudgetAssumption, NothingAssumption

-----------------------------------------------------------------------------
(***************************************************************************)
(* Type correctness.                                                       *)
(***************************************************************************)

\* The working copies of a reconcile are well typed.
WorkOK ==
    /\ at \in Maybe(Sites)
    /\ seen \in [Services -> Maybe(Envs)]
    /\ listed \in [Services -> Maybe(Redis)]
    /\ written \subseteq Services /\ copy \in Status
    /\ changed \in BOOLEAN /\ current \in BOOLEAN

\* A reconcile that returns leaves well-typed working copies.
LEMMA ReturnType ==
    ASSUME Return
    PROVE  pc' = "idle" /\ WorkOK'
  <1>1. 0 \in Numbers
    BY DEF Numbers
  <1>2. None \in [Services -> Maybe(Envs)] /\ None \in [Services -> Maybe(Redis)]
    BY DEF None, Maybe
  <1>3. NewStatus \in Status
    BY <1>1 DEF NewStatus, Status
  <1> QED
    BY <1>2, <1>3 DEF Return, Maybe, WorkOK

\* A final error leaves a well-typed status to save.
LEMMA FinalErrType ==
    ASSUME TypeOK, FinalErr
    PROVE  /\ pc' = "save" /\ changed' = TRUE /\ copy' \in Status
           /\ UNCHANGED <<queued, at, seen, listed, written, current>>
  BY DEF FinalErr, TypeOK, Status

\* While the reconcile writes it has a site.
AtWork == pc \in {"write", "save"} => at \in Sites

\* The histories are sets of owners; a write keeps them so.
LEMMA RecordType ==
    ASSUME TypeOK, NEW o \in Owners, NEW r \in Maybe(Redis), Record(o, r)
    PROVE  /\ redis' \in [Owners -> Maybe(Redis)]
           /\ shared' \subseteq Owners /\ moved' \subseteq Owners
  BY DEF Record, TypeOK

\* Type correctness is inductive together with AtWork.
LEMMA TypeStep ==
    ASSUME TypeOK, AtWork, [Next]_vars
    PROVE  TypeOK' /\ AtWork'
  <1> USE DEF TypeOK, AtWork
  <1>1. ASSUME NEW x \in Sites, Begin(x) PROVE TypeOK' /\ AtWork'
    <2>1. copy' \in Status
      BY <1>1 DEF Begin, Status
    <2>2. listed' \in [Services -> Maybe(Redis)]
      BY <1>1 DEF Begin, Owners
    <2> QED BY <1>1, <2>1, <2>2 DEF Begin, history, Maybe
  <1>2. ASSUME NEW s \in Services, Delete(s) PROVE TypeOK' /\ AtWork'
    <2>1. <<at, s>> \in Owners
      BY <1>2 DEF Delete, Owners
    <2>2. CASE Writes(s, Nothing) /\ UNCHANGED <<copy, faultsLeft>>
      <3>1. /\ redis' \in [Owners -> Maybe(Redis)]
            /\ shared' \subseteq Owners /\ moved' \subseteq Owners
        BY <2>1, <2>2, RecordType DEF Writes, Maybe
      <3> QED BY <1>2, <2>2, <3>1 DEF Delete, Writes
    <2>3. CASE Err /\ UNCHANGED <<redis, history>> /\ (UNCHANGED faultsLeft \/ Fault)
      <3>1. pc' = "idle" /\ WorkOK'
        BY <2>3, ReturnType DEF Err
      <3>2. queued' \subseteq Sites /\ faultsLeft' \in 0..MaxFaults
        BY <1>2, <2>3 DEF Delete, Err, Fault
      <3> QED BY <1>2, <2>3, <3>1, <3>2 DEF Delete, WorkOK, history
    <2> QED BY <1>2, <2>2, <2>3 DEF Delete
  <1>3. ASSUME NEW s \in Services, Create(s) PROVE TypeOK' /\ AtWork'
    <2>1. <<at, s>> \in Owners /\ seen[s] \in Envs
      BY <1>3 DEF Create, Owners, Todo, ToCreate, Maybe
    <2>2. CASE \E n \in Free(seen[s]) :
                  /\ Writes(s, [env |-> seen[s], number |-> n, ready |-> FALSE])
                  /\ copy' = [copy EXCEPT !.told = [@ EXCEPT ![s] = n]]
                  /\ UNCHANGED faultsLeft
      <3>1. PICK n \in Free(seen[s]) :
                  /\ Writes(s, [env |-> seen[s], number |-> n, ready |-> FALSE])
                  /\ copy' = [copy EXCEPT !.told = [@ EXCEPT ![s] = n]]
                  /\ UNCHANGED faultsLeft
        BY <2>2
      <3>2. n \in Numbers
        BY DEF Free
      <3>3. [env |-> seen[s], number |-> n, ready |-> FALSE] \in Redis
        BY <2>1, <3>2 DEF Redis
      <3>4. /\ redis' \in [Owners -> Maybe(Redis)]
            /\ shared' \subseteq Owners /\ moved' \subseteq Owners
        BY <2>1, <3>1, <3>3, RecordType DEF Writes, Maybe
      <3>5. copy' \in Status
        BY <3>1, <3>2 DEF Status
      <3> QED BY <1>3, <3>1, <3>4, <3>5 DEF Create, Writes
    <2>3. CASE FinalErr /\ UNCHANGED <<redis, history, faultsLeft>>
      BY <1>3, <2>3, FinalErrType DEF Create, history
    <2>4. CASE Err /\ UNCHANGED <<redis, history>> /\ (UNCHANGED faultsLeft \/ Fault)
      <3>1. pc' = "idle" /\ WorkOK'
        BY <2>4, ReturnType DEF Err
      <3>2. queued' \subseteq Sites /\ faultsLeft' \in 0..MaxFaults
        BY <1>3, <2>4 DEF Create, Err, Fault
      <3> QED BY <1>3, <2>4, <3>1, <3>2 DEF Create, WorkOK, history
    <2> QED BY <1>3, <2>2, <2>3, <2>4 DEF Create
  <1>4. ASSUME NEW s \in Services, Update(s) PROVE TypeOK' /\ AtWork'
    <2>1. <<at, s>> \in Owners /\ seen[s] \in Envs /\ listed[s] \in Redis
      BY <1>4 DEF Update, Owners, Todo, ToUpdate, Maybe
    <2>2. CASE /\ Writes(s, [env |-> seen[s], number |-> 0,
                             ready |-> listed[s].ready])
               /\ copy' = [copy EXCEPT !.told = [@ EXCEPT ![s] = 0]]
               /\ UNCHANGED faultsLeft
      <3>1. 0 \in Numbers
        BY DEF Numbers
      <3>2. [env |-> seen[s], number |-> 0, ready |-> listed[s].ready] \in Redis
        BY <2>1, <3>1 DEF Redis
      <3>3. /\ redis' \in [Owners -> Maybe(Redis)]
            /\ shared' \subseteq Owners /\ moved' \subseteq Owners
        BY <2>1, <2>2, <3>2, RecordType DEF Writes, Maybe
      <3>4. copy' \in Status
        BY <2>2, <3>1 DEF Status
      <3> QED BY <1>4, <2>2, <3>3, <3>4 DEF Update, Writes
    <2>3. CASE Err /\ UNCHANGED <<redis, history>> /\ (UNCHANGED faultsLeft \/ Fault)
      <3>1. pc' = "idle" /\ WorkOK'
        BY <2>3, ReturnType DEF Err
      <3>2. queued' \subseteq Sites /\ faultsLeft' \in 0..MaxFaults
        BY <1>4, <2>3 DEF Update, Err, Fault
      <3> QED BY <1>4, <2>3, <3>1, <3>2 DEF Update, WorkOK, history
    <2> QED BY <1>4, <2>2, <2>3 DEF Update
  <1>5. CASE NoRoom
    BY <1>5, FinalErrType DEF NoRoom, history
  <1>6. CASE CheckReady
    <2>1. CASE \E ready \in BOOLEAN :
                 /\ pc' = "save"
                 /\ copy' = [copy EXCEPT !.created = ready, !.configs = TRUE]
                 /\ changed' = (ready # st[at].created \/ ~st[at].configs
                                \/ (ready /\ st[at].failed))
                 /\ UNCHANGED <<queued, at, seen, listed, written, current,
                                faultsLeft>>
      <3>1. copy' \in Status
        BY <2>1 DEF Status
      <3> QED BY <1>6, <2>1, <3>1 DEF CheckReady, history
    <2>2. CASE Fault /\ Err
      <3>1. pc' = "idle" /\ WorkOK'
        BY <2>2, ReturnType DEF Err
      <3>2. queued' \subseteq Sites /\ faultsLeft' \in 0..MaxFaults
        BY <1>6, <2>2 DEF CheckReady, Err, Fault
      <3> QED BY <1>6, <3>1, <3>2 DEF CheckReady, WorkOK, history
    <2> QED BY <1>6, <2>1, <2>2 DEF CheckReady
  <1>7. CASE Save
    <2>1. pc' = "idle" /\ WorkOK'
      BY <1>7, ReturnType DEF Save
    <2>2. st' \in [Sites -> Status]
      BY <1>7 DEF Save
    <2>3. queued' \subseteq Sites /\ faultsLeft' \in 0..MaxFaults
      BY <1>7 DEF Save, Fault
    <2> QED BY <1>7, <2>1, <2>2, <2>3 DEF Save, WorkOK, history
  <1>8. ASSUME NEW o \in Owners, Sync(o) PROVE TypeOK' /\ AtWork'
    BY <1>8 DEF Sync, work, history, Owners
  <1>9. ASSUME NEW o \in Owners, BeginFlush(o) PROVE TypeOK' /\ AtWork'
    BY <1>9 DEF BeginFlush, work, history, Maybe
  <1>10. CASE Flush
    <2>1. flushing.owner \in Owners /\ flushing.as \in Redis
      BY <1>10 DEF Flush, Maybe
    <2>2. [flushing.as EXCEPT !.ready = TRUE] \in Redis
      BY <2>1 DEF Redis
    <2>5. redis' = redis
          \/ redis' = [redis EXCEPT ![flushing.owner] =
                         [flushing.as EXCEPT !.ready = TRUE]]
      BY <1>10, <2>1 DEF Flush
    <2>6. redis' \in [Owners -> Maybe(Redis)]
      BY <2>1, <2>2, <2>5 DEF Maybe
    <2>3. <<flushing.as.env, flushing.as.number>> \in Envs \X Numbers
      BY <2>1 DEF Redis
    <2>4. holder' \in [Envs \X Numbers -> Maybe(Owners)]
      BY <1>10, <2>1, <2>3 DEF Flush, Maybe
    <2> QED BY <1>10, <2>6, <2>4 DEF Flush, work, history, Fault, Maybe
  <1>11. CASE Crash
    <2>1. pc' = "idle" /\ WorkOK'
      BY <1>11, ReturnType DEF Crash
    <2> QED BY <1>11, <2>1 DEF Crash, Fault, WorkOK, history, Maybe
  <1>12. ASSUME NEW x \in Sites, NEW s \in Services, NEW e \in Maybe(Envs),
                Edit(x, s, e)
         PROVE  TypeOK' /\ AtWork'
    BY <1>12 DEF Edit, history
  <1>13. CASE UNCHANGED vars
    BY <1>13 DEF vars, work, history
  <1> HIDE DEF TypeOK, AtWork
  <1> QED
    BY <1>1, <1>2, <1>3, <1>4, <1>5, <1>6, <1>7, <1>8, <1>9, <1>10, <1>11,
       <1>12, <1>13 DEF Next, Reconcile, Controller

\* The initial state is well typed.
LEMMA TypeInit ==
    ASSUME Init
    PROVE  TypeOK /\ AtWork
  <1>1. 0 \in Numbers
    BY DEF Numbers
  <1>2. None \in [Services -> Maybe(Envs)] /\ None \in [Services -> Maybe(Redis)]
    BY DEF None, Maybe
  <1>3. NewStatus \in Status
    BY <1>1 DEF NewStatus, Status
  <1>4. holder \in [Envs \X Numbers -> Maybe(Owners)]
    BY DEF Init, Maybe
  <1>5. redis \in [Owners -> Maybe(Redis)] /\ cache \in [Owners -> Maybe(Redis)]
    BY DEF Init, Maybe
  <1>6. /\ want \in [Sites -> [Services -> Maybe(Envs)]]
        /\ st \in [Sites -> Status]
    BY <1>3, WantsAssumption DEF Init
  <1>7. WorkOK
    BY <1>2, <1>3 DEF Init, WorkOK, Maybe
  <1> QED
    BY <1>4, <1>5, <1>6, <1>7 DEF Init, TypeOK, AtWork, WorkOK, Maybe

\* Whatever is stale, lost or interrupted, every number handed out is one the
\* server has and every object keeps its type: getFirstFreeDatabaseInEnvironment
\* never leaves 0 .. AvailableDatabaseCount - 1.
THEOREM RedisTypeCorrect == Spec => [](TypeOK /\ AtWork)
  BY TypeInit, TypeStep, PTL DEF Spec

-----------------------------------------------------------------------------
(***************************************************************************)
(* No service that was given a number of its own loses its data to a late  *)
(* flush, however far the cache lags.                                      *)
(***************************************************************************)

\* What makes ReadyIsOwnFlush inductive.  Nobody else names the database of an
\* untouched service o, not even in a RedisDatabase that is only still cached;
\* and once o may run no flush of it is under way but its own.
Reserved(o) ==
    /\ \A p \in Owners \ {o} : /\ ~Same(redis[p], redis[o])
                               /\ ~Same(cache[p], redis[o])
    /\ redis[o].ready =>
         /\ OwnFlush(o)
         /\ flushing # Nothing =>
              flushing.owner = o \/ ~Same(flushing.as, redis[o])

Reservations ==
    \A o \in Owners : redis[o] # Nothing /\ Untouched(o) => Reserved(o)

RedisInv == TypeOK /\ AtWork /\ Reservations

\* A step that writes no RedisDatabase, lists no other one and flushes nothing
\* preserves Reservations.
LEMMA QuietStep ==
    ASSUME Reservations, UNCHANGED <<redis, cache, holder, history>>,
           flushing' \in {flushing, Nothing}
    PROVE  Reservations'
  BY DEF Reservations, Reserved, Untouched, OwnFlush, Same, history

\* A delete leaves the other services what they have.
LEMMA DeleteKeeps ==
    ASSUME TypeOK, Reservations, NEW o \in Owners, Record(o, Nothing),
           UNCHANGED <<cache, holder, flushing>>
    PROVE  Reservations'
  <1>1. redis'[o] = Nothing /\ \A p \in Owners \ {o} : redis'[p] = redis[p]
    BY DEF Record, TypeOK
  <1>2. \A p \in Owners \ {o} : Untouched(p)' => Untouched(p)
    BY DEF Record, Untouched
  <1> SUFFICES ASSUME NEW q \in Owners, redis'[q] # Nothing, Untouched(q)'
               PROVE  Reserved(q)'
    BY DEF Reservations
  <1>3. q # o /\ redis'[q] = redis[q] /\ Reserved(q)
    BY <1>1, <1>2 DEF Reservations
  <1> QED BY <1>1, <1>3 DEF Reserved, OwnFlush, Same

\* No RedisDatabase is mistaken for none.
LEMMA RedisIsSomething == \A r \in Redis : r # Nothing
  BY NothingAssumption

\* Only a create that takes a number nobody has makes an untouched service.
LEMMA RecordTouches ==
    ASSUME NEW o \in Owners, NEW r \in Redis, Record(o, r), Untouched(o)'
    PROVE  redis[o] = Nothing /\ \A p \in Owners \ {o} : ~Same(redis[p], r)
  <1>1. r # Nothing
    BY RedisIsSomething
  <1> QED BY <1>1 DEF Record, Untouched

\* A create or an update leaves them theirs too: whose database it takes is no
\* longer untouched.
LEMMA WriteKeeps ==
    ASSUME TypeOK, Reservations, NEW o \in Owners, NEW r \in Redis, Record(o, r),
           UNCHANGED <<cache, holder, flushing>>,
           NEW q \in Owners, q # o, redis'[q] # Nothing, Untouched(q)'
    PROVE  Reserved(q)' /\ ~Same(redis[q], r)
  <1>0. r # Nothing
    BY RedisIsSomething
  <1>1. redis'[o] = r /\ \A p \in Owners \ {o} : redis'[p] = redis[p]
    BY DEF Record, TypeOK
  <1>2. ~Same(redis[q], r)
    BY <1>0 DEF Record, Untouched
  <1>3. Untouched(q)
    BY <1>0 DEF Record, Untouched
  <1>4. Reserved(q)
    BY <1>1, <1>3 DEF Reservations
  <1> QED BY <1>1, <1>2, <1>4 DEF Reserved, OwnFlush, Same

\* A create takes a number that the list does not show.
LEMMA CreateKeeps ==
    ASSUME TypeOK, Reservations, NEW o \in Owners, NEW r \in Redis, Record(o, r),
           UNCHANGED <<cache, holder, flushing>>,
           ~r.ready, \A p \in Owners : ~Same(cache[p], r)
    PROVE  Reservations'
  <1>1. redis'[o] = r /\ \A p \in Owners \ {o} : redis'[p] = redis[p]
    BY DEF Record, TypeOK
  <1> SUFFICES ASSUME NEW q \in Owners, redis'[q] # Nothing, Untouched(q)'
               PROVE  Reserved(q)'
    BY DEF Reservations
  <1>2. CASE q = o
    <2>1. \A p \in Owners \ {o} : ~Same(redis[p], r)
      BY <1>2, RecordTouches
    <2> QED BY <1>1, <1>2, <2>1 DEF Reserved, Same
  <1>3. CASE q # o
    BY <1>3, WriteKeeps
  <1> QED BY <1>2, <1>3

\* An update makes its own service a touched one.
LEMMA UpdateKeeps ==
    ASSUME TypeOK, Reservations, NEW o \in Owners, NEW r \in Redis, Record(o, r),
           UNCHANGED <<cache, holder, flushing>>, redis[o] # Nothing
    PROVE  Reservations'
  <1> SUFFICES ASSUME NEW q \in Owners, redis'[q] # Nothing, Untouched(q)'
               PROVE  Reserved(q)'
    BY DEF Reservations
  <1>1. q # o
    BY RecordTouches
  <1> QED BY <1>1, WriteKeeps

\* Every step preserves the invariant.
LEMMA RedisStep ==
    ASSUME RedisInv, [Next]_vars
    PROVE  RedisInv'
  <1>0. TypeOK' /\ AtWork' /\ TypeOK /\ AtWork /\ Reservations
    BY TypeStep DEF RedisInv
  <1> SUFFICES Reservations'
    BY <1>0 DEF RedisInv
  <1>1. ASSUME NEW s \in Services, Delete(s) PROVE Reservations'
    <2>1. CASE UNCHANGED <<redis, history>>
      BY <1>0, <1>1, <2>1, QuietStep DEF Delete
    <2>2. CASE Record(<<at, s>>, Nothing)
      <3>1. <<at, s>> \in Owners
        BY <1>0, <1>1 DEF Delete, AtWork, Owners
      <3> QED BY <1>0, <1>1, <2>2, <3>1, DeleteKeeps DEF Delete
    <2> QED BY <1>1, <2>1, <2>2 DEF Delete, Writes
  <1>2. ASSUME NEW s \in Services, Create(s) PROVE Reservations'
    <2>1. CASE UNCHANGED <<redis, history>>
      BY <1>0, <1>2, <2>1, QuietStep DEF Create
    <2>2. CASE /\ redis[<<at, s>>] = Nothing
               /\ \E n \in Free(seen[s]) :
                    Record(<<at, s>>, [env |-> seen[s], number |-> n,
                                       ready |-> FALSE])
      <3>1. PICK n \in Free(seen[s]) :
               Record(<<at, s>>, [env |-> seen[s], number |-> n, ready |-> FALSE])
        BY <2>2
      <3> DEFINE o == <<at, s>>
                 r == [env |-> seen[s], number |-> n, ready |-> FALSE]
      <3>2. o \in Owners /\ seen[s] \in Envs
        BY <1>0, <1>2 DEF Create, AtWork, Owners, TypeOK, Todo, ToCreate, Maybe
      <3>3. r \in Redis
        BY <3>2 DEF Free, Redis
      <3>4. Record(o, r) /\ UNCHANGED <<cache, holder, flushing>>
        BY <1>2, <3>1 DEF Create
      <3>5. ~r.ready /\ \A p \in Owners : ~Same(cache[p], r)
        BY DEF Free, Same
      <3> HIDE DEF o, r
      <3> QED BY <1>0, <3>2, <3>3, <3>4, <3>5, CreateKeeps
    <2> QED BY <1>2, <2>1, <2>2 DEF Create, Writes
  <1>3. ASSUME NEW s \in Services, Update(s) PROVE Reservations'
    <2>1. CASE UNCHANGED <<redis, history>>
      BY <1>0, <1>3, <2>1, QuietStep DEF Update
    <2>2. CASE /\ redis[<<at, s>>] = listed[s]
               /\ Record(<<at, s>>, [env |-> seen[s], number |-> 0,
                                     ready |-> listed[s].ready])
      <3> DEFINE o == <<at, s>>
                 r == [env |-> seen[s], number |-> 0, ready |-> listed[s].ready]
      <3>1. /\ o \in Owners /\ seen[s] \in Envs
            /\ listed[s] \in Redis /\ listed[s] # Nothing
        BY <1>0, <1>3
        DEF Update, AtWork, Owners, TypeOK, Todo, ToUpdate, Maybe
      <3>2. r \in Redis
        BY <3>1, CountAssumption DEF Numbers, Redis
      <3>3. Record(o, r) /\ UNCHANGED <<cache, holder, flushing>>
        BY <1>3, <2>2 DEF Update
      <3>4. redis[o] # Nothing
        BY <2>2, <3>1
      <3> HIDE DEF o, r
      <3> QED BY <1>0, <3>1, <3>2, <3>3, <3>4, UpdateKeeps
    <2> QED BY <1>3, <2>1, <2>2 DEF Update, Writes
  <1>4. ASSUME NEW p \in Owners, Sync(p) PROVE Reservations'
    <2>1. /\ \A t \in Owners : cache'[t] = cache[t] \/ cache'[t] = redis[t]
          /\ UNCHANGED <<redis, holder, history, flushing>>
      BY <1>0, <1>4 DEF Sync, TypeOK
    <2> QED
      BY <1>0, <2>1
      DEF Reservations, Reserved, Untouched, OwnFlush, Same, history
  <1>5. CASE Crash
    <2>1. cache' = redis /\ flushing' = Nothing
          /\ UNCHANGED <<redis, holder, history>>
      BY <1>5 DEF Crash
    <2> QED
      BY <1>0, <2>1
      DEF Reservations, Reserved, Untouched, OwnFlush, Same, history
  <1>6. ASSUME NEW p \in Owners, BeginFlush(p) PROVE Reservations'
    <2>1. flushing' = [owner |-> p, as |-> cache[p]]
          /\ UNCHANGED <<redis, cache, holder, history>>
      BY <1>6 DEF BeginFlush
    <2> QED
      BY <1>0, <2>1
      DEF Reservations, Reserved, Untouched, OwnFlush, Same, history
  <1>7. CASE Flush
    <2> DEFINE o == flushing.owner
               d == <<flushing.as.env, flushing.as.number>>
    <2>1. /\ o \in Owners /\ flushing.as \in Redis
          /\ flushing # Nothing /\ flushing.as # Nothing
      BY <1>0, <1>7, RedisIsSomething DEF Flush, TypeOK, Maybe
    <2>2. d \in Envs \X Numbers
      BY <2>1 DEF Redis
    <2>3. /\ holder' = holder \/ holder' = [holder EXCEPT ![d] = o]
          /\ flushing' = Nothing /\ UNCHANGED <<cache, history>>
      BY <1>7 DEF Flush
    <2>4. redis' = redis
          \/ /\ holder' = [holder EXCEPT ![d] = o] /\ redis[o] = flushing.as
             /\ redis' = [redis EXCEPT ![o] = [@ EXCEPT !.ready = TRUE]]
      BY <1>7 DEF Flush
    <2>5. \A p \in Owners : p # o => redis'[p] = redis[p]
      BY <1>0, <2>1, <2>4 DEF TypeOK
    <2>6. redis'[o] = redis[o]
          \/ /\ holder'[d] = o /\ redis[o] = flushing.as
             /\ redis'[o] = [flushing.as EXCEPT !.ready = TRUE]
      <3>1. holder' = [holder EXCEPT ![d] = o] => holder'[d] = o
        BY <1>0, <2>2 DEF TypeOK
      <3>2. redis' = [redis EXCEPT ![o] = [@ EXCEPT !.ready = TRUE]]
              /\ redis[o] = flushing.as
            => redis'[o] = [flushing.as EXCEPT !.ready = TRUE]
        BY <1>0, <2>1 DEF TypeOK
      <3> QED  BY <2>4, <3>1, <3>2
    <2>7. ASSUME NEW q \in Owners, redis[q] # Nothing
          PROVE  /\ redis'[q] # Nothing /\ redis'[q].env = redis[q].env
                 /\ redis'[q].number = redis[q].number
      <3>1. redis[q] \in Redis
        BY <1>0, <2>7 DEF TypeOK, Maybe
      <3>2. CASE redis'[q] = redis[q]
        BY <2>7, <3>2
      <3>3. CASE redis'[q] = [redis[q] EXCEPT !.ready = TRUE]
        <4>1. /\ redis'[q] \in Redis /\ redis'[q].env = redis[q].env
              /\ redis'[q].number = redis[q].number
          BY <3>1, <3>3 DEF Redis
        <4> QED BY <4>1, RedisIsSomething
      <3> QED BY <2>5, <2>6, <3>2, <3>3
    <2>8. ASSUME NEW q \in Owners, redis'[q] # Nothing
          PROVE  redis[q] # Nothing
      BY <2>1, <2>5, <2>6, <2>8
    <2>9. ASSUME NEW q \in Owners, redis'[q] # Nothing, Untouched(q)'
          PROVE  Reserved(q)'
      <3>1. Reserved(q) /\ redis[q] # Nothing
        BY <1>0, <2>3, <2>8, <2>9 DEF Reservations, Untouched, history
      <3>2. \A p \in Owners \ {q} : /\ ~Same(redis'[p], redis'[q])
                                    /\ ~Same(cache'[p], redis'[q])
        BY <2>3, <2>7, <2>8, <3>1 DEF Reserved, Same
      <3>3. <<redis[q].env, redis[q].number>> \in Envs \X Numbers
        BY <1>0, <3>1 DEF TypeOK, Redis, Maybe
      <3>4. ASSUME redis'[q].ready
            PROVE  holder'[<<redis[q].env, redis[q].number>>] = q
        <4>1. CASE redis'[q] = redis[q]
          <5>1. /\ holder[<<redis[q].env, redis[q].number>>] = q
                /\ o = q \/ d # <<redis[q].env, redis[q].number>>
            BY <2>1, <3>1, <3>4, <4>1 DEF Reserved, OwnFlush, Same
          <5> QED BY <1>0, <2>2, <2>3, <3>3, <5>1 DEF TypeOK
        <4>2. CASE redis'[q] # redis[q]
          BY <2>5, <2>6, <4>2
        <4> QED BY <4>1, <4>2
      <3> QED BY <2>3, <2>7, <3>1, <3>2, <3>4 DEF Reserved, OwnFlush
    <2> QED BY <2>9 DEF Reservations
  <1>8. CASE \/ \E x \in Sites : Begin(x)
             \/ NoRoom \/ CheckReady \/ Save
             \/ \E x \in Sites, s \in Services, e \in Maybe(Envs) : Edit(x, s, e)
    <2>1. UNCHANGED <<redis, cache, holder, history, flushing>>
      BY <1>8 DEF Begin, NoRoom, CheckReady, Save, Edit
    <2> QED BY <1>0, <2>1, QuietStep
  <1>9. CASE UNCHANGED vars
    <2>1. UNCHANGED <<redis, cache, holder, history, flushing>>
      BY <1>9 DEF vars
    <2> QED BY <1>0, <2>1, QuietStep
  <1> QED
    BY <1>1, <1>2, <1>3, <1>4, <1>5, <1>6, <1>7, <1>8, <1>9
    DEF Next, Reconcile, Controller

\* RedisInv is an invariant, with any lag and any number of servers.
LEMMA RedisInvHolds == Spec => []RedisInv
  <1>1. Init => RedisInv
    BY TypeInit DEF Init, RedisInv, Reservations
  <1>2. RedisInv /\ [Next]_vars => RedisInv'
    BY RedisStep
  <1> QED BY <1>1, <1>2, PTL DEF Spec

\* ReconcileRedis never empties the database of a service that may run, not
\* even when it was begun for an object that has been deleted, or was read from
\* a cache that lags: unless that service was given a number another one had,
\* or was moved to another server.
THEOREM OwnFlushHolds == Spec => []ReadyIsOwnFlush
  <1>1. RedisInv => ReadyIsOwnFlush
    BY DEF RedisInv, Reservations, Reserved, ReadyIsOwnFlush
  <1> QED BY <1>1, RedisInvHolds, PTL
=============================================================================
