-------------------------- MODULE BackupJobProofs --------------------------
(***************************************************************************)
(* Proofs about BackupJob, for every set of services, every lag of the     *)
(* caches and any number of edits and faults.                              *)
(***************************************************************************)
EXTENDS BackupJob, TLAPS

-----------------------------------------------------------------------------
(* The inductive invariant. *)

\* What is noted of a service has happened to its batch Job.
Witnessed(f) ==
    \A s \in Services : /\ f[s] = "Complete" => s \in succeeded
                        /\ f[s] = "Failed" => s \in failed

\* A copy of the Backup says so of its services, and says Failed only if one
\* has failed, Complete only if all have succeeded.
Honest(b) ==
    b # Nothing =>
        /\ Witnessed(b.svc)
        /\ b.state = "Failed" => failed # {}
        /\ b.state = "Complete" /\ editsLeft = MaxEdits =>
              Loaded \subseteq succeeded

Copies == Honest(backup) /\ Honest(backupCache) /\ Honest(copy)
Jobs == Witnessed(batch) /\ Witnessed(batchCache)

\* A site that is being deleted waits for its final backup, which is made when
\* its services cannot be edited any more.
Deletion ==
    /\ site.deleting => kind = "Final"
    /\ kind = "Final" => /\ editsLeft = MaxEdits
                         /\ (~site.deleting => backup = Nothing)

\* A Backup is never removed.
Exists == (backupCache # Nothing \/ pc = "save") => backup # Nothing

IInv == TypeOK /\ Exists /\ Copies /\ Jobs /\ Deletion /\ GoneMeansTried

-----------------------------------------------------------------------------
(* The values a step writes. *)

LEMMA UnsetDiffers == Unset \notin {"Pending", "Running", "Complete", "Failed"}
  BY Zenon DEF Unset

LEMMA FaultType ==
    ASSUME TypeOK, Fault \/ UNCHANGED faultsLeft
    PROVE  faultsLeft' \in 0..MaxFaults
  BY BackupAssumption DEF TypeOK, Fault

LEMMA BackupRecord ==
    ASSUME NEW st \in States, NEW f \in [Services -> States]
    PROVE  [state |-> st, svc |-> f] \in Backup
  BY DEF Backup

LEMMA BackupFields ==
    ASSUME NEW b \in Backup
    PROVE  /\ b # Nothing /\ b.state \in States
           /\ b.svc \in [Services -> States]
           /\ b = [state |-> b.state, svc |-> b.svc]
  <1>1. /\ b.state \in States /\ b.svc \in [Services -> States]
        /\ b = [state |-> b.state, svc |-> b.svc]
    BY DEF Backup
  <1> QED  BY <1>1, BackupAssumption

LEMMA BackupEdited ==
    ASSUME NEW b \in Backup, NEW st \in States, NEW f \in [Services -> States]
    PROVE  /\ [b EXCEPT !.state = st] \in Backup
           /\ [b EXCEPT !.state = st].state = st
           /\ [b EXCEPT !.state = st].svc = b.svc
           /\ [b EXCEPT !.svc = f] \in Backup
           /\ [b EXCEPT !.svc = f].state = b.state
           /\ [b EXCEPT !.svc = f].svc = f
  BY DEF Backup

LEMMA NewBackupHonest == NewBackup \in Backup /\ Honest(NewBackup)
  <1>1. NewBackup \in Backup
    BY BackupRecord DEF NewBackup, States
  <1>2. /\ NewBackup.state = Unset
        /\ \A s \in Services : NewBackup.svc[s] = Unset
    BY DEF NewBackup
  <1> QED  BY <1>1, <1>2, UnsetDiffers DEF Honest, Witnessed

LEMMA InvInit == Init => IInv
  <1> SUFFICES ASSUME Init PROVE IInv
    OBVIOUS
  <1>1. /\ kind \in {"Scheduled", "Final"}
        /\ backup = Nothing /\ backupCache = Nothing
        /\ batch = None /\ batchCache = None /\ pc = "idle"
        /\ copy = NewBackup /\ succeeded = {} /\ failed = {}
        /\ editsLeft = MaxEdits /\ faultsLeft = MaxFaults
    BY DEF Init
  <1>2. /\ site \in Site /\ ~site.deleting /\ ~site.gone
    BY DEF Init, Site
  <1>3. /\ fresh \in BOOLEAN /\ siteQueued \in BOOLEAN /\ queued \in BOOLEAN
        /\ changed \in BOOLEAN /\ current \in BOOLEAN /\ retry \in BOOLEAN
    BY Zenon DEF Init
  <1>4. /\ batch \in [Services -> Maybe(Phases)]
        /\ \A s \in Services : batch[s] = Nothing
    BY <1>1 DEF None, Maybe
  <1>5. editsLeft \in 0..MaxEdits /\ faultsLeft \in 0..MaxFaults
    BY <1>1, BackupAssumption
  <1>6. TypeOK
    BY <1>1, <1>2, <1>3, <1>4, <1>5, NewBackupHonest DEF TypeOK, Maybe
  <1>7. Exists /\ Deletion /\ GoneMeansTried
    BY <1>1, <1>2 DEF Exists, Deletion, GoneMeansTried
  <1>8. Copies
    BY <1>1, NewBackupHonest DEF Copies, Honest
  <1>9. Jobs
    <2>1. "Complete" \in Phases /\ "Failed" \in Phases
      BY DEF Phases
    <2> QED  BY <1>1, <1>4, <2>1, BackupAssumption DEF Jobs, Witnessed
  <1> QED  BY <1>6, <1>7, <1>8, <1>9 DEF IInv

-----------------------------------------------------------------------------
(* The walk over the services. *)

LEMMA CachedBackup ==
    ASSUME IInv, backupCache # Nothing
    PROVE  /\ backupCache \in Backup /\ Honest(backupCache)
           /\ backupCache.svc \in [Services -> States]
           /\ Svc \in [Services -> States] /\ Witnessed(Svc)
  <1>1. backupCache \in Backup /\ Honest(backupCache)
    BY DEF IInv, TypeOK, Copies, Maybe
  <1>2. backupCache.svc \in [Services -> States]
    BY <1>1, BackupFields
  <1>3. Svc \in [Services -> States]
    BY <1>2 DEF Svc, States
  <1>4. Witnessed(Svc)
    BY <1>1 DEF Honest, Witnessed, Svc
  <1> QED  BY <1>1, <1>2, <1>3, <1>4

\* processServiceInJob takes over what has happened.
LEMMA WalkWitnessed ==
    ASSUME IInv, backupCache # Nothing, NEW P \in SUBSET Loaded
    PROVE  /\ AfterWalk(P) \in [Services -> States]
           /\ Witnessed(AfterWalk(P))
           /\ \A s \in P : AfterWalk(P)[s] = Outcome(s) /\ s \in Services
  <1>1. P \subseteq Services
    BY DEF Loaded, IInv, TypeOK, Site
  <1>2. ASSUME NEW s \in Services
        PROVE  /\ Outcome(s) \in States
               /\ Outcome(s) = "Complete" => s \in succeeded
               /\ Outcome(s) = "Failed" => s \in failed
    <2>1. batchCache[s] \in Phases \cup {Nothing}
      BY DEF IInv, TypeOK, Maybe
    <2>2. Svc[s] \in States
      BY CachedBackup
    <2>3. CASE Ended(s) \/ (~Missing(s) /\ batchCache[s] = "Active")
      BY <2>2, <2>3, CachedBackup DEF Outcome, Ended, Missing, Witnessed, Final
    <2>4. CASE Missing(s)
      BY <2>4 DEF Outcome, Missing, States
    <2>5. CASE ~Ended(s) /\ ~Missing(s) /\ batchCache[s] # "Active"
      BY <2>1, <2>5
      DEF Outcome, Missing, Phases, States, Final, IInv, Jobs, Witnessed
    <2> QED  BY <2>3, <2>4, <2>5
  <1>3. AfterWalk(P) \in [Services -> States] /\ Witnessed(AfterWalk(P))
    BY <1>2, CachedBackup DEF AfterWalk, Witnessed
  <1>4. \A s \in P : AfterWalk(P)[s] = Outcome(s)
    BY <1>1 DEF AfterWalk
  <1> QED  BY <1>1, <1>3, <1>4

\* The State after it: Failed only if a service has failed, Complete only if it
\* was before.
LEMMA StateWitnessed ==
    ASSUME IInv, backupCache # Nothing, NEW P \in SUBSET Loaded,
           NEW st \in StateAfter(P)
    PROVE  /\ st \in States
           /\ st = "Failed" => failed # {}
           /\ st = "Complete" => backupCache.state = "Complete"
  <1>1. backupCache.state \in States
        /\ (backupCache.state = "Failed" => failed # {})
    BY CachedBackup, BackupFields DEF Honest
  <1>2. ASSUME NEW s \in P, Outcome(s) = "Failed" PROVE failed # {}
    BY <1>2, WalkWitnessed DEF Witnessed
  <1> QED  BY <1>1, <1>2 DEF StateAfter, States, Final

\* Batch Jobs that are created are Active.
LEMMA CreatedJobs ==
    ASSUME IInv, NEW P \in SUBSET Loaded, Created(P) \/ UNCHANGED batch
    PROVE  batch' \in [Services -> Maybe(Phases)] /\ Witnessed(batch')
  <1>1. CASE UNCHANGED batch
    BY <1>1 DEF IInv, TypeOK, Jobs
  <1>2. CASE Created(P)
    <2>1. batch' = [s \in Services |-> IF s \in P /\ Missing(s) THEN "Active"
                                       ELSE batch[s]]
      BY <1>2 DEF Created
    <2>2. "Active" \in Maybe(Phases)
      BY DEF Maybe, Phases
    <2>3. batch' \in [Services -> Maybe(Phases)]
      BY <2>1, <2>2 DEF IInv, TypeOK
    <2> QED  BY <2>1, <2>3 DEF IInv, Jobs, Witnessed
  <1> QED  BY <1>1, <1>2

-----------------------------------------------------------------------------
(* The Backup controller's steps. *)

LEMMA Saves ==
    ASSUME IInv, backupCache # Nothing, NEW b \in Backup, Honest(b),
           NEW chg \in BOOLEAN, NEW again \in BOOLEAN, ToSave(b, chg, again),
           batch' \in [Services -> Maybe(Phases)], Witnessed(batch'),
           Fault \/ UNCHANGED faultsLeft
    PROVE  IInv'
  <1>1. /\ pc' = "save" /\ copy' = b
        /\ UNCHANGED <<kind, site, backup, backupCache, fresh, batchCache,
                       siteQueued, succeeded, failed, editsLeft>>
    BY DEF ToSave, caches, history
  <1>2. /\ changed' \in BOOLEAN /\ current' \in BOOLEAN /\ retry' \in BOOLEAN
        /\ queued' \in BOOLEAN
    BY Zenon DEF ToSave, IInv, TypeOK
  <1>3. faultsLeft' \in 0..MaxFaults
    BY FaultType DEF IInv
  <1>4. TypeOK'
    BY <1>1, <1>2, <1>3 DEF IInv, TypeOK
  <1>5. Exists' /\ Deletion' /\ GoneMeansTried'
    BY <1>1 DEF IInv, Exists, Deletion, GoneMeansTried, Loaded
  <1>6. Copies'
    BY <1>1 DEF IInv, Copies, Honest, Witnessed, Loaded
  <1>7. Jobs'
    BY <1>1 DEF IInv, Jobs, Witnessed
  <1> QED  BY <1>4, <1>5, <1>6, <1>7 DEF IInv

LEMMA InitialiseStep == IInv /\ Initialise => IInv'
  <1> SUFFICES ASSUME IInv, Initialise PROVE IInv'
    OBVIOUS
  <1> DEFINE b == [backupCache EXCEPT !.state = "Pending"]
  <1>1. /\ backupCache # Nothing /\ ToSave(b, TRUE, TRUE)
        /\ UNCHANGED <<batch, faultsLeft>>
    BY DEF Initialise, Begins
  <1>2. "Pending" \in States
    BY DEF States
  <1>3. b \in Backup /\ b.state = "Pending" /\ b.svc = backupCache.svc
    BY ZenonT(60), <1>1, <1>2, CachedBackup, BackupEdited
  <1> HIDE DEF b
  <1>4. Honest(b)
    BY <1>1, <1>3, CachedBackup DEF Honest
  <1>5. batch' \in [Services -> Maybe(Phases)] /\ Witnessed(batch')
    BY <1>1 DEF IInv, TypeOK, Jobs
  <1> QED  BY <1>1, <1>3, <1>4, <1>5, Saves

LEMMA LoadFailsStep == IInv /\ LoadFails => IInv'
  <1> SUFFICES ASSUME IInv, LoadFails PROVE IInv'
    OBVIOUS
  <1>1. backupCache # Nothing /\ Fault /\ UNCHANGED batch
    BY DEF LoadFails, Begins
  <1>2. PICK L \in SUBSET Loaded :
          LET svc == [s \in Services |-> IF s \in L THEN Svc[s]
                                         ELSE backupCache.svc[s]]
          IN  ToSave([backupCache EXCEPT !.svc = svc], svc # backupCache.svc, TRUE)
    BY DEF LoadFails
  <1> DEFINE svc == [s \in Services |-> IF s \in L THEN Svc[s]
                                        ELSE backupCache.svc[s]]
             b == [backupCache EXCEPT !.svc = svc]
             chg == svc # backupCache.svc
  <1>3. backupCache \in Backup /\ Honest(backupCache)
    BY <1>1, CachedBackup
  <1>4. svc \in [Services -> States] /\ Witnessed(svc)
    BY <1>1, CachedBackup DEF Witnessed, Honest
  <1>5. ToSave(b, chg, TRUE) /\ chg \in BOOLEAN
    BY <1>2
  <1> HIDE DEF svc, chg
  <1>6. b \in Backup /\ b.state = backupCache.state /\ b.svc = svc
    <2>1. backupCache.state \in States
      BY <1>3, BackupFields
    <2> QED  BY ZenonT(60), <1>3, <1>4, <2>1, BackupEdited
  <1> HIDE DEF b
  <1>7. Honest(b)
    BY <1>1, <1>3, <1>4, <1>6 DEF Honest
  <1>8. batch' \in [Services -> Maybe(Phases)] /\ Witnessed(batch')
    BY <1>1 DEF IInv, TypeOK, Jobs
  <1> QED  BY <1>1, <1>5, <1>6, <1>7, <1>8, Saves

LEMMA NothingToDoStep == IInv /\ NothingToDo => IInv'
  <1> SUFFICES ASSUME IInv, NothingToDo PROVE IInv'
    OBVIOUS
  <1> DEFINE b == [backupCache EXCEPT !.state = "Complete"]
  <1>1. /\ backupCache # Nothing /\ ToSave(b, TRUE, FALSE) /\ Loaded = {}
        /\ UNCHANGED <<batch, faultsLeft>>
    BY DEF NothingToDo, Begins
  <1>2. "Complete" \in States
    BY DEF States, Final
  <1>3. b \in Backup /\ b.state = "Complete" /\ b.svc = backupCache.svc
    BY ZenonT(60), <1>1, <1>2, CachedBackup, BackupEdited
  <1> HIDE DEF b
  <1>4. Honest(b)
    BY <1>1, <1>3, CachedBackup DEF Honest
  <1>5. batch' \in [Services -> Maybe(Phases)] /\ Witnessed(batch')
    BY <1>1 DEF IInv, TypeOK, Jobs
  <1> QED  BY <1>1, <1>3, <1>4, <1>5, Saves

\* The walk as a whole, and a walk that stops: what is to be saved is honest.
LEMMA WalkSaved ==
    ASSUME IInv, backupCache # Nothing, NEW P \in SUBSET Loaded,
           NEW st \in States, st = "Failed" => failed # {},
           st = "Complete" => \/ backupCache.state = "Complete"
                              \/ Loaded \subseteq succeeded
    PROVE  LET b == [state |-> st, svc |-> AfterWalk(P)]
           IN  b \in Backup /\ Honest(b)
  <1> DEFINE b == [state |-> st, svc |-> AfterWalk(P)]
  <1>1. AfterWalk(P) \in [Services -> States] /\ Witnessed(AfterWalk(P))
    BY WalkWitnessed
  <1>2. b \in Backup
    BY <1>1, BackupRecord
  <1>3. b.state = st /\ b.svc = AfterWalk(P)
    OBVIOUS
  <1> HIDE DEF b
  <1>4. Honest(backupCache)
    BY CachedBackup
  <1>5. Honest(b)
    BY <1>1, <1>3, <1>4 DEF Honest
  <1> QED  BY <1>2, <1>5 DEF b

LEMMA ProcessStep == IInv /\ Process => IInv'
  <1> SUFFICES ASSUME IInv, Process PROVE IInv'
    OBVIOUS
  <1>1. backupCache # Nothing /\ Created(Loaded) /\ UNCHANGED faultsLeft
    BY DEF Process, Begins
  <1>2. PICK st \in StateAfter(Loaded) :
          LET all == \A s \in Loaded : AfterWalk(Loaded)[s] \in Final
              complete == all /\ st # "Failed"
          IN  ToSave([state |-> IF complete THEN "Complete" ELSE st,
                      svc |-> AfterWalk(Loaded)],
                     Changes(Loaded) \/ complete, FALSE)
    BY DEF Process
  <1> DEFINE all == \A s \in Loaded : AfterWalk(Loaded)[s] \in Final
             complete == all /\ st # "Failed"
             last == IF complete THEN "Complete" ELSE st
             chg == Changes(Loaded) \/ complete
             b == [state |-> last, svc |-> AfterWalk(Loaded)]
  <1>3. ToSave(b, chg, FALSE) /\ chg \in BOOLEAN
    BY <1>2
  <1>4. /\ st \in States /\ (st = "Failed" => failed # {})
        /\ st = "Complete" => backupCache.state = "Complete"
    BY <1>1, StateWitnessed
  <1>5. complete => Loaded \subseteq succeeded
    <2> SUFFICES ASSUME complete, NEW s \in Loaded PROVE s \in succeeded
      OBVIOUS
    <2>1. \A r \in Loaded : Outcome(r) \in Final /\ AfterWalk(Loaded)[r] = Outcome(r)
      BY <1>1, WalkWitnessed
    <2>2. \A r \in Loaded : ~Missing(r)
      BY <2>1 DEF Outcome, Missing, Final
    <2>3. \A r \in Loaded : Outcome(r) # "Failed"
      BY <2>2 DEF StateAfter
    <2>4. Outcome(s) = "Complete"
      BY <2>1, <2>3 DEF Final
    <2> QED  BY <1>1, <2>1, <2>4, WalkWitnessed DEF Witnessed
  <1>6. /\ last \in States /\ (last = "Failed" => failed # {})
        /\ last = "Complete" => \/ backupCache.state = "Complete"
                                \/ Loaded \subseteq succeeded
    BY <1>4, <1>5 DEF States, Final
  <1>7. batch' \in [Services -> Maybe(Phases)] /\ Witnessed(batch')
    BY <1>1, CreatedJobs
  <1> HIDE DEF last, chg
  <1>8. b \in Backup /\ Honest(b)
    BY <1>1, <1>6, WalkSaved
  <1> HIDE DEF b
  <1> QED  BY <1>1, <1>3, <1>7, <1>8, Saves

LEMMA StoppedStep == IInv /\ Stopped => IInv'
  <1> SUFFICES ASSUME IInv, Stopped PROVE IInv'
    OBVIOUS
  <1>1. backupCache # Nothing
    BY DEF Stopped, Begins
  <1>2. \E P \in SUBSET Loaded, st \in States, chg \in BOOLEAN :
          /\ st = "Failed" => failed # {}
          /\ st = "Complete" => backupCache.state = "Complete"
          /\ Created(P) /\ (Fault \/ UNCHANGED faultsLeft)
          /\ ToSave([state |-> st, svc |-> AfterWalk(P)], chg, TRUE)
    <2>1. PICK s \in Loaded, P \in SUBSET Loaded :
            /\ s \notin P /\ Created(P)
            /\ \/ /\ Missing(s)
                  /\ \/ batch[s] # Nothing /\ UNCHANGED faultsLeft
                     \/ Fault
                  /\ ToSave([state |-> "Running", svc |-> AfterWalk(P)], TRUE,
                            TRUE)
               \/ /\ Fault
                  /\ \E st \in StateAfter(P) :
                       ToSave([state |-> st, svc |-> AfterWalk(P)], Changes(P),
                              TRUE)
      BY DEF Stopped
    <2>2. CASE /\ Fault \/ UNCHANGED faultsLeft
               /\ ToSave([state |-> "Running", svc |-> AfterWalk(P)], TRUE, TRUE)
      <3>1. "Running" \in States
        BY DEF States
      <3> QED  BY <2>1, <2>2, <3>1
    <2>3. CASE Fault /\ \E st \in StateAfter(P) :
                  ToSave([state |-> st, svc |-> AfterWalk(P)], Changes(P), TRUE)
      <3>1. PICK st \in StateAfter(P) :
              ToSave([state |-> st, svc |-> AfterWalk(P)], Changes(P), TRUE)
        BY <2>3
      <3>2. /\ st \in States /\ (st = "Failed" => failed # {})
            /\ st = "Complete" => backupCache.state = "Complete"
        BY <1>1, StateWitnessed
      <3>3. Changes(P) \in BOOLEAN
        BY DEF Changes
      <3> QED  BY <2>1, <2>3, <3>1, <3>2, <3>3
    <2> QED  BY <2>1, <2>2, <2>3
  <1>3. PICK P \in SUBSET Loaded, st \in States, chg \in BOOLEAN :
          /\ st = "Failed" => failed # {}
          /\ st = "Complete" => backupCache.state = "Complete"
          /\ Created(P) /\ (Fault \/ UNCHANGED faultsLeft)
          /\ ToSave([state |-> st, svc |-> AfterWalk(P)], chg, TRUE)
    BY <1>2
  <1> DEFINE b == [state |-> st, svc |-> AfterWalk(P)]
  <1>4. b \in Backup /\ Honest(b)
    BY <1>1, <1>3, WalkSaved
  <1>5. ToSave(b, chg, TRUE)
    BY <1>3
  <1> HIDE DEF b
  <1>6. batch' \in [Services -> Maybe(Phases)] /\ Witnessed(batch')
    BY <1>3, CreatedJobs
  <1> QED  BY <1>1, <1>3, <1>4, <1>5, <1>6, Saves

LEMMA SaveStep == IInv /\ Save => IInv'
  <1> SUFFICES ASSUME IInv, Save PROVE IInv'
    OBVIOUS
  <1>1. /\ backup' \in {backup, copy} /\ pc' = "idle" /\ copy' = NewBackup
        /\ backup # Nothing
        /\ UNCHANGED <<kind, site, backupCache, batch, batchCache, siteQueued,
                       succeeded, failed, editsLeft>>
    BY DEF Save, history, IInv, Exists
  <1>2. /\ fresh' \in BOOLEAN /\ queued' \in BOOLEAN /\ changed' \in BOOLEAN
        /\ current' \in BOOLEAN /\ retry' \in BOOLEAN
    BY Zenon DEF Save, IInv, TypeOK
  <1>3. faultsLeft' \in 0..MaxFaults
    <2>1. Fault \/ UNCHANGED faultsLeft
      BY DEF Save
    <2> QED  BY <2>1, FaultType DEF IInv
  <1>4. backup' \in Backup
    BY <1>1 DEF IInv, TypeOK, Maybe
  <1>5. TypeOK'
    BY <1>1, <1>2, <1>3, <1>4, NewBackupHonest DEF IInv, TypeOK, Maybe
  <1>6. Exists' /\ Deletion' /\ GoneMeansTried'
    <2>1. backup' # Nothing
      BY <1>4, BackupFields
    <2> QED  BY <1>1, <2>1 DEF IInv, Exists, Deletion, GoneMeansTried, Loaded
  <1>7. Copies'
    BY <1>1, NewBackupHonest DEF IInv, Copies, Honest, Witnessed, Loaded
  <1>8. Jobs'
    BY <1>1 DEF IInv, Jobs, Witnessed
  <1> QED  BY <1>5, <1>6, <1>7, <1>8 DEF IInv

-----------------------------------------------------------------------------
(* The steps of the site reconciler, the user and the cluster. *)

LEMMA ScheduleStep == IInv /\ Schedule => IInv'
  <1> SUFFICES ASSUME IInv, Schedule PROVE IInv'
    OBVIOUS
  <1>1. /\ kind = "Scheduled" /\ backup' = NewBackup /\ fresh' \in BOOLEAN
        /\ UNCHANGED <<kind, site, backupCache, batch, batchCache, siteQueued,
                       queued, pc, copy, changed, current, retry, succeeded,
                       failed, editsLeft, faultsLeft>>
    BY DEF Schedule, reconcile, history
  <1>2. backup' # Nothing
    BY <1>1, NewBackupHonest, BackupFields
  <1>3. TypeOK'
    BY <1>1, NewBackupHonest DEF IInv, TypeOK, Maybe
  <1>4. Exists' /\ Deletion' /\ GoneMeansTried'
    BY <1>1, <1>2 DEF IInv, Exists, Deletion, GoneMeansTried, Loaded
  <1>5. Copies' /\ Jobs'
    BY <1>1, NewBackupHonest DEF IInv, Copies, Honest, Witnessed, Loaded, Jobs
  <1> QED  BY <1>3, <1>4, <1>5 DEF IInv

LEMMA SiteFields ==
    ASSUME site \in Site
    PROVE  /\ [site EXCEPT !.pending = TRUE] \in Site
           /\ [site EXCEPT !.pending = TRUE].services = site.services
           /\ [site EXCEPT !.pending = TRUE].deleting = site.deleting
           /\ [site EXCEPT !.pending = TRUE].gone = site.gone
           /\ [site EXCEPT !.gone = TRUE] \in Site
           /\ [site EXCEPT !.gone = TRUE].services = site.services
           /\ [site EXCEPT !.gone = TRUE].deleting = site.deleting
           /\ [site EXCEPT !.deleting = TRUE] \in Site
           /\ [site EXCEPT !.deleting = TRUE].services = site.services
           /\ [site EXCEPT !.deleting = TRUE].deleting
           /\ [site EXCEPT !.deleting = TRUE].gone = site.gone
  BY DEF Site

\* The finalizer is removed when the final backup has ended, one way or the
\* other: its services are still those of the site.
LEMMA HandleDeleteStep == IInv /\ HandleDelete => IInv'
  <1> SUFFICES ASSUME IInv, HandleDelete PROVE IInv'
    OBVIOUS
  <1>1. /\ site.deleting /\ ~site.gone
        /\ UNCHANGED <<kind, backupCache, batch, batchCache, queued, pc, copy,
                       changed, current, retry, succeeded, failed, editsLeft>>
    BY DEF HandleDelete, InSync, reconcile, history
  <1>2. site \in Site /\ kind = "Final" /\ editsLeft = MaxEdits
    BY <1>1 DEF IInv, TypeOK, Deletion
  <1>3. siteQueued' \in BOOLEAN /\ fresh' \in BOOLEAN
    BY Zenon DEF HandleDelete, IInv, TypeOK
  <1>4. faultsLeft' \in 0..MaxFaults
    <2>1. Fault \/ UNCHANGED faultsLeft
      BY DEF HandleDelete
    <2> QED  BY <2>1, FaultType DEF IInv
  <1>5. backup' \in {backup, NewBackup}
    BY DEF HandleDelete
  <1>6. \/ UNCHANGED site
        \/ site' = [site EXCEPT !.pending = TRUE]
        \/ site' = [site EXCEPT !.gone = TRUE] /\ BackupIsComplete
    BY DEF HandleDelete
  <1>7. /\ site' \in Site /\ site'.services = site.services /\ site'.deleting
        /\ site'.gone => BackupIsComplete
    BY <1>1, <1>2, <1>6, SiteFields
  <1>8. TypeOK'
    BY <1>1, <1>3, <1>4, <1>5, <1>7, NewBackupHonest DEF IInv, TypeOK, Maybe
  <1>9. Exists' /\ Deletion'
    <2>1. NewBackup # Nothing
      BY NewBackupHonest, BackupFields
    <2> QED  BY <1>1, <1>2, <1>5, <1>7, <2>1 DEF IInv, Exists, Deletion
  <1>10. Copies' /\ Jobs'
    BY <1>1, <1>5, <1>7, NewBackupHonest
    DEF IInv, Copies, Honest, Witnessed, Loaded, Jobs
  <1>11. GoneMeansTried'
    BY <1>1, <1>2, <1>7
    DEF IInv, Copies, Honest, GoneMeansTried, Loaded, BackupIsComplete, Final
  <1> QED  BY <1>8, <1>9, <1>10, <1>11 DEF IInv

LEMMA DeleteSiteStep == IInv /\ DeleteSite => IInv'
  <1> SUFFICES ASSUME IInv, DeleteSite PROVE IInv'
    OBVIOUS
  <1>1. /\ kind = "Final" /\ site' = [site EXCEPT !.deleting = TRUE]
        /\ siteQueued' \in BOOLEAN
        /\ UNCHANGED <<kind, backup, batch, backupCache, fresh, batchCache,
                       queued, pc, copy, changed, current, retry, succeeded,
                       failed, editsLeft, faultsLeft>>
    BY DEF DeleteSite, caches, reconcile, history
  <1>2. /\ site' \in Site /\ site'.services = site.services /\ site'.deleting
        /\ site'.gone = site.gone
    BY <1>1, SiteFields DEF IInv, TypeOK
  <1>3. TypeOK'
    BY <1>1, <1>2 DEF IInv, TypeOK
  <1>4. Exists' /\ Deletion' /\ GoneMeansTried'
    BY <1>1, <1>2 DEF IInv, Exists, Deletion, GoneMeansTried, Loaded
  <1>5. Copies' /\ Jobs'
    BY <1>1, <1>2 DEF IInv, Copies, Honest, Witnessed, Loaded, Jobs
  <1> QED  BY <1>3, <1>4, <1>5 DEF IInv

LEMMA EditServicesStep ==
    ASSUME IInv, NEW S \in SUBSET Services, EditServices(S)
    PROVE  IInv'
  <1>1. /\ ~site.gone /\ ~site.deleting /\ backup # Nothing /\ editsLeft > 0
        /\ site' = [site EXCEPT !.services = S] /\ editsLeft' = editsLeft - 1
        /\ UNCHANGED <<kind, backup, batch, backupCache, fresh, batchCache,
                       siteQueued, queued, pc, copy, changed, current, retry,
                       succeeded, failed, faultsLeft>>
    BY DEF EditServices, InSync, caches, reconcile, history
  <1>2. /\ site' \in Site /\ ~site'.deleting /\ ~site'.gone
    BY <1>1 DEF IInv, TypeOK, Site
  <1>3. editsLeft' \in 0..MaxEdits /\ editsLeft' # MaxEdits
    BY <1>1, BackupAssumption DEF IInv, TypeOK
  <1>4. kind # "Final"
    BY <1>1 DEF IInv, Deletion
  <1>5. TypeOK'
    BY <1>1, <1>2, <1>3 DEF IInv, TypeOK
  <1>6. Exists' /\ Deletion' /\ GoneMeansTried'
    BY <1>1, <1>2, <1>4 DEF IInv, Exists, Deletion, GoneMeansTried
  <1>7. Copies' /\ Jobs'
    BY <1>1, <1>3 DEF IInv, Copies, Honest, Witnessed, Jobs
  <1> QED  BY <1>5, <1>6, <1>7 DEF IInv

LEMMA FinishBatchStep ==
    ASSUME IInv, NEW s \in Services, FinishBatch(s)
    PROVE  IInv'
  <1>1. /\ UNCHANGED <<kind, site, backup, backupCache, fresh, batchCache,
                       siteQueued, queued, pc, copy, changed, current, retry,
                       editsLeft, faultsLeft>>
        /\ succeeded \subseteq succeeded' /\ failed \subseteq failed'
        /\ succeeded' \subseteq Services /\ failed' \subseteq Services
        /\ \/ batch' = [batch EXCEPT ![s] = "Complete"] /\ s \in succeeded'
           \/ batch' = [batch EXCEPT ![s] = "Failed"] /\ s \in failed'
    BY DEF FinishBatch, caches, reconcile, IInv, TypeOK
  <1>2. /\ batch' \in [Services -> Maybe(Phases)]
        /\ \A r \in Services \ {s} : batch'[r] = batch[r]
        /\ \/ batch'[s] = "Complete" /\ s \in succeeded'
           \/ batch'[s] = "Failed" /\ s \in failed'
    <2>1. "Complete" \in Maybe(Phases) /\ "Failed" \in Maybe(Phases)
      BY DEF Maybe, Phases
    <2> QED  BY <1>1, <2>1 DEF IInv, TypeOK
  <1>3. TypeOK'
    BY <1>1, <1>2 DEF IInv, TypeOK
  <1>4. Exists' /\ Deletion'
    BY <1>1 DEF IInv, Exists, Deletion
  <1>5. GoneMeansTried'
    BY <1>1 DEF IInv, GoneMeansTried, Loaded
  <1>6. Copies'
    BY <1>1 DEF IInv, Copies, Honest, Witnessed, Loaded
  <1>7. Jobs'
    BY <1>1, <1>2 DEF IInv, Jobs, Witnessed
  <1> QED  BY <1>3, <1>4, <1>5, <1>6, <1>7 DEF IInv

LEMMA ExpireBatchStep ==
    ASSUME IInv, NEW s \in Services, ExpireBatch(s)
    PROVE  IInv'
  <1>1. /\ UNCHANGED <<kind, site, backup, backupCache, fresh, batchCache,
                       siteQueued, pc, copy, changed, current, retry,
                       succeeded, failed, editsLeft>>
        /\ batch' = [batch EXCEPT ![s] = Nothing] /\ queued' \in BOOLEAN
        /\ Fault \/ UNCHANGED faultsLeft
    BY DEF ExpireBatch, caches, history, IInv, TypeOK
  <1>2. /\ batch' \in [Services -> Maybe(Phases)]
        /\ \A r \in Services : batch'[r] \in {batch[r], Nothing}
    BY <1>1 DEF IInv, TypeOK, Maybe
  <1>3. faultsLeft' \in 0..MaxFaults
    BY <1>1, FaultType DEF IInv
  <1>4. TypeOK'
    BY <1>1, <1>2, <1>3 DEF IInv, TypeOK
  <1>5. Exists' /\ Deletion' /\ GoneMeansTried'
    BY <1>1 DEF IInv, Exists, Deletion, GoneMeansTried, Loaded
  <1>6. Copies'
    BY <1>1 DEF IInv, Copies, Honest, Witnessed, Loaded
  <1>7. Jobs'
    <2>1. Nothing \notin {"Complete", "Failed"}
      BY BackupAssumption DEF Phases
    <2> QED  BY <1>1, <1>2, <2>1 DEF IInv, Jobs, Witnessed
  <1> QED  BY <1>4, <1>5, <1>6, <1>7 DEF IInv

LEMMA CrashStep == IInv /\ Crash => IInv'
  <1> SUFFICES ASSUME IInv, Crash PROVE IInv'
    OBVIOUS
  <1>1. /\ backupCache' = backup /\ batchCache' = batch /\ pc' = "idle"
        /\ copy' = NewBackup
        /\ UNCHANGED <<kind, site, backup, batch, succeeded, failed, editsLeft>>
        /\ faultsLeft' \in 0..MaxFaults
    BY FaultType DEF Crash, history, IInv
  <1>2. /\ fresh' \in BOOLEAN /\ queued' \in BOOLEAN /\ siteQueued' \in BOOLEAN
        /\ changed' \in BOOLEAN /\ current' \in BOOLEAN /\ retry' \in BOOLEAN
    <2>1. site.deleting \in BOOLEAN
      BY DEF IInv, TypeOK, Site
    <2> QED  BY <2>1, Zenon DEF Crash
  <1>3. TypeOK'
    BY <1>1, <1>2, NewBackupHonest DEF IInv, TypeOK
  <1>4. Exists' /\ Deletion' /\ GoneMeansTried'
    BY <1>1 DEF IInv, Exists, Deletion, GoneMeansTried, Loaded
  <1>5. Copies' /\ Jobs'
    BY <1>1, NewBackupHonest
    DEF IInv, Copies, Honest, Witnessed, Loaded, Jobs
  <1> QED  BY <1>3, <1>4, <1>5 DEF IInv

LEMMA SyncBackupStep == IInv /\ SyncBackup => IInv'
  <1> SUFFICES ASSUME IInv, SyncBackup PROVE IInv'
    OBVIOUS
  <1>1. /\ backupCache' = backup
        /\ UNCHANGED <<kind, site, backup, batch, batchCache, pc, copy, changed,
                       current, retry, succeeded, failed, editsLeft, faultsLeft>>
    BY DEF SyncBackup, history
  <1>2. fresh' \in BOOLEAN /\ queued' \in BOOLEAN /\ siteQueued' \in BOOLEAN
    BY Zenon DEF SyncBackup
  <1>3. TypeOK'
    BY <1>1, <1>2 DEF IInv, TypeOK
  <1>4. Exists' /\ Deletion' /\ GoneMeansTried'
    BY <1>1 DEF IInv, Exists, Deletion, GoneMeansTried, Loaded
  <1>5. Copies' /\ Jobs'
    BY <1>1 DEF IInv, Copies, Honest, Witnessed, Loaded, Jobs
  <1> QED  BY <1>3, <1>4, <1>5 DEF IInv

LEMMA SyncBatchStep ==
    ASSUME IInv, NEW s \in Services, SyncBatch(s)
    PROVE  IInv'
  <1>1. /\ batchCache' = [batchCache EXCEPT ![s] = batch[s]] /\ queued' \in BOOLEAN
        /\ UNCHANGED <<kind, site, backup, batch, backupCache, fresh, siteQueued,
                       pc, copy, changed, current, retry, succeeded, failed,
                       editsLeft, faultsLeft>>
    BY DEF SyncBatch, history
  <1>2. /\ batchCache' \in [Services -> Maybe(Phases)]
        /\ \A r \in Services : batchCache'[r] \in {batchCache[r], batch[r]}
    BY <1>1 DEF IInv, TypeOK
  <1>3. TypeOK'
    BY <1>1, <1>2 DEF IInv, TypeOK
  <1>4. Exists' /\ Deletion' /\ GoneMeansTried'
    BY <1>1 DEF IInv, Exists, Deletion, GoneMeansTried, Loaded
  <1>5. Copies'
    BY <1>1 DEF IInv, Copies, Honest, Witnessed, Loaded
  <1>6. Jobs'
    BY <1>1, <1>2 DEF IInv, Jobs, Witnessed
  <1> QED  BY <1>3, <1>4, <1>5, <1>6 DEF IInv

LEMMA InvStep == IInv /\ [Next]_vars => IInv'
  <1> SUFFICES ASSUME IInv, [Next]_vars PROVE IInv'
    OBVIOUS
  <1>1. CASE UNCHANGED vars
    BY <1>1 DEF vars, caches, reconcile, history, IInv, TypeOK, Exists, Copies,
                Honest, Witnessed, Loaded, Jobs, Deletion, GoneMeansTried
  <1>2. CASE Controller
    BY <1>2, InitialiseStep, LoadFailsStep, NothingToDoStep, ProcessStep,
       StoppedStep, SaveStep DEF Controller
  <1>3. CASE \E s \in Services : FinishBatch(s) \/ ExpireBatch(s) \/ SyncBatch(s)
    BY <1>3, FinishBatchStep, ExpireBatchStep, SyncBatchStep
  <1> QED
    BY <1>1, <1>2, <1>3, ScheduleStep, HandleDeleteStep, DeleteSiteStep,
       CrashStep, SyncBackupStep, EditServicesStep DEF Next

LEMMA Invariance == Spec => []IInv
  BY InvInit, InvStep, PTL DEF Spec

-----------------------------------------------------------------------------
\* The objects, the caches and the copy hold what the API allows.
THEOREM BackupTypeCorrect == Spec => []TypeOK
  BY Invariance, PTL DEF IInv

\* CompleteMeansSaved is an invariant: whatever order the services are walked
\* in, wherever a walk stops and however late the batch Jobs are listed.
THEOREM CompleteMeansSavedHolds == Spec => []CompleteMeansSaved
  <1>1. IInv => CompleteMeansSaved
    BY DEF IInv, Copies, Honest, CompleteMeansSaved
  <1> QED  BY <1>1, Invariance, PTL

\* GoneMeansTried is an invariant: EnsureFinalBackupIsComplete lets no site go
\* whose services were not all backed up, unless a batch Job has failed.
THEOREM GoneMeansTriedHolds == Spec => []GoneMeansTried
  BY Invariance, PTL DEF IInv
=============================================================================
