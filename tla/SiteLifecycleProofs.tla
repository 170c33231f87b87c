------------------------ MODULE SiteLifecycleProofs ------------------------
(***************************************************************************)
(* Proofs about SiteLifecycle, for every day, horizon, zone and resync     *)
(* period, all sites and edits, and any number of events.                  *)
(***************************************************************************)
EXTENDS SiteLifecycle, FiniteSetTheorems, WellFoundedInduction, TLAPS

-----------------------------------------------------------------------------
(* The inductive invariant. *)

\* Types of what the times depend on.
Shape ==
    /\ clock \in Times /\ made \in Maybe(Times)
    /\ site \in Site /\ cache \in Site /\ (pc # "idle" => copy \in Site)
    /\ fresh \in BOOLEAN /\ queued \in BOOLEAN /\ current \in BOOLEAN
    /\ pc \in {"idle", "stages", "save"}
    /\ result \in Results

\* No wake-up is set while the key is queued or worked on.  What counts as the
\* latest version is; a reconcile of an older one is followed by another.
Queueing ==
    /\ queued \/ pc # "idle" => timer = None
    /\ fresh => cache = site
    /\ pc # "idle" /\ fresh /\ ~queued => current

\* Against the wish of its spec a site is only disabled after its time.
Justified(s) ==
    ~s.status.enabled /\ s.spec.enabled =>
        /\ s.changedAt # None /\ s.spec.disableAfter # Never
        /\ clock >= s.changedAt + s.spec.disableAfter

\* What the reconcile does not change before the stages without saving it.
Agrees(st, old) ==
    /\ st.disableAt = old.disableAt /\ st.deleteAt = old.deleteAt
    /\ st.nextBackup = old.nextBackup
    /\ st.enabled = old.enabled /\ st.ready = old.ready

\* The copy, against its own spec and, if it is the latest version, the site.
Copying ==
    /\ pc = "stages" =>
         /\ copy.changedAt # None
         /\ copy.status.deleteAt = Deadline(copy.changedAt, copy.spec.deleteAfter)
         /\ Justified(copy)
    /\ pc # "idle" /\ current =>
         copy.spec = site.spec /\ copy.changedAt = site.changedAt
    /\ pc = "stages" /\ current => Agrees(copy.status, site.status)
    /\ pc = "save" /\ current =>
         copy.status.enabled = site.status.enabled \/ Justified(copy)

\* A reconcile that will not be repeated leaves the site other than Complete,
\* or returns the wake-up for what it saves or found saved.
Unfinished ==
    /\ SetSiteState(copy.status).state # "Complete"
    /\ changed \/ site.status.state # "Complete"

Scheduled ==
    /\ result = RecheckResult(copy.status)
    /\ clock \in Ahead(copy.status) => exact
    /\ changed \/ Ahead(site.status) = Ahead(copy.status)

Waking ==
    /\ site.status.state = "Complete" => site.status.ready
    /\ pc = "save" /\ current /\ ~result.again => Unfinished \/ Scheduled

\* The next time is not before the last scheduled Backup: it is in the site, or
\* in the copy that is about to be saved.
Later(t) == t = None \/ t >= made

Answering ==
    /\ made # None => made <= clock
    /\ made # None /\ ~lost =>
         /\ Later(site.status.nextBackup) \/ (pc = "save" /\ touched /\ changed)
         /\ pc = "save" /\ current /\ changed => Later(copy.status.nextBackup)

\* A time that is about to be replaced was answered.
Replacing ==
    LET t == site.status.nextBackup
        u == copy.status.nextBackup
    IN  /\ pc = "save" /\ current
        /\ None \notin {t, u} /\ u # t /\ t < clock /\ ~OutsideWindow(site.spec, t)
        => made # None /\ made > t

\* The time a, if any, is not after b.
NotAfter(a, b) == a = None \/ (b # None /\ a <= b)

\* The list of Backups, whose numbers have a bound.
Listed ==
    /\ clock \in Times
    /\ \E n \in Nat : DOMAIN backups \subseteq 1..n
    /\ backups \in [DOMAIN backups -> Backup]
    /\ \A i \in DOMAIN backups :
          backups[i].state = "Complete" => backups[i].finished \in Times

IInv == /\ Shape /\ Queueing /\ Copying /\ Waking /\ Answering /\ Replacing
        /\ WakeupSet

\* When the last Backup completed: no copy of LastBackupTime is later, and a
\* later copy of the site has a later one.
Recording ==
    /\ completed \in Maybe(Times) /\ NotAfter(completed, clock)
    /\ \A e \in Ends : NotAfter(e, completed)
    /\ NotAfter(cache.status.lastBackup, site.status.lastBackup)
    /\ NotAfter(site.status.lastBackup, completed)
    /\ pc # "idle" =>
         /\ NotAfter(copy.status.lastBackup, completed)
         /\ current => NotAfter(site.status.lastBackup, copy.status.lastBackup)

\* It is still to be read from its Backup, or saved, or about to be.
Noted ==
    completed # None /\ ~lost =>
      \/ completed \in Ends
      \/ site.status.lastBackup = completed
      \/ /\ pc = "save" /\ touched /\ changed
         /\ copy.status.lastBackup = completed

\* Unless the reconciler will look again, the list is tidy already.
Tidy ==
    /\ Unowned = {} /\ Cardinality(Final) <= Keep
    /\ ~lost => site.status.lastBackup = completed

Tidying ==
    fresh /\ ~queued /\ ~site.deleting /\ (pc = "save" => ~result.again) => Tidy

TInv == Recording /\ Noted /\ Tidying

\* The types that no other part relies on.
Plain ==
    /\ children \in {"ready", "busy", "broken"}
    /\ timer \in Maybe(Deadlines)
    /\ pc = "idle" => copy = None
    /\ changed \in BOOLEAN /\ touched \in BOOLEAN
    /\ exact \in BOOLEAN /\ lost \in BOOLEAN
    /\ eventsLeft \in 0..MaxEvents

-----------------------------------------------------------------------------
(* Numbers, and how many of them come first. *)

\* The order of the natural numbers is well-founded.
LEMMA LeastNatural ==
    ASSUME NEW T \in SUBSET Nat, T # {}
    PROVE  \E x \in T : \A y \in T : x <= y
  <1> DEFINE R == {p \in Nat \X Nat : p[1] < p[2]}
  <1>1. IsWellFoundedOn(R, Nat)
    BY NatLessThanWellFounded DEF OpToRel
  <1>2. \A x, y \in Nat : <<y, x>> \in R <=> y < x
    OBVIOUS
  <1> HIDE DEF R
  <1>3. PICK x \in T : \A y \in T : ~(<<y, x>> \in R)
    BY <1>1, WFMin
  <1>4. \A y \in T : ~(y < x)
    BY <1>2, <1>3
  <1> QED
    BY <1>4

\* A bounded set of numbers has a greatest one.
LEMMA GreatestNatural ==
    ASSUME NEW S \in SUBSET Nat, S # {}, NEW n \in Nat, \A x \in S : x <= n
    PROVE  Max(S) \in S /\ \A x \in S : x <= Max(S)
  <1> DEFINE T == {n - x : x \in S}
  <1>1. PICK d \in T : \A e \in T : d <= e
    <2>1. \A x \in S : n - x \in Nat
      OBVIOUS
    <2>2. T \in SUBSET Nat /\ T # {}
      BY <2>1
    <2> HIDE DEF T
    <2> QED  BY <2>2, LeastNatural
  <1>2. PICK m \in S : d = n - m
    BY <1>1
  <1>3. ASSUME NEW x \in S PROVE m >= x
    <2>1. d <= n - x
      BY <1>1
    <2> QED  BY <1>2, <2>1
  <1> QED  BY <1>3 DEF Max

\* Of a finite set of numbers, at most so many have k others before them.
LEMMA OldestCut ==
    ASSUME NEW F \in SUBSET Nat, IsFiniteSet(F), NEW k \in Nat,
           k <= Cardinality(F)
    PROVE  LET left == F \ {i \in F : Cardinality({j \in F : j < i}) < k}
           IN  IsFiniteSet(left) /\ Cardinality(left) <= Cardinality(F) - k
  <1> DEFINE before(i) == {j \in F : j < i}
             left == F \ {i \in F : Cardinality(before(i)) < k}
  <1>1. Cardinality(F) \in Nat
    BY FS_CardinalityType
  <1> SUFFICES IsFiniteSet(left) /\ Cardinality(left) <= Cardinality(F) - k
    OBVIOUS
  <1>2. CASE left = {}
    <2> HIDE DEF left
    <2> QED  BY <1>1, <1>2, FS_EmptySet
  <1>3. CASE left # {}
    <2>1. PICK m \in left : \A i \in left : m <= i
      <3>1. left \in SUBSET Nat
        OBVIOUS
      <3> HIDE DEF left
      <3> QED  BY <1>3, <3>1, LeastNatural
    <2> DEFINE B == before(m)
    <2>2. IsFiniteSet(B) /\ Cardinality(B) \in Nat
      <3>1. B \in SUBSET F
        OBVIOUS
      <3> HIDE DEF B
      <3> QED  BY <3>1, FS_Subset, FS_CardinalityType
    <2>3. Cardinality(B) >= k
      <3>1. ~(Cardinality(B) < k)
        OBVIOUS
      <3> HIDE DEF B
      <3> QED  BY <2>2, <3>1
    <2>4. IsFiniteSet(F \ B) /\ Cardinality(F \ B) = Cardinality(F) - Cardinality(B)
      <3>1. F \cap B = B
        OBVIOUS
      <3> HIDE DEF B
      <3>2. /\ IsFiniteSet(F \ B)
            /\ Cardinality(F \ B) = Cardinality(F) - Cardinality(F \cap B)
        BY FS_Difference
      <3> QED  BY <3>1, <3>2
    <2>5. left \in SUBSET (F \ B)
      <3>1. \A i \in left : i \in F /\ ~(i < m)
        <4>1. left \subseteq F
          OBVIOUS
        <4> HIDE DEF left
        <4> QED  BY <2>1, <4>1
      <3> HIDE DEF left
      <3> QED  BY <3>1
    <2>6. IsFiniteSet(left) /\ Cardinality(left) <= Cardinality(F \ B)
      <3> HIDE DEF left, B
      <3> QED  BY <2>4, <2>5, FS_Subset
    <2>7. Cardinality(left) \in Nat
      <3> HIDE DEF left
      <3> QED  BY <2>6, FS_CardinalityType
    <2>8. Cardinality(left) <= Cardinality(F) - k
      <3> HIDE DEF left, B
      <3> QED  BY <1>1, <2>2, <2>3, <2>4, <2>6, <2>7
    <2> QED  BY <2>6, <2>8
  <1> QED  BY <1>2, <1>3
-----------------------------------------------------------------------------
(* The list of Backups. *)

LEMMA ListFacts ==
    ASSUME Listed
    PROVE  /\ DOMAIN backups \in SUBSET Nat /\ IsFiniteSet(DOMAIN backups)
           /\ Ends \in SUBSET Times
           /\ Final \in SUBSET Nat /\ IsFiniteSet(Final)
           /\ Cardinality(Final) \in Nat
  <1>1. PICK n \in Nat : DOMAIN backups \subseteq 1..n
    BY DEF Listed
  <1>2. IsFiniteSet(1..n)
    BY FS_Interval
  <1>3. DOMAIN backups \in SUBSET Nat /\ IsFiniteSet(DOMAIN backups)
    BY <1>1, <1>2, FS_Subset
  <1>4. Ends \in SUBSET Times
    BY DEF Listed, Ends
  <1>5. Final \in SUBSET DOMAIN backups
    BY DEF Final
  <1>6. IsFiniteSet(Final) /\ Cardinality(Final) \in Nat
    BY <1>3, <1>5, FS_Subset, FS_CardinalityType
  <1> QED  BY <1>3, <1>4, <1>5, <1>6

\* A new Backup gets a number of its own.
LEMMA NumberIsNew ==
    ASSUME Listed, NEW n, n = Max(DOMAIN backups \cup {0}) + 1
    PROVE  n \in Nat \ DOMAIN backups /\ DOMAIN backups \cup {n} \subseteq 1..n
  <1> DEFINE S == DOMAIN backups \cup {0}
  <1>1. PICK m \in Nat : DOMAIN backups \subseteq 1..m
    BY DEF Listed
  <1>2. S \in SUBSET Nat /\ S # {} /\ \A x \in S : x <= m
    BY <1>1
  <1>3. DOMAIN backups \subseteq S /\ n = Max(S) + 1
    OBVIOUS
  <1> HIDE DEF S
  <1>4. Max(S) \in S /\ \A x \in S : x <= Max(S)
    BY <1>2, GreatestNatural
  <1>5. \A x \in DOMAIN backups : x \in Nat /\ x >= 1
    BY <1>1
  <1>6. PICK g \in Nat : n = g + 1 /\ \A x \in S : x <= g
    BY <1>2, <1>3, <1>4
  <1>7. ASSUME NEW x \in DOMAIN backups PROVE x \in 1..n /\ x # n
    BY <1>3, <1>5, <1>6
  <1>8. n \in Nat /\ n \in 1..n
    BY <1>6
  <1> QED  BY ONLY <1>7, <1>8

LEMMA CreatedList ==
    ASSUME Listed, backups' = OneMore, clock' = clock
    PROVE  Listed' /\ Ends' = Ends
  <1> DEFINE n == Max(DOMAIN backups \cup {0}) + 1
  <1>1. n \in Nat \ DOMAIN backups /\ DOMAIN backups \cup {n} \subseteq 1..n
    BY NumberIsNew
  <1>2. backups' = [i \in DOMAIN backups \cup {n} |->
                      IF i = n THEN NewBackup(TRUE) ELSE backups[i]]
    BY DEF OneMore
  <1> HIDE DEF n
  <1>3. /\ NewBackup(TRUE) \in Backup /\ NewBackup(TRUE).state # "Complete"
    BY DEF NewBackup, Backup, Maybe
  <1>4. /\ DOMAIN backups' = DOMAIN backups \cup {n}
        /\ backups'[n] = NewBackup(TRUE)
        /\ \A i \in DOMAIN backups : backups'[i] = backups[i]
    BY <1>1, <1>2
  <1>5. backups' \in [DOMAIN backups' -> Backup]
    BY <1>2, <1>3, <1>4 DEF Listed
  <1>6. Listed'
    BY <1>1, <1>3, <1>4, <1>5 DEF Listed
  <1>7. Ends' = Ends
    <2>1. ASSUME NEW e \in Ends' PROVE e \in Ends
      <3>1. PICK j \in DOMAIN backups' :
                backups'[j].state = "Complete" /\ e = backups'[j].finished
        BY DEF Ends
      <3>2. j \in DOMAIN backups /\ backups'[j] = backups[j]
        BY <1>3, <1>4, <3>1
      <3> QED  BY <3>1, <3>2 DEF Ends
    <2>2. ASSUME NEW e \in Ends PROVE e \in Ends'
      <3>1. PICK j \in DOMAIN backups :
                backups[j].state = "Complete" /\ e = backups[j].finished
        BY DEF Ends
      <3>2. j \in DOMAIN backups' /\ backups'[j] = backups[j]
        BY <1>4
      <3> QED  BY <3>1, <3>2 DEF Ends
    <2> QED  BY <2>1, <2>2
  <1> QED  BY <1>6, <1>7

LEMMA ClaimedList ==
    ASSUME Listed, NEW P, backups' = Claimed(P), clock' = clock
    PROVE  Listed' /\ Ends' = Ends
  <1>1. /\ DOMAIN backups' = DOMAIN backups
        /\ \A i \in DOMAIN backups :
              /\ backups'[i] \in Backup
              /\ backups'[i].state = backups[i].state
              /\ backups'[i].finished = backups[i].finished
    BY DEF Claimed, Listed, Backup
  <1>2. backups' \in [DOMAIN backups' -> Backup]
    BY <1>1 DEF Claimed
  <1>3. Listed'
    BY <1>1, <1>2 DEF Listed
  <1>4. Ends' = Ends
    BY <1>1 DEF Ends
  <1> QED  BY <1>3, <1>4

LEMMA DeletedList ==
    ASSUME Listed, NEW D, backups' = Without(D), clock' = clock
    PROVE  /\ Listed' /\ Ends' \subseteq Ends /\ Unowned' \subseteq Unowned
           /\ Final' = Final \ D /\ (D = {} => Ends' = Ends)
  <1>1. /\ DOMAIN backups' = DOMAIN backups \ D
        /\ \A i \in DOMAIN backups \ D : backups'[i] = backups[i]
    BY DEF Without
  <1>2. backups' \in [DOMAIN backups' -> Backup]
    BY <1>1 DEF Without, Listed
  <1>3. Listed'
    BY <1>1, <1>2 DEF Listed
  <1>4. Ends' \subseteq Ends
    BY <1>1 DEF Ends
  <1>5. Unowned' \subseteq Unowned
    BY <1>1 DEF Unowned
  <1>6. Final' = Final \ D
    BY <1>1 DEF Final
  <1>7. D = {} => Ends' = Ends
    BY <1>1 DEF Ends
  <1> QED  BY <1>3, <1>4, <1>5, <1>6, <1>7

\* What the clean-up deletes leaves no more than Keep.
LEMMA CleanUp ==
    ASSUME Listed
    PROVE  /\ Surplus \in Nat
           /\ Surplus = 0 <=> Cardinality(Final) <= Keep
           /\ Surplus = 0 => Oldest(Surplus) = {}
           /\ Cardinality(Final \ Oldest(Surplus)) <= Keep
  <1> DEFINE k == Surplus
             S == {0, Cardinality(Final) - Keep}
  <1>1. Final \in SUBSET Nat /\ IsFiniteSet(Final) /\ Cardinality(Final) \in Nat
    BY ListFacts
  <1>2. Keep \in Nat
    BY LifecycleAssumption
  <1>3. k = IF Cardinality(Final) <= Keep THEN 0 ELSE Cardinality(Final) - Keep
    <2>1. k = CHOOSE x \in S : \A y \in S : x >= y
      BY DEF Surplus, Max
    <2>2. CASE Cardinality(Final) <= Keep
      <3>1. \A x \in S : (\A y \in S : x >= y) <=> x = 0
        BY <1>1, <1>2, <2>2
      <3> QED  BY <2>1, <2>2, <3>1
    <2>3. CASE ~(Cardinality(Final) <= Keep)
      <3>1. \A x \in S : (\A y \in S : x >= y) <=> x = Cardinality(Final) - Keep
        BY <1>1, <1>2, <2>3
      <3> QED  BY <2>1, <2>3, <3>1
    <2> QED  BY <2>2, <2>3
  <1>4. /\ k \in Nat /\ k <= Cardinality(Final)
        /\ k = 0 <=> Cardinality(Final) <= Keep
        /\ Cardinality(Final) - k <= Keep
    <2> HIDE DEF k
    <2> QED  BY <1>1, <1>2, <1>3
  <1>5. /\ IsFiniteSet(Final \ Oldest(k))
        /\ Cardinality(Final \ Oldest(k)) <= Cardinality(Final) - k
    <2> HIDE DEF k
    <2> QED  BY <1>1, <1>4, OldestCut DEF Oldest
  <1>6. Cardinality(Final \ Oldest(k)) \in Nat
    BY <1>5, FS_CardinalityType
  <1>7. k = 0 => Oldest(k) = {}
    <2>1. ASSUME NEW i \in Final
          PROVE  Cardinality({j \in Final : j < i}) \in Nat
      <3>1. {j \in Final : j < i} \in SUBSET Final
        OBVIOUS
      <3> QED  BY <1>1, <3>1, FS_Subset, FS_CardinalityType
    <2> HIDE DEF k
    <2> QED  BY <2>1 DEF Oldest
  <1> HIDE DEF k
  <1>8. Cardinality(Final \ Oldest(k)) <= Keep
    BY <1>1, <1>2, <1>4, <1>5, <1>6
  <1> QED  BY <1>4, <1>7, <1>8 DEF k

LEMMA FinishedList ==
    ASSUME Listed, NEW i \in DOMAIN backups, FinishBackup(i)
    PROVE  /\ Listed'
           /\ \/ Ends' = Ends \cup {clock} /\ completed' = clock
              \/ Ends' = Ends /\ completed' = completed
  <1>1. backups[i] \in Backup /\ backups[i].state = "Running" /\ clock' = clock
    BY DEF FinishBackup, Listed
  <1>2. CASE /\ backups' = [backups EXCEPT ![i].state = "Complete",
                                          ![i].finished = clock]
             /\ completed' = clock
    <2> DEFINE b == [backups[i] EXCEPT !.state = "Complete", !.finished = clock]
    <2>1. b \in Backup /\ b.state = "Complete" /\ b.finished = clock
      BY <1>1 DEF Backup, Maybe, Listed
    <2>2. backups' = [backups EXCEPT ![i] = b]
      BY <1>2
    <2> HIDE DEF b
    <2>3. /\ DOMAIN backups' = DOMAIN backups /\ backups'[i] = b
          /\ \A j \in DOMAIN backups : j # i => backups'[j] = backups[j]
          /\ backups' \in [DOMAIN backups' -> Backup]
      BY <2>1, <2>2 DEF Listed
    <2>4. Listed'
      BY <1>1, <2>1, <2>3 DEF Listed
    <2>5. Ends' = Ends \cup {clock}
      BY <1>1, <2>1, <2>3 DEF Ends
    <2> QED  BY <1>2, <2>4, <2>5
  <1>3. CASE /\ backups' = [backups EXCEPT ![i].state = "Failed"]
             /\ completed' = completed
    <2> DEFINE b == [backups[i] EXCEPT !.state = "Failed"]
    <2>1. b \in Backup /\ b.state = "Failed"
      BY <1>1 DEF Backup
    <2>2. backups' = [backups EXCEPT ![i] = b]
      BY <1>3
    <2> HIDE DEF b
    <2>3. /\ DOMAIN backups' = DOMAIN backups /\ backups'[i] = b
          /\ \A j \in DOMAIN backups : j # i => backups'[j] = backups[j]
          /\ backups' \in [DOMAIN backups' -> Backup]
      BY <2>1, <2>2 DEF Listed
    <2>4. Listed'
      BY <1>1, <2>1, <2>3 DEF Listed
    <2>5. Ends' = Ends
      BY <1>1, <2>1, <2>3 DEF Ends
    <2> QED  BY <1>3, <2>4, <2>5
  <1> QED  BY <1>2, <1>3 DEF FinishBackup

LEMMA ListedInit == Init => Listed
  <1> SUFFICES ASSUME Init PROVE Listed
    OBVIOUS
  <1>1. clock \in Times
    BY LifecycleAssumption DEF Init, Times
  <1>2. PICK D \in {{1}, {}} : backups = [i \in D |-> NewBackup(FALSE)]
    BY DEF Init
  <1>3. NewBackup(FALSE) \in Backup /\ NewBackup(FALSE).state # "Complete"
    BY DEF NewBackup, Backup, Maybe
  <1>4. DOMAIN backups \subseteq 1..1
    BY <1>2
  <1> QED  BY <1>1, <1>2, <1>3, <1>4 DEF Listed

LEMMA ListedStep == Listed /\ [Next]_vars => Listed'
  <1> SUFFICES ASSUME Listed, [Next]_vars PROVE Listed'
    OBVIOUS
  <1>1. CASE /\ UNCHANGED backups
             /\ clock' = clock \/ Tick
    <2>1. clock' \in Times
      BY <1>1, LifecycleAssumption DEF Listed, Tick, Times
    <2> QED  BY <1>1, <2>1 DEF Listed
  <1>2. CASE /\ clock' = clock
             /\ \/ backups' = OneMore
                \/ \E P : backups' = Claimed(P)
                \/ \E D : backups' = Without(D)
    BY <1>2, CreatedList, ClaimedList, DeletedList
  <1>3. CASE \E i \in DOMAIN backups : FinishBackup(i)
    BY <1>3, FinishedList
  <1>4. CASE UpdateStatus
    BY Zenon, <1>1, <1>2, <1>4 DEF UpdateStatus, ReadsStatus
  <1>5. CASE StatusFails
    BY Zenon, <1>1, <1>2, <1>5 DEF StatusFails, ReadsStatus
  <1>6. CASE StagesEnd
    BY Zenon, <1>1, <1>2, <1>6 DEF StagesEnd
  <1>7. CASE BackupByHand
    BY <1>2, <1>7 DEF BackupByHand
  <1>8. CASE \/ Leave \/ AppendFinalizer \/ Annotate \/ DeleteSite \/ StagesStop
             \/ SaveStatus \/ SyncSite \/ WakeUp \/ Tick \/ EditSite
             \/ ChildrenChange \/ Crash \/ UNCHANGED vars
    BY <1>1, <1>8 DEF Leave, AppendFinalizer, Annotate, ReadsStatus, DeleteSite,
                      StagesStop, SaveStatus, SyncSite, WakeUp, Tick, EditSite,
                      ChildrenChange, Crash, vars
  <1> QED  BY <1>3, <1>4, <1>5, <1>6, <1>7, <1>8 DEF Next, Reconcile

LEMMA ListedHolds == Spec => []Listed
  BY ListedInit, ListedStep, PTL DEF Spec

-----------------------------------------------------------------------------
(* The times. *)

\* The least of two or three times is one of them.
LEMMA LeastOfThree ==
    ASSUME NEW a \in Maybe(Nat), NEW b \in Maybe(Nat), NEW c \in Maybe(Nat),
           NEW S, S = {a, b, c} \ {None}, S # {}
    PROVE  /\ Min(S) \in S /\ Min(S) \in Nat
           /\ \A t \in S : Min(S) <= t
  <1>1. S \subseteq Nat
    BY DEF Maybe
  <1>2. \E x \in S : \A y \in S : x =< y
    <2>1. \A x, y \in S : x =< y \/ y =< x
      BY <1>1
    <2>2. \A x, y, z \in S : x =< y /\ y =< z => x =< z
      BY <1>1
    <2>3. \A x \in S : x \in {a, b, c}
      OBVIOUS
    <2> QED  BY <2>1, <2>2, <2>3
  <1>3. Min(S) \in S /\ \A t \in S : Min(S) =< t
    BY <1>2 DEF Min
  <1> QED  BY <1>1, <1>3

\* Whole days end after the instants they hold.
LEMMA DaysPass ==
    ASSUME NEW t \in Nat
    PROVE  Day * (t \div Day) \in Nat /\ Day * (t \div Day) + Day > t
  BY LifecycleAssumption

LEMMA DeadlineType ==
    ASSUME NEW since \in Times, NEW after \in Nat \cup {Never}
    PROVE  Deadline(since, after) \in Maybe(Nat)
  BY DEF Deadline, Maybe, Times

\* A next backup is not before now.
LEMMA NextIsLater ==
    ASSUME NEW sp \in Spec0, NEW now \in Times
    PROVE  /\ NextBackupTime(sp, now) \in Maybe(Nat)
           /\ NextBackupTime(sp, now) # None => NextBackupTime(sp, now) >= now
           /\ sp.window = None => NextBackupTime(sp, now) = None
  <1>1. CASE sp.window = None \/ sp.window < 0
    BY <1>1 DEF NextBackupTime, Maybe
  <1>2. CASE ~(sp.window = None \/ sp.window < 0)
    <2> DEFINE day == Day * ((now + Zone) \div Day)
               today == day + sp.window
               S == {t \in {today, today + Day} : t >= now}
    <2>1. sp.window \in Nat
      BY <1>2 DEF Spec0, Maybe
    <2>2. now + Zone \in Nat /\ now \in Nat
      BY LifecycleAssumption DEF Times
    <2>3. day \in Nat /\ day + Day > now + Zone
      BY <2>2, DaysPass
    <2> HIDE DEF day
    <2>4. today \in Nat /\ today + Day \in Nat /\ today + Day >= now
      BY LifecycleAssumption, <2>1, <2>2, <2>3
    <2> HIDE DEF today
    <2>5. Min(S) \in S
      <3>1. CASE today >= now
        <4>1. \A t \in S : today =< t
          BY LifecycleAssumption, <2>4
        <4> QED  BY <3>1, <4>1 DEF Min
      <3>2. CASE ~(today >= now)
        <4>1. S = {today + Day}
          BY <2>4, <3>2
        <4> QED  BY <2>4, <4>1 DEF Min
      <3> QED  BY <3>1, <3>2
    <2>6. NextBackupTime(sp, now) = Min(S)
      BY <1>2 DEF NextBackupTime, today, day
    <2> QED  BY <1>2, <2>2, <2>4, <2>5, <2>6 DEF Maybe
  <1> QED  BY <1>1, <1>2
-----------------------------------------------------------------------------
(* The status a step writes. *)

LEMMA UnsetDiffers == Unset \notin {"Pending", "Complete", "Failed"}
  BY Zenon DEF Unset

LEMMA StatusFields ==
    ASSUME NEW st \in Status
    PROVE  /\ st.state \in States /\ st.enabled \in BOOLEAN /\ st.ready \in BOOLEAN
           /\ st.disableAt \in Maybe(Nat) /\ st.deleteAt \in Maybe(Nat)
           /\ st.nextBackup \in Maybe(Nat) /\ st.lastBackup \in Maybe(Times)
           /\ st.applied \in Maybe(Times)
  BY DEF Status, Deadlines

LEMMA SiteFields ==
    ASSUME NEW s \in Site
    PROVE  /\ s.spec \in Spec0 /\ s.changedAt \in Maybe(Times)
           /\ s.deleting \in BOOLEAN /\ s.finalizer \in BOOLEAN
           /\ s.status \in Status
  BY DEF Site

LEMMA SetState ==
    ASSUME NEW st \in Status, NEW v \in States,
           NEW t, t = [st EXCEPT !.state = v]
    PROVE  /\ t \in Status /\ t.state = v /\ Agrees(t, st)
           /\ t.lastBackup = st.lastBackup
  BY DEF Status, Agrees

LEMMA SetReady ==
    ASSUME NEW st \in Status, NEW v \in BOOLEAN,
           NEW t, t = [st EXCEPT !.ready = v]
    PROVE  /\ t \in Status /\ t.ready = v /\ t.state = st.state
           /\ t.disableAt = st.disableAt /\ t.deleteAt = st.deleteAt
           /\ t.nextBackup = st.nextBackup /\ t.enabled = st.enabled
           /\ t.lastBackup = st.lastBackup
  BY DEF Status

LEMMA SetNextBackup ==
    ASSUME NEW st \in Status, NEW v \in Maybe(Nat),
           NEW t, t = [st EXCEPT !.nextBackup = v]
    PROVE  /\ t \in Status /\ t.nextBackup = v /\ t.state = st.state
           /\ t.disableAt = st.disableAt /\ t.deleteAt = st.deleteAt
           /\ t.ready = st.ready /\ t.enabled = st.enabled
           /\ t.lastBackup = st.lastBackup
  BY DEF Status, Deadlines

LEMMA SetLastBackup ==
    ASSUME NEW st \in Status, NEW v \in Maybe(Times),
           NEW t, t = [st EXCEPT !.lastBackup = v]
    PROVE  /\ t \in Status /\ t.lastBackup = v
           /\ t.state = st.state /\ Agrees(t, st)
  BY DEF Status, Agrees

LEMMA SetStatus ==
    ASSUME NEW s \in Site, NEW st \in Status,
           NEW t, t = [s EXCEPT !.status = st]
    PROVE  /\ t \in Site /\ t.status = st /\ t.spec = s.spec
           /\ t.changedAt = s.changedAt /\ t.deleting = s.deleting
  BY DEF Site

\* The three Updates of a site.
LEMMA Updates ==
    ASSUME NEW s \in Site, clock \in Times, NEW sp \in Spec0
    PROVE  /\ LET t == Default(s) IN
              /\ t \in Site /\ t.status = s.status /\ t.deleting = s.deleting
              /\ t.spec = s.spec /\ t.changedAt = clock
           /\ LET t == [Default(s) EXCEPT !.finalizer = TRUE] IN
              /\ t \in Site /\ t.status = s.status /\ t.deleting = s.deleting
           /\ LET t == [Default(s) EXCEPT !.spec = sp] IN
              /\ t \in Site /\ t.status = s.status /\ t.deleting = s.deleting
           /\ LET t == [s EXCEPT !.deleting = TRUE] IN
              /\ t \in Site /\ t.status = s.status /\ t.deleting
  BY DEF Site, Default, Maybe

\* ensureStatusIsUpToDate computes times of the spec, disables only in time,
\* and says so when it changes one.
LEMMA TimesStatus ==
    ASSUME clock \in Times, NEW s \in Site, s.changedAt # None,
           NEW t, t = WithTimes(s)
    PROVE  /\ t \in Status
           /\ t.nextBackup = s.status.nextBackup /\ t.ready = s.status.ready
           /\ t.lastBackup = s.status.lastBackup
           /\ t.deleteAt = Deadline(s.changedAt, s.spec.deleteAfter)
           /\ ~t.enabled /\ s.spec.enabled =>
                 /\ s.spec.disableAfter # Never
                 /\ clock >= s.changedAt + s.spec.disableAfter
           /\ ~TimesDiffer(t, s.status) => Agrees(t, s.status)
  <1> DEFINE d == Deadline(s.changedAt, s.spec.disableAfter)
             l == Deadline(s.changedAt, s.spec.deleteAfter)
             e == s.spec.enabled /\ (d = None \/ d > clock)
             v == IF s.status.enabled # e \/ s.status.state = Unset THEN "Pending"
                  ELSE s.status.state
             a == IF s.status.applied = None \/ s.status.applied < s.changedAt
                  THEN s.changedAt ELSE s.status.applied
  <1>1. /\ s.changedAt \in Times /\ s.status \in Status
        /\ s.spec.disableAfter \in Nat \cup {Never}
        /\ s.spec.deleteAfter \in Nat \cup {Never} /\ s.spec.enabled \in BOOLEAN
    BY SiteFields DEF Maybe, Spec0
  <1>2. d \in Maybe(Nat) /\ l \in Maybe(Nat)
    BY <1>1, DeadlineType
  <1>3. e \in BOOLEAN
    OBVIOUS
  <1>4. v \in States
    BY <1>1, StatusFields DEF States
  <1>5. t = [s.status EXCEPT !.disableAt = d, !.deleteAt = l, !.enabled = e,
                             !.state = v, !.applied = a]
    BY DEF WithTimes
  <1>6. ~e /\ s.spec.enabled =>
           /\ s.spec.disableAfter # Never
           /\ clock >= s.changedAt + s.spec.disableAfter
    BY <1>1, LifecycleAssumption DEF Deadline, Times
  <1>a. a \in Maybe(Times)
    BY <1>1, StatusFields DEF Maybe
  <1> HIDE DEF d, l, e, v, a
  <1>7. /\ t \in Status /\ t.disableAt = d /\ t.deleteAt = l /\ t.enabled = e
        /\ t.nextBackup = s.status.nextBackup /\ t.ready = s.status.ready
        /\ t.lastBackup = s.status.lastBackup
    BY <1>1, <1>2, <1>3, <1>4, <1>5, <1>a DEF Status, Deadlines
  <1>8. ~TimesDiffer(t, s.status) => Agrees(t, s.status)
    <2>1. ~TimesDiffer(t, s.status) =>
             /\ t["disableAt"] = s.status["disableAt"]
             /\ t["deleteAt"] = s.status["deleteAt"]
             /\ t["enabled"] = s.status["enabled"]
      BY DEF TimesDiffer
    <2> QED  BY <1>7, <2>1 DEF Agrees
  <1> QED  BY <1>6, <1>7, <1>8 DEF l
\* A next time that it replaces has left the window, and the new one is ahead.
LEMMA NextBackupStatus ==
    ASSUME clock \in Times, NEW s \in Site, NEW st \in Status,
           NEW t, t = WithNextBackup(s, st)
    PROVE  /\ t \in Status /\ t.state = st.state /\ t.ready = st.ready
           /\ t.disableAt = st.disableAt /\ t.deleteAt = st.deleteAt
           /\ t.enabled = st.enabled /\ t.lastBackup = st.lastBackup
           /\ \/ t.nextBackup = st.nextBackup
              \/ /\ OutsideWindow(s.spec, st.nextBackup) \/ t.nextBackup = None
                 /\ t.nextBackup # None => t.nextBackup >= clock
  <1>1. s.spec \in Spec0 /\ None \in Maybe(Nat)
    BY SiteFields DEF Maybe
  <1>2. CASE BadWindow(s.spec)
    BY <1>1, <1>2, SetNextBackup DEF WithNextBackup
  <1>3. CASE /\ ~BadWindow(s.spec)
             /\ OutsideWindow(s.spec, st.nextBackup) \/ s.spec.window = None
    <2> DEFINE v == NextBackupTime(s.spec, clock)
    <2>1. /\ v \in Maybe(Nat) /\ (v # None => v >= clock)
          /\ s.spec.window = None => v = None
      BY <1>1, NextIsLater
    <2>2. t = [st EXCEPT !.nextBackup = v]
      BY <1>3 DEF WithNextBackup
    <2> HIDE DEF v
    <2> QED  BY <1>3, <2>1, <2>2, SetNextBackup
  <1>4. CASE /\ ~BadWindow(s.spec)
             /\ ~(OutsideWindow(s.spec, st.nextBackup) \/ s.spec.window = None)
    BY <1>4 DEF WithNextBackup
  <1> QED  BY <1>2, <1>3, <1>4

\* LastBackupTime is not before any end, nor set back.
LEMMA LastBackupStatus ==
    ASSUME Listed, NEW st \in Status, NEW t, t = WithLastBackup(st)
    PROVE  /\ t \in Status /\ t.state = st.state /\ Agrees(t, st)
           /\ \A e \in Ends : NotAfter(e, t.lastBackup)
           /\ NotAfter(st.lastBackup, t.lastBackup)
           /\ t.lastBackup \in Ends \cup {st.lastBackup}
  <1> DEFINE S == Ends \cup ({st.lastBackup} \ {None})
             v == IF Ends = {} THEN st.lastBackup ELSE Max(S)
  <1>1. /\ Ends \in SUBSET Times /\ st.lastBackup \in Maybe(Times)
        /\ Horizon \in Nat /\ None \notin Times
    BY ListFacts, StatusFields, LifecycleAssumption DEF Times
  <1>2. S \in SUBSET Nat /\ \A x \in S : x <= Horizon
    <2>1. S \subseteq Times
      BY <1>1 DEF Maybe
    <2> HIDE DEF S
    <2> QED  BY <1>1, <2>1 DEF Times
  <1>3. t = [st EXCEPT !.lastBackup = v]
    BY DEF WithLastBackup
  <1>4. v \in Ends \cup {st.lastBackup}
    <2>1. CASE Ends = {}
      BY <2>1
    <2>2. CASE Ends # {}
      <3>1. S # {} /\ S \subseteq Ends \cup {st.lastBackup}
        BY <2>2
      <3>2. v = Max(S)
        BY <2>2
      <3> HIDE DEF S, v
      <3> QED  BY <1>1, <1>2, <3>1, <3>2, GreatestNatural
    <2> QED  BY <2>1, <2>2
  <1>5. /\ \A e \in Ends : NotAfter(e, v)
        /\ NotAfter(st.lastBackup, v)
    <2>1. CASE Ends = {}
      BY <1>1, <2>1 DEF NotAfter, Maybe, Times
    <2>2. CASE Ends # {}
      <3>1. /\ S # {} /\ Ends \subseteq S
            /\ st.lastBackup # None => st.lastBackup \in S
        BY <2>2
      <3>2. v = Max(S)
        BY <2>2
      <3> HIDE DEF S, v
      <3>3. v \in S /\ \A x \in S : x <= v
        BY <1>1, <1>2, <3>1, <3>2, GreatestNatural
      <3>4. v # None
        BY <1>2, <3>3, LifecycleAssumption
      <3> QED  BY <3>1, <3>3, <3>4 DEF NotAfter
    <2> QED  BY <2>1, <2>2
  <1>6. v \in Maybe(Times)
    BY <1>1, <1>4 DEF Maybe
  <1> HIDE DEF S, v
  <1> QED  BY <1>3, <1>4, <1>5, <1>6, SetLastBackup

\* BackupTimeChanges tells of every change that WithNextBackup makes.
LEMMA NextBackupNoted ==
    ASSUME NEW s \in Site, NEW st \in Status, ~BadWindow(s.spec),
           st.nextBackup = s.status.nextBackup, ~BackupTimeChanges(s),
           clock \in Times
    PROVE  WithNextBackup(s, st).nextBackup = st.nextBackup
  <1>1. s.spec \in Spec0 /\ None \in Maybe(Nat)
    BY SiteFields DEF Maybe
  <1>2. CASE s.spec.window = None
    <2>1. NextBackupTime(s.spec, clock) = None
      BY <1>1, <1>2, NextIsLater
    <2>2. WithNextBackup(s, st) = [st EXCEPT !.nextBackup = None]
      BY <1>2, <2>1 DEF WithNextBackup
    <2>3. st.nextBackup = None
      BY <1>2 DEF BackupTimeChanges
    <2> QED  BY <1>1, <2>2, <2>3, SetNextBackup
  <1>3. CASE s.spec.window # None
    BY <1>3 DEF WithNextBackup, BackupTimeChanges
  <1> QED  BY <1>2, <1>3

LEMMA ResetStatus ==
    ASSUME NEW st \in Status, NEW t, t = ResetErrors(st)
    PROVE  /\ t \in Status /\ t.state # "Failed" /\ Agrees(t, st)
           /\ t.lastBackup = st.lastBackup
  <1> DEFINE v == IF st.state = "Failed" THEN "Pending" ELSE st.state
  <1>1. v \in States /\ v # "Failed"
    BY StatusFields DEF States
  <1>2. t = [st EXCEPT !.state = v]
    BY DEF ResetErrors
  <1> HIDE DEF v
  <1> QED  BY <1>1, <1>2, SetState

\* A site is Complete when its stages are through.
LEMMA SavedStatus ==
    ASSUME NEW st \in Status, NEW t, t = SetSiteState(st)
    PROVE  /\ t \in Status /\ Agrees(t, st) /\ t.lastBackup = st.lastBackup
           /\ t.state = "Complete" <=> st.state # "Failed" /\ st.ready
  <1> DEFINE v == IF st.state = "Failed" THEN "Failed"
                  ELSE IF st.ready THEN "Complete" ELSE "Pending"
  <1>1. /\ v \in States
        /\ v = "Complete" <=> st.state # "Failed" /\ st.ready
    BY DEF States
  <1>2. t = [st EXCEPT !.state = v]
    BY DEF SetSiteState
  <1> HIDE DEF v
  <1> QED  BY <1>1, <1>2, SetState

-----------------------------------------------------------------------------
(* The work queue, and what a reconcile asks of it. *)

LEMMA PlainResults ==
    /\ Nothing \in Results /\ ~Nothing.again /\ Nothing.at = None
    /\ Again \in Results /\ Again.again
  BY DEF Nothing, Again, Results, Maybe, Deadlines

LEMMA AheadMin ==
    ASSUME NEW st \in Status
    PROVE  /\ Ahead(st) \subseteq Nat
           /\ Ahead(st) # {} => Min(Ahead(st)) \in Ahead(st) /\ Min(Ahead(st)) \in Nat
  <1> DEFINE a == IF st.enabled THEN st.disableAt ELSE None
  <1>1. /\ st.deleteAt \in Maybe(Nat) /\ st.nextBackup \in Maybe(Nat)
        /\ a \in Maybe(Nat)
    BY StatusFields DEF Maybe
  <1>2. Ahead(st) = {st.deleteAt, st.nextBackup, a} \ {None}
    BY DEF Ahead
  <1> HIDE DEF a
  <1>3. Ahead(st) \subseteq Nat
    BY <1>1, <1>2 DEF Maybe
  <1> QED  BY <1>1, <1>2, <1>3, LeastOfThree

LEMMA AgreeAhead ==
    ASSUME NEW st, NEW old, Agrees(st, old)
    PROVE  Ahead(st) = Ahead(old)
  BY DEF Agrees, Ahead

\* The wake-up is for the first time, unless that is now or past.
LEMMA Recheck ==
    ASSUME NEW st \in Status, clock \in Times, NEW r, r = RecheckResult(st)
    PROVE  /\ r \in Results
           /\ ~r.again /\ clock \notin Ahead(st) =>
                IF Ahead(st) = {} THEN r.at = None ELSE r.at = Min(Ahead(st))
  <1> DEFINE m == Min(Ahead(st))
  <1>1. CASE Ahead(st) = {}
    BY <1>1, PlainResults DEF RecheckResult
  <1>2. CASE Ahead(st) # {}
    <2>1. m \in Ahead(st) /\ m \in Nat
      BY <1>2, AheadMin
    <2> HIDE DEF m
    <2>2. r = IF m = clock THEN Nothing ELSE IF m < clock THEN Again
              ELSE [again |-> FALSE, at |-> m]
      BY <1>2 DEF RecheckResult, m
    <2>3. [again |-> FALSE, at |-> m] \in Results
      BY <2>1 DEF Results, Maybe, Deadlines
    <2>4. CASE m = clock
      BY <2>1, <2>2, <2>4, PlainResults
    <2>5. CASE m # clock /\ m < clock
      BY <2>2, <2>5, PlainResults
    <2>6. CASE m # clock /\ ~(m < clock)
      BY <1>2, <2>2, <2>3, <2>6 DEF m
    <2> QED  BY <2>4, <2>5, <2>6
  <1> QED  BY <1>1, <1>2

LEMMA RequeueSets ==
    ASSUME NEW r \in Results, timer = None, queued \in BOOLEAN, Requeue(r)
    PROVE  /\ queued' = (queued \/ r.again) /\ queued' \in BOOLEAN
           /\ queued' => timer' = None
           /\ ~queued' => timer' = r.at
  <1>1. r.at \in Maybe(Nat) /\ r.again \in BOOLEAN
    BY DEF Results, Deadlines
  <1>2. queued' = (queued \/ r.again) /\ queued' \in BOOLEAN
    BY <1>1 DEF Requeue
  <1>3. CASE queued' \/ r.at = None
    BY <1>3 DEF Requeue
  <1>4. CASE ~queued' /\ r.at # None
    <2>1. r.at \in Nat
      BY <1>1, <1>4 DEF Maybe
    <2>2. {r.at, timer} \ {None} = {r.at}
      BY <1>4
    <2>3. Min({r.at}) = r.at
      BY <2>1 DEF Min
    <2>4. timer' = Min({r.at, timer} \ {None})
      BY <1>4 DEF Requeue
    <2> QED  BY <1>2, <1>4, <2>2, <2>3, <2>4
  <1> QED  BY <1>2, <1>3, <1>4
-----------------------------------------------------------------------------
(* The steps. *)

LEMMA InvInit == Init => IInv
  <1> SUFFICES ASSUME Init PROVE IInv
    OBVIOUS
  <1>1. PICK s \in Sites :
            site = [spec |-> s.spec, changedAt |-> IF s.old THEN None ELSE 0,
                    finalizer |-> s.old, deleting |-> FALSE, status |-> NewStatus]
    BY DEF Init
  <1>2. s.spec \in Spec0 /\ s.old \in BOOLEAN /\ 0 \in Times /\ None \in Maybe(Times)
    BY LifecycleAssumption DEF Site0, Times, Maybe
  <1>3. NewStatus \in Status /\ NewStatus.state = Unset
    BY DEF Status, NewStatus, States, Maybe
  <1>4. site \in Site /\ site.status = NewStatus
    BY <1>1, <1>2, <1>3 DEF Site, Maybe
  <1>5. /\ clock = 0 /\ cache = site /\ fresh = TRUE /\ queued = TRUE /\ timer = None
        /\ pc = "idle" /\ current = FALSE /\ result = Nothing /\ made = None
    BY DEF Init
  <1>6. Shape
    BY <1>2, <1>4, <1>5, PlainResults DEF Shape
  <1>7. Queueing /\ Copying /\ Answering /\ Replacing /\ WakeupSet
    BY <1>5 DEF Queueing, Copying, Answering, Replacing, WakeupSet, AtRest
  <1>8. Waking
    BY <1>3, <1>4, <1>5, UnsetDiffers DEF Waking
  <1> QED  BY <1>6, <1>7, <1>8 DEF IInv

\* Neither the site nor the reconcile is touched.  The key may be put in the
\* queue; if not, what the reconciler would read is the same.
LEMMA Elsewhere ==
    ASSUME IInv, UNCHANGED <<site, work, exact, made, lost>>,
           \/ clock' = clock
           \/ clock' = clock + 1 /\ clock' \in Times /\ pc # "save",
           Enqueue \/ UNCHANGED queue,
           \/ UNCHANGED <<cache, fresh>>
           \/ cache' = site /\ fresh' = TRUE /\ Enqueue
    PROVE  IInv'
  <1>1. /\ UNCHANGED <<site, pc, copy, changed, current, result, touched, exact,
                       made, lost>>
        /\ clock \in Times /\ clock' \in Times /\ clock \in Nat
        /\ (pc = "save" => clock' = clock) /\ clock' >= clock
    BY LifecycleAssumption DEF work, IInv, Shape, Times
  <1>2. /\ \/ queued' = TRUE /\ timer' = None
           \/ UNCHANGED <<queued, timer>>
        /\ \/ UNCHANGED <<cache, fresh>>
           \/ cache' = site /\ fresh' = TRUE /\ queued'
    BY DEF Enqueue, queue
  <1>3. Shape'
    BY <1>1, <1>2 DEF IInv, Shape
  <1>4. Queueing'
    BY <1>1, <1>2 DEF IInv, Queueing
  <1>5. Copying'
    <2>1. Justified(copy) /\ pc = "stages" => Justified(copy)'
      <3>1. ASSUME pc = "stages"
            PROVE  /\ copy.changedAt # None => copy.changedAt \in Nat
                   /\ copy.spec.disableAfter # Never => copy.spec.disableAfter \in Nat
        <4>1. copy.spec \in Spec0 /\ copy.changedAt \in Maybe(Times)
          BY <3>1, SiteFields DEF IInv, Shape
        <4> QED  BY <4>1 DEF Maybe, Times, Spec0
      <3> QED  BY <1>1, <3>1 DEF Justified
    <2>2. pc = "save" => (Justified(copy)' <=> Justified(copy))
      BY <1>1 DEF Justified
    <2> QED  BY <1>1, <2>1, <2>2 DEF IInv, Copying, Agrees
  <1>6. Waking' /\ WakeupSet'
    BY <1>1, <1>2 DEF IInv, Waking, Unfinished, Scheduled, RecheckResult, WakeupSet, AtRest
  <1>7. Answering'
    <2>1. made # None => made <= clock'
      BY <1>1 DEF IInv, Shape, Answering, Maybe, Times
    <2> QED  BY <1>1, <2>1 DEF IInv, Answering, Later
  <1>8. Replacing'
    BY <1>1 DEF IInv, Replacing
  <1> QED  BY <1>3, <1>4, <1>5, <1>6, <1>7, <1>8 DEF IInv

LEMMA OutsideSteps ==
    ASSUME IInv, SyncSite \/ WakeUp \/ Tick \/ BackupByHand \/ ChildrenChange
                 \/ \E i \in DOMAIN backups : FinishBackup(i)
    PROVE  IInv'
  <1>1. CASE SyncSite
    BY <1>1, Elsewhere DEF SyncSite, history
  <1>2. CASE WakeUp
    BY <1>2, Elsewhere DEF WakeUp, history
  <1>3. CASE Tick
    <2>1. clock' = clock + 1 /\ clock' \in Times /\ pc # "save"
      BY <1>3, LifecycleAssumption DEF Tick, IInv, Shape, Times
    <2> QED  BY <1>3, <2>1, Elsewhere DEF Tick, history
  <1>4. CASE BackupByHand
    BY <1>4, Elsewhere DEF BackupByHand, history
  <1>5. CASE ChildrenChange
    BY <1>5, Elsewhere DEF ChildrenChange, history
  <1>6. CASE \E i \in DOMAIN backups : FinishBackup(i)
    BY <1>6, Elsewhere DEF FinishBackup
  <1> QED  BY <1>1, <1>2, <1>3, <1>4, <1>5, <1>6
LEMMA LeaveStep == ASSUME IInv, Leave PROVE IInv'
  <1>1. /\ UNCHANGED <<clock, site, cache, fresh, timer, pc, copy, changed, current,
                       result, touched, exact, made, lost>>
        /\ queued' = FALSE /\ pc = "idle" /\ cache.deleting
    BY DEF Leave, Begins, work, history
  <1>2. Shape' /\ Queueing'
    BY <1>1 DEF IInv, Shape, Queueing
  <1>3. Copying' /\ Waking' /\ Answering' /\ Replacing'
    BY <1>1 DEF IInv, Copying, Waking, Answering, Later, Replacing
  <1>4. WakeupSet'
    BY <1>1 DEF IInv, Queueing, WakeupSet, AtRest
  <1> QED  BY <1>2, <1>3, <1>4 DEF IInv

\* The site is written, other than by SaveStatus: a cache or copy of it is
\* outdated from here on.
LEMMA SiteWritten ==
    ASSUME IInv, site' \in Site, site'.status = site.status, fresh' = FALSE,
           UNCHANGED <<clock, cache, queue, exact, made, lost>>,
           \/ /\ UNCHANGED <<pc, copy, changed, result, touched>>
              /\ IF pc = "idle" THEN current' \in BOOLEAN ELSE current' = FALSE
           \/ /\ pc # "save"
              /\ pc' = "idle" /\ current' = FALSE /\ result' = Nothing
    PROVE  IInv'
  <1>1. UNCHANGED <<clock, cache, queued, timer, exact, made, lost>>
    BY DEF queue
  <1>2. Shape'
    BY <1>1, PlainResults DEF IInv, Shape
  <1>3. Queueing'
    BY <1>1 DEF IInv, Queueing
  <1>4. Copying'
    BY <1>1 DEF IInv, Copying, Justified
  <1>5. Waking' /\ WakeupSet'
    BY <1>1 DEF IInv, Waking, WakeupSet, AtRest
  <1>6. Answering' /\ Replacing'
    BY <1>1 DEF IInv, Answering, Later, Replacing
  <1> QED  BY <1>2, <1>3, <1>4, <1>5, <1>6 DEF IInv

LEMMA DeleteSiteStep == ASSUME IInv, DeleteSite PROVE IInv'
  <1>1. site' \in Site /\ site'.status = site.status
    <2>1. site \in Site /\ clock \in Times /\ site.spec \in Spec0
      BY SiteFields DEF IInv, Shape
    <2> QED  BY <2>1, Updates DEF DeleteSite
  <1> QED  BY <1>1, SiteWritten DEF DeleteSite, Done, history

LEMMA EditSiteStep == ASSUME IInv, EditSite PROVE IInv'
  <1>1. site' \in Site /\ site'.status = site.status
    <2>1. site \in Site /\ clock \in Times
      BY DEF IInv, Shape
    <2>2. PICK sp \in Edits : site' = [Default(site) EXCEPT !.spec = sp]
      BY DEF EditSite
    <2>3. sp \in Spec0
      BY LifecycleAssumption
    <2> QED  BY <2>1, <2>2, <2>3, Updates
  <1> QED  BY <1>1, SiteWritten DEF EditSite, history

LEMMA AppendFinalizerStep == ASSUME IInv, AppendFinalizer PROVE IInv'
  <1>1. site' \in Site /\ site'.status = site.status
    <2>1. site \in Site /\ clock \in Times /\ site.spec \in Spec0
      BY SiteFields DEF IInv, Shape
    <2> QED  BY <2>1, Updates DEF AppendFinalizer
  <1>2. current \in BOOLEAN /\ pc = "idle"
    BY DEF IInv, Shape, AppendFinalizer, Begins
  <1> QED  BY <1>1, <1>2, SiteWritten DEF AppendFinalizer, work, history

\* The operator forgets what it was doing, and looks again.
LEMMA CrashStep == ASSUME IInv, Crash PROVE IInv'
  <1>1. /\ UNCHANGED <<clock, site, exact, made>>
        /\ cache' = site /\ fresh' = TRUE /\ queued' = TRUE /\ timer' = None
        /\ pc' = "idle" /\ current' = FALSE /\ result' = Nothing
        /\ lost' = (lost \/ (pc # "idle" /\ touched))
    BY DEF Crash, Done, Enqueue
  <1>2. Shape'
    BY <1>1, PlainResults DEF IInv, Shape
  <1>3. Queueing' /\ Copying' /\ Replacing' /\ WakeupSet'
    BY <1>1 DEF Queueing, Copying, Replacing, WakeupSet, AtRest
  <1>4. Waking' /\ Answering'
    BY <1>1 DEF IInv, Waking, Answering, Later
  <1> QED  BY <1>2, <1>3, <1>4 DEF IInv

-----------------------------------------------------------------------------
(* The reconcile up to the stages. *)

LEMMA StatusIsRead ==
    ASSUME IInv, ReadsStatus
    PROVE  /\ UNCHANGED <<clock, cache, timer, exact, made, lost>>
           /\ pc = "idle" /\ queued /\ queued' = FALSE /\ current' = fresh
           /\ timer = None /\ fresh \in BOOLEAN /\ clock \in Times
           /\ cache \in Site /\ site \in Site
           /\ current' => cache = site
  BY DEF IInv, Shape, Queueing, ReadsStatus, Begins, history

\* A reconcile that ends early and is repeated.
LEMMA Repeats ==
    ASSUME IInv, ReadsStatus, UNCHANGED <<site, fresh>>,
           pc' = "save", result' = Again, copy' \in Site,
           copy'.spec = cache.spec, copy'.changedAt = cache.changedAt,
           \/ copy'.status.enabled = cache.status.enabled
           \/ Justified(copy)',
           LET t == cache.status.nextBackup
               u == copy'.status.nextBackup
           IN  \/ u = t
               \/ /\ OutsideWindow(cache.spec, t) \/ u = None
                  /\ u # None => u >= clock
    PROVE  IInv'
  <1>1. /\ UNCHANGED <<clock, cache, timer, exact, made, lost>>
        /\ pc = "idle" /\ queued /\ queued' = FALSE /\ current' = fresh
        /\ timer = None /\ fresh \in BOOLEAN /\ clock \in Times
        /\ cache \in Site /\ site \in Site
        /\ current' => cache = site
    BY StatusIsRead
  <1>2. Shape'
    BY <1>1, PlainResults DEF IInv, Shape
  <1>3. Queueing' /\ Copying'
    BY <1>1 DEF IInv, Queueing, Copying
  <1>4. Waking' /\ WakeupSet'
    BY <1>1, PlainResults DEF IInv, Waking, WakeupSet, AtRest
  <1>5. Answering'
    <2>1. made # None => made \in Nat /\ made <= clock
      BY DEF IInv, Shape, Answering, Maybe, Times
    <2>2. clock \in Nat /\ copy'.status.nextBackup \in Maybe(Nat)
      BY <1>1, SiteFields, StatusFields DEF Times
    <2>3. made # None /\ ~lost => Later(site.status.nextBackup)
      BY <1>1 DEF IInv, Answering
    <2>4. made # None /\ ~lost /\ current' => Later(copy'.status.nextBackup)
      BY <1>1, <2>1, <2>2, <2>3 DEF Later, Maybe
    <2> QED  BY <1>1, <2>1, <2>3, <2>4 DEF Answering, Later
  <1>6. Replacing'
    BY <1>1 DEF Replacing
  <1> QED  BY <1>2, <1>3, <1>4, <1>5, <1>6 DEF IInv
LEMMA AnnotateStep == ASSUME IInv, Annotate PROVE IInv'
  <1>1. ReadsStatus
    BY DEF Annotate
  <1>2. CASE fresh
    <2>1. /\ UNCHANGED <<clock, cache, timer, exact, made, lost, touched>>
          /\ pc = "idle" /\ queued /\ queued' = FALSE /\ current' = TRUE
          /\ timer = None /\ clock \in Times /\ cache \in Site /\ site \in Site
      BY <1>1, <1>2, StatusIsRead DEF Annotate
    <2>2. /\ site' = Default(site) /\ fresh' = FALSE /\ pc' = "save"
          /\ copy' = [site' EXCEPT !.status = site.status]
          /\ changed' = TRUE /\ result' = Again
      BY <1>2 DEF Annotate, Save
    <2>3. site' \in Site /\ site'.status = site.status
      BY <2>1, <2>2, Updates, SiteFields
    <2>4. /\ copy' \in Site /\ copy'.status = site'.status
          /\ copy'.spec = site'.spec /\ copy'.changedAt = site'.changedAt
      BY <2>2, <2>3, SetStatus, SiteFields
    <2>5. Shape'
      BY <2>1, <2>2, <2>3, <2>4, PlainResults DEF IInv, Shape
    <2>6. Queueing' /\ Copying'
      BY <2>1, <2>2, <2>4 DEF IInv, Queueing, Copying
    <2>7. Waking' /\ WakeupSet'
      BY <2>1, <2>2, <2>3, PlainResults DEF IInv, Waking, WakeupSet, AtRest
    <2>8. Answering' /\ Replacing'
      BY <2>1, <2>2, <2>3, <2>4 DEF IInv, Answering, Later, Replacing
    <2> QED  BY <2>5, <2>6, <2>7, <2>8 DEF IInv
  <1>3. CASE ~fresh
    <2>1. /\ UNCHANGED site /\ fresh' = fresh /\ pc' = "save" /\ result' = Again
          /\ copy' = [cache EXCEPT !.status = cache.status]
      BY <1>3 DEF Annotate, SaveError, Save, IInv, Shape
    <2>2. /\ copy' \in Site /\ copy'.status = cache.status
          /\ copy'.spec = cache.spec /\ copy'.changedAt = cache.changedAt
      BY <1>1, <2>1, StatusIsRead, SetStatus, SiteFields
    <2> QED  BY <1>1, <2>1, <2>2, Repeats
  <1> QED  BY <1>2, <1>3

\* What UpdateStatus and StatusFails compute.
LEMMA Refreshed ==
    ASSUME IInv, Listed, ReadsStatus, cache.changedAt # None,
           NEW t, t = WithTimes(cache),
           NEW u, u = WithNextBackup(cache, t), NEW v, v = WithLastBackup(u)
    PROVE  /\ t \in Status /\ u \in Status /\ v \in Status
           /\ t.nextBackup = cache.status.nextBackup
           /\ u.enabled = t.enabled /\ v.enabled = t.enabled
           /\ v.nextBackup = u.nextBackup
           /\ v.deleteAt = Deadline(cache.changedAt, cache.spec.deleteAfter)
           /\ \/ u.nextBackup = t.nextBackup
              \/ /\ OutsideWindow(cache.spec, t.nextBackup) \/ u.nextBackup = None
                 /\ u.nextBackup # None => u.nextBackup >= clock
           /\ ~t.enabled /\ cache.spec.enabled =>
                 /\ cache.spec.disableAfter # Never
                 /\ clock >= cache.changedAt + cache.spec.disableAfter
           /\ ~BadWindow(cache.spec) /\ ~TimesDiffer(t, cache.status)
                /\ ~BackupTimeChanges(cache) => Agrees(v, cache.status)
           /\ t.lastBackup = cache.status.lastBackup
           /\ u.lastBackup = cache.status.lastBackup
           /\ \A e \in Ends : NotAfter(e, v.lastBackup)
           /\ NotAfter(cache.status.lastBackup, v.lastBackup)
           /\ v.lastBackup \in Ends \cup {cache.status.lastBackup}
  <1>1. clock \in Times /\ cache \in Site
    BY StatusIsRead
  <1>2. /\ t \in Status /\ t.lastBackup = cache.status.lastBackup
        /\ t.nextBackup = cache.status.nextBackup /\ t.ready = cache.status.ready
        /\ t.deleteAt = Deadline(cache.changedAt, cache.spec.deleteAfter)
        /\ ~t.enabled /\ cache.spec.enabled =>
              /\ cache.spec.disableAfter # Never
              /\ clock >= cache.changedAt + cache.spec.disableAfter
        /\ ~TimesDiffer(t, cache.status) => Agrees(t, cache.status)
    BY <1>1, TimesStatus
  <1>3. /\ u \in Status /\ u.ready = t.ready /\ u.lastBackup = t.lastBackup
        /\ u.disableAt = t.disableAt /\ u.deleteAt = t.deleteAt
        /\ u.enabled = t.enabled
        /\ \/ u.nextBackup = t.nextBackup
           \/ /\ OutsideWindow(cache.spec, t.nextBackup) \/ u.nextBackup = None
              /\ u.nextBackup # None => u.nextBackup >= clock
    BY <1>1, <1>2, NextBackupStatus
  <1>4. /\ v \in Status /\ Agrees(v, u)
        /\ \A e \in Ends : NotAfter(e, v.lastBackup)
        /\ NotAfter(u.lastBackup, v.lastBackup)
        /\ v.lastBackup \in Ends \cup {u.lastBackup}
    BY <1>3, LastBackupStatus
  <1>5. ASSUME ~BadWindow(cache.spec), ~TimesDiffer(t, cache.status),
               ~BackupTimeChanges(cache)
        PROVE  Agrees(v, cache.status)
    <2>1. u.nextBackup = t.nextBackup
      BY <1>1, <1>2, <1>5, NextBackupNoted
    <2> QED  BY <1>2, <1>3, <1>4, <1>5, <2>1 DEF Agrees
  <1> QED  BY <1>2, <1>3, <1>4, <1>5 DEF Agrees

LEMMA UpdateStatusStep == ASSUME IInv, Listed, UpdateStatus PROVE IInv'
  <1> DEFINE t == WithTimes(cache)
             u == WithNextBackup(cache, t)
             v == WithLastBackup(u)
  <1>1. ReadsStatus /\ cache.changedAt # None /\ ~BadWindow(cache.spec)
    BY DEF UpdateStatus
  <1>2. /\ v \in Status
        /\ t.nextBackup = cache.status.nextBackup
        /\ v.enabled = t.enabled /\ v.nextBackup = u.nextBackup
        /\ v.deleteAt = Deadline(cache.changedAt, cache.spec.deleteAfter)
        /\ \/ u.nextBackup = t.nextBackup
           \/ /\ OutsideWindow(cache.spec, t.nextBackup) \/ u.nextBackup = None
              /\ u.nextBackup # None => u.nextBackup >= clock
        /\ ~t.enabled /\ cache.spec.enabled =>
              /\ cache.spec.disableAfter # Never
              /\ clock >= cache.changedAt + cache.spec.disableAfter
        /\ ~TimesDiffer(t, cache.status) /\ ~BackupTimeChanges(cache)
              => Agrees(v, cache.status)
    BY <1>1, Refreshed
  <1>3. /\ UNCHANGED <<site, fresh>>
        /\ \/ pc' = "save" /\ result' = Again
           \/ /\ pc' = "stages" /\ UNCHANGED <<changed, result>>
              /\ ~TimesDiffer(t, cache.status) /\ ~BackupTimeChanges(cache)
        /\ copy' = [cache EXCEPT !.status = v]
    BY DEF UpdateStatus, Save, Continue
  <1> HIDE DEF t, u, v
  <1>4. /\ UNCHANGED <<clock, cache, timer, exact, made, lost>>
        /\ pc = "idle" /\ queued /\ queued' = FALSE /\ current' = fresh
        /\ timer = None /\ fresh \in BOOLEAN /\ clock \in Times
        /\ cache \in Site /\ site \in Site
        /\ current' => cache = site
    BY <1>1, StatusIsRead
  <1>5. /\ copy' \in Site /\ copy'.status = v
        /\ copy'.spec = cache.spec /\ copy'.changedAt = cache.changedAt
    BY <1>2, <1>3, <1>4, SetStatus
  <1>6. Justified(copy)'
    BY <1>1, <1>2, <1>4, <1>5 DEF Justified
  <1>7. CASE pc' = "save" /\ result' = Again
    BY <1>1, <1>2, <1>3, <1>5, <1>6, <1>7, Repeats
  <1>8. CASE /\ pc' = "stages" /\ UNCHANGED <<changed, result>>
             /\ ~TimesDiffer(t, cache.status) /\ ~BackupTimeChanges(cache)
    <2>1. Shape'
      BY <1>3, <1>4, <1>5, <1>8 DEF IInv, Shape
    <2>2. Queueing'
      BY <1>3, <1>4, <1>8 DEF IInv, Queueing
    <2>3. Copying'
      BY <1>1, <1>2, <1>3, <1>4, <1>5, <1>6, <1>8 DEF Copying, Agrees
    <2>4. Waking' /\ WakeupSet'
      BY <1>3, <1>4, <1>8 DEF IInv, Waking, WakeupSet, AtRest
    <2>5. Answering' /\ Replacing'
      BY <1>3, <1>4, <1>8 DEF IInv, Answering, Later, Replacing
    <2> QED  BY <2>1, <2>2, <2>3, <2>4, <2>5 DEF IInv
  <1> QED  BY <1>3, <1>7, <1>8

LEMMA StatusFailsStep == ASSUME IInv, Listed, StatusFails PROVE IInv'
  <1> DEFINE t == WithTimes(cache)
             u == WithNextBackup(cache, t)
             v == WithLastBackup(u)
  <1>1. ReadsStatus /\ cache.changedAt # None
    BY DEF StatusFails
  <1>2. /\ t \in Status /\ u \in Status /\ v \in Status
        /\ t.nextBackup = cache.status.nextBackup
        /\ u.enabled = t.enabled /\ v.enabled = t.enabled
        /\ v.nextBackup = u.nextBackup
        /\ \/ u.nextBackup = t.nextBackup
           \/ /\ OutsideWindow(cache.spec, t.nextBackup) \/ u.nextBackup = None
              /\ u.nextBackup # None => u.nextBackup >= clock
        /\ ~t.enabled /\ cache.spec.enabled =>
              /\ cache.spec.disableAfter # Never
              /\ clock >= cache.changedAt + cache.spec.disableAfter
    BY <1>1, Refreshed
  <1>3. /\ UNCHANGED <<site, fresh>> /\ pc' = "save" /\ result' = Again
        /\ \E w \in {t, u, v} : copy' = [cache EXCEPT !.status = w]
    BY DEF StatusFails, SaveError, Save
  <1> HIDE DEF t, u, v
  <1>4. PICK w \in {t, u, v} : copy' = [cache EXCEPT !.status = w]
    BY <1>3
  <1>5. w \in Status /\ w.enabled = t.enabled
        /\ (w.nextBackup = t.nextBackup \/ w.nextBackup = u.nextBackup)
    BY <1>2
  <1>6. cache \in Site /\ UNCHANGED clock
    BY <1>1, StatusIsRead
  <1>7. /\ copy' \in Site /\ copy'.status = w
        /\ copy'.spec = cache.spec /\ copy'.changedAt = cache.changedAt
    BY <1>4, <1>5, <1>6, SetStatus
  <1>8. Justified(copy)'
    BY <1>1, <1>2, <1>5, <1>6, <1>7 DEF Justified
  <1> QED  BY <1>1, <1>2, <1>3, <1>5, <1>7, <1>8, Repeats
-----------------------------------------------------------------------------
(* The stages, and the save. *)

\* The stages end with status st, which they neither enabled nor disabled.
LEMMA StagesLeft ==
    ASSUME IInv, pc = "stages", pc' = "save",
           UNCHANGED <<clock, site, cache, fresh, current>>,
           UNCHANGED queue \/ Enqueue, made' \in Maybe(Times), result' \in Results,
           NEW st \in Status, copy' = [copy EXCEPT !.status = st],
           st.enabled = copy.status.enabled
    PROVE  /\ Shape' /\ Queueing' /\ Copying' /\ WakeupSet'
           /\ site.status.state = "Complete" => site.status.ready
           /\ copy' \in Site /\ copy'.status = st /\ copy'.spec = copy.spec
           /\ current => Agrees(copy.status, site.status) /\ copy.spec = site.spec
  <1>1. /\ copy' \in Site /\ copy'.status = st
        /\ copy'.spec = copy.spec /\ copy'.changedAt = copy.changedAt
    BY SetStatus DEF IInv, Shape
  <1>2. Shape'
    <2>1. site' \in Site /\ cache' \in Site
      BY DEF IInv, Shape
    <2>2. copy' \in Site
      BY <1>1 DEF Site, Status
    <2>3. queued' \in BOOLEAN
      BY DEF IInv, Shape, Enqueue, queue
    <2> QED  BY <2>1, <2>2, <2>3 DEF IInv, Shape
  <1>3. Queueing'
    BY DEF IInv, Queueing, Enqueue, queue
  <1>4. Copying'
    BY <1>1 DEF IInv, Copying, Agrees
  <1>5. WakeupSet'
    BY DEF WakeupSet, AtRest
  <1> QED  BY <1>1, <1>2, <1>3, <1>4, <1>5 DEF IInv, Copying, Waking

\* They end without a new Backup.
LEMMA NoBackupMade ==
    ASSUME IInv, pc = "stages", pc' = "save",
           UNCHANGED <<clock, site, current, made, lost>>,
           copy'.status.nextBackup = copy.status.nextBackup,
           current => copy.status.nextBackup = site.status.nextBackup
    PROVE  Answering' /\ Replacing'
  BY DEF IInv, Answering, Later, Replacing

LEMMA StagesStopStep == ASSUME IInv, StagesStop PROVE IInv'
  <1> DEFINE st == ResetErrors(copy.status)
  <1>1. /\ pc = "stages" /\ pc' = "save"
        /\ UNCHANGED <<clock, site, cache, fresh, current, queue, exact, made, lost>>
    BY DEF StagesStop, Save, SaveError, history
  <1>2. copy.status \in Status /\ made \in Maybe(Times)
    BY <1>1, SiteFields DEF IInv, Shape
  <1>3. st \in Status /\ st.state # "Failed" /\ Agrees(st, copy.status)
    BY <1>2, ResetStatus
  <1>4. PICK w : /\ copy' = [copy EXCEPT !.status = w]
                 /\ \/ /\ w = [st EXCEPT !.ready = FALSE]
                       /\ changed' = st.ready /\ result' = Nothing
                    \/ /\ w = [st EXCEPT !.state = "Failed"]
                       /\ changed' = TRUE /\ result' = Nothing
                    \/ /\ \E r \in BOOLEAN : w = [st EXCEPT !.ready = r]
                       /\ result' = Again
    BY DEF StagesStop, Save, SaveError
  <1> HIDE DEF st
  <1>5. /\ w \in Status /\ w.enabled = st.enabled /\ w.nextBackup = st.nextBackup
        /\ result' \in Results
        /\ \/ ~w.ready /\ changed' = st.ready
           \/ w.state = "Failed" /\ changed' = TRUE
           \/ result'.again
    <2>1. CASE /\ w = [st EXCEPT !.ready = FALSE]
               /\ changed' = st.ready /\ result' = Nothing
      BY <1>3, <2>1, SetReady, PlainResults
    <2>2. CASE /\ w = [st EXCEPT !.state = "Failed"]
               /\ changed' = TRUE /\ result' = Nothing
      <3>1. "Failed" \in States
        BY DEF States
      <3> QED  BY <1>3, <2>2, <3>1, SetState, PlainResults DEF Agrees
    <2>3. CASE /\ \E r \in BOOLEAN : w = [st EXCEPT !.ready = r]
               /\ result' = Again
      BY <1>3, <2>3, SetReady, PlainResults
    <2> QED  BY <1>4, <2>1, <2>2, <2>3
  <1>6. /\ Shape' /\ Queueing' /\ Copying' /\ WakeupSet'
        /\ site.status.state = "Complete" => site.status.ready
        /\ copy'.status = w
        /\ current => Agrees(copy.status, site.status)
    BY <1>1, <1>2, <1>3, <1>4, <1>5, StagesLeft DEF Agrees
  <1>7. Waking'
    <2>1. ASSUME current, ~result'.again PROVE Unfinished'
      <3>1. SetSiteState(w).state # "Complete"
        BY <1>5, <2>1, SavedStatus
      <3>2. changed' \/ site.status.state # "Complete"
        BY <1>3, <1>5, <1>6, <2>1 DEF Agrees
      <3> QED  BY <1>1, <1>6, <3>1, <3>2 DEF Unfinished, SetSiteState
    <2> QED  BY <1>1, <1>6, <2>1 DEF Waking
  <1>8. Answering' /\ Replacing'
    BY <1>1, <1>3, <1>5, <1>6, NoBackupMade DEF Agrees
  <1> QED  BY <1>6, <1>7, <1>8 DEF IInv

LEMMA StagesEndStep == ASSUME IInv, StagesEnd PROVE IInv'
  <1> DEFINE st == ResetErrors(copy.status)
             ready == [st EXCEPT !.ready = TRUE]
             done == [st EXCEPT !.ready = TRUE, !.state = "Complete"]
             time == NextBackupTime(copy.spec, clock)
             next == [done EXCEPT !.nextBackup = time]
  <1>1. /\ pc = "stages" /\ pc' = "save"
        /\ UNCHANGED <<clock, site, cache, fresh, current>>
    BY DEF StagesEnd, Save, SaveError
  <1>2. /\ copy.status \in Status /\ made \in Maybe(Times) /\ clock \in Times
        /\ copy.spec \in Spec0 /\ clock \in Maybe(Times)
    BY <1>1, SiteFields DEF IInv, Shape, Maybe
  <1>3. st \in Status /\ Agrees(st, copy.status)
    BY <1>2, ResetStatus
  <1>4. /\ done \in Status /\ done.enabled = copy.status.enabled
        /\ done.nextBackup = copy.status.nextBackup
    <2> HIDE DEF st
    <2>1. ready \in Status /\ ready.enabled = st.enabled
          /\ ready.nextBackup = st.nextBackup
      BY <1>3, SetReady
    <2>2. done = [ready EXCEPT !.state = "Complete"] /\ "Complete" \in States
      BY DEF States
    <2> HIDE DEF ready, done
    <2> QED  BY <1>3, <2>1, <2>2, SetState DEF Agrees
  <1>5. /\ time \in Maybe(Nat) /\ (time # None => time >= clock)
    BY <1>2, NextIsLater
  <1>6. /\ next \in Status /\ next.enabled = copy.status.enabled
        /\ next.nextBackup = time
    <2> HIDE DEF done, time
    <2> QED  BY <1>4, <1>5, SetNextBackup
  <1>7. \/ /\ copy' = [copy EXCEPT !.status = done]
           /\ changed' = (done # st) /\ result' = RecheckResult(done)
           /\ exact' = (clock \in Ahead(done))
           /\ UNCHANGED <<queue, made, lost>>
        \/ /\ BackupDue(done) /\ Enqueue /\ copy' = [copy EXCEPT !.status = next]
           /\ changed' = TRUE /\ result' = RecheckResult(next)
           /\ exact' = (clock \in Ahead(next))
           /\ made' = clock /\ touched' = TRUE /\ lost' = (lost \/ ~current)
        \/ /\ copy' = [copy EXCEPT !.status = done] /\ result' = Again
           /\ UNCHANGED <<queue, exact, made, lost>>
    BY DEF StagesEnd, Save, SaveError
  <1> HIDE DEF st, ready, done, time, next
  <1>8. CASE /\ copy' = [copy EXCEPT !.status = done]
             /\ changed' = (done # st) /\ result' = RecheckResult(done)
             /\ exact' = (clock \in Ahead(done))
             /\ UNCHANGED <<queue, made, lost>>
    <2>1. result' \in Results
      BY <1>2, <1>4, <1>8, Recheck
    <2>2. /\ Shape' /\ Queueing' /\ Copying' /\ WakeupSet'
          /\ site.status.state = "Complete" => site.status.ready
          /\ copy'.status = done
          /\ current => Agrees(copy.status, site.status)
      BY <1>1, <1>2, <1>4, <1>8, <2>1, StagesLeft
    <2>3. current /\ ~changed' => Ahead(site.status) = Ahead(done)
      <3>1. Agrees(st, copy.status) /\ (~changed' => done = st)
        BY <1>3, <1>8
      <3> QED  BY <2>2, <3>1 DEF Agrees, Ahead
    <2>4. Waking'
      BY <1>1, <1>8, <2>2, <2>3 DEF Waking, Scheduled, RecheckResult, Ahead
    <2>5. Answering' /\ Replacing'
      BY <1>1, <1>4, <1>8, <2>2, NoBackupMade DEF Agrees
    <2> QED  BY <2>2, <2>4, <2>5 DEF IInv
  <1>9. CASE /\ BackupDue(done) /\ Enqueue /\ copy' = [copy EXCEPT !.status = next]
             /\ changed' = TRUE /\ result' = RecheckResult(next)
             /\ exact' = (clock \in Ahead(next))
             /\ made' = clock /\ touched' = TRUE /\ lost' = (lost \/ ~current)
    <2>1. result' \in Results
      BY <1>2, <1>6, <1>9, Recheck
    <2>2. /\ Shape' /\ Queueing' /\ Copying' /\ WakeupSet'
          /\ site.status.state = "Complete" => site.status.ready
          /\ copy'.status = next
      BY <1>1, <1>2, <1>6, <1>9, <2>1, StagesLeft
    <2>3. Waking'
      BY <1>1, <1>9, <2>2 DEF Waking, Scheduled, RecheckResult, Ahead
    <2>4. clock \in Nat
      BY <1>2 DEF Times
    <2>5. Answering'
      BY <1>1, <1>5, <1>6, <1>9, <2>2, <2>4 DEF Answering, Later
    <2>6. Replacing'
      <3>1. clock # None
        BY <2>4, LifecycleAssumption
      <3> QED  BY <1>1, <1>9, <2>4, <3>1 DEF Replacing
    <2> QED  BY <2>2, <2>3, <2>5, <2>6 DEF IInv
  <1>10. CASE /\ copy' = [copy EXCEPT !.status = done] /\ result' = Again
              /\ UNCHANGED <<queue, exact, made, lost>>
    <2>1. /\ Shape' /\ Queueing' /\ Copying' /\ WakeupSet'
          /\ site.status.state = "Complete" => site.status.ready
          /\ copy'.status = done
          /\ current => Agrees(copy.status, site.status)
      BY <1>1, <1>2, <1>4, <1>10, PlainResults, StagesLeft
    <2>2. Waking'
      BY <1>1, <1>10, <2>1, PlainResults DEF Waking
    <2>3. Answering' /\ Replacing'
      BY <1>1, <1>4, <1>10, <2>1, NoBackupMade DEF Agrees
    <2> QED  BY <2>1, <2>2, <2>3 DEF IInv
  <1> QED  BY <1>7, <1>8, <1>9, <1>10
\* The wake-up that a reconcile returns is for what it leaves in the site.
LEMMA WakeupReturned ==
    ASSUME IInv, pc = "save", Scheduled, ~result.again, ~exact
    PROVE  Ahead(copy.status) = {} \/ result.at = Min(Ahead(copy.status))
  <1>1. copy.status \in Status /\ clock \in Times
    BY SiteFields DEF IInv, Shape
  <1>2. result = RecheckResult(copy.status) /\ clock \notin Ahead(copy.status)
    BY DEF Scheduled
  <1> QED  BY <1>1, <1>2, Recheck

LEMMA SaveStatusStep == ASSUME IInv, SaveStatus PROVE IInv'
  <1> DEFINE st == SetSiteState(copy.status)
  <1>1. /\ pc = "save" /\ pc' = "idle" /\ current' = FALSE /\ result' = Nothing
        /\ UNCHANGED <<clock, cache, exact, made>>
    BY DEF SaveStatus, Done
  <1>2. /\ copy.status \in Status /\ site \in Site /\ timer = None
        /\ queued \in BOOLEAN /\ result \in Results /\ fresh \in BOOLEAN
    BY <1>1, SiteFields DEF IInv, Shape, Queueing
  <1>3. /\ st \in Status /\ Agrees(st, copy.status)
        /\ st.state = "Complete" => st.ready
    BY <1>2, SavedStatus DEF Agrees
  <1>4. /\ \/ /\ ~changed /\ Requeue(result)
              /\ UNCHANGED <<site, fresh, lost>>
           \/ /\ changed /\ current /\ site' = [site EXCEPT !.status = st]
              /\ fresh' = (fresh /\ site' = site)
              /\ Requeue(result) /\ UNCHANGED lost
           \/ /\ changed /\ lost' = (lost \/ touched) /\ Requeue(Again)
              /\ UNCHANGED <<site, fresh>>
    BY DEF SaveStatus
  <1> HIDE DEF st
  <1>5. /\ site' \in Site /\ fresh' \in BOOLEAN /\ queued' \in BOOLEAN
        /\ queued' => timer' = None
        /\ timer' \in Maybe(Nat)
    <2>1. [site EXCEPT !.status = st] \in Site
      BY <1>2, <1>3, SetStatus
    <2>2. result.at \in Maybe(Nat) /\ Again.at \in Maybe(Nat)
      BY <1>2, PlainResults DEF Results, Deadlines, Maybe
    <2>3. None \in Maybe(Nat)
      BY DEF Maybe
    <2> QED  BY <1>2, <1>4, <2>1, <2>2, <2>3, RequeueSets, PlainResults
  <1>6. Shape'
    <2>1. site' \in Site /\ cache' \in Site
      BY <1>1, <1>5 DEF IInv, Shape
    <2> QED  BY <1>1, <1>5, <2>1, PlainResults DEF IInv, Shape
  <1>7. Queueing' /\ Copying' /\ Replacing'
    BY <1>1, <1>4, <1>5 DEF IInv, Queueing, Copying, Replacing
  <1>8. CASE ~changed /\ Requeue(result) /\ UNCHANGED <<site, fresh, lost>>
    <2>1. Waking' /\ Answering'
      BY <1>1, <1>8 DEF IInv, Waking, Answering, Later
    <2>2. ASSUME ~queued', fresh, site.status.state = "Complete", ~exact
          PROVE  Ahead(site.status) = {} \/ timer' = Min(Ahead(site.status))
      <3>1. ~queued /\ ~result.again /\ timer' = result.at
        BY <1>2, <1>8, <2>2, RequeueSets
      <3>2. current
        BY <1>1, <2>2, <3>1 DEF IInv, Queueing
      <3>3. Scheduled /\ Ahead(site.status) = Ahead(copy.status)
        BY <1>1, <1>8, <2>2, <3>1, <3>2 DEF IInv, Waking, Unfinished, Scheduled
      <3> QED  BY <1>1, <2>2, <3>1, <3>3, WakeupReturned
    <2>3. WakeupSet'
      BY <1>1, <1>8, <2>2 DEF WakeupSet, AtRest, Ahead
    <2> QED  BY <1>6, <1>7, <2>1, <2>3 DEF IInv
  <1>9. CASE /\ changed /\ current /\ site' = [site EXCEPT !.status = st]
             /\ fresh' = (fresh /\ site' = site)
             /\ Requeue(result) /\ UNCHANGED lost
    <2>1. site'.status = st
      BY <1>2, <1>3, <1>9, SetStatus
    <2>2. Waking' /\ Answering'
      BY <1>1, <1>3, <1>9, <2>1 DEF IInv, Waking, Answering, Later, Agrees
    <2>3. ASSUME ~queued', st.state = "Complete", ~exact
          PROVE  Ahead(st) = {} \/ timer' = Min(Ahead(st))
      <3>1. ~queued /\ ~result.again /\ timer' = result.at
        BY <1>2, <1>9, <2>3, RequeueSets
      <3>2. Scheduled
        BY <1>1, <1>9, <2>3, <3>1 DEF IInv, Waking, Unfinished, st
      <3>3. Ahead(st) = Ahead(copy.status)
        BY <1>3, AgreeAhead
      <3> QED  BY <1>1, <2>3, <3>1, <3>2, <3>3, WakeupReturned
    <2>4. WakeupSet'
      BY <1>1, <2>1, <2>3 DEF WakeupSet, AtRest, Ahead
    <2> QED  BY <1>6, <1>7, <2>2, <2>4 DEF IInv
  <1>10. CASE /\ changed /\ lost' = (lost \/ touched) /\ Requeue(Again)
              /\ UNCHANGED <<site, fresh>>
    <2>1. Waking' /\ Answering'
      BY <1>1, <1>10 DEF IInv, Waking, Answering, Later
    <2>2. queued'
      BY <1>2, <1>10, RequeueSets, PlainResults
    <2>3. WakeupSet'
      BY <2>2 DEF WakeupSet, AtRest
    <2> QED  BY <1>6, <1>7, <2>1, <2>3 DEF IInv
  <1> QED  BY <1>4, <1>8, <1>9, <1>10

LEMMA InvStep == IInv /\ Listed /\ [Next]_vars => IInv'
  <1> SUFFICES ASSUME IInv, Listed, [Next]_vars PROVE IInv'
    OBVIOUS
  <1>1. CASE UNCHANGED vars
    BY <1>1, Elsewhere DEF vars, queue, work, history
  <1>2. CASE Reconcile
    BY <1>2, LeaveStep, AppendFinalizerStep, AnnotateStep, UpdateStatusStep,
       StatusFailsStep, DeleteSiteStep, StagesStopStep, StagesEndStep,
       SaveStatusStep
    DEF Reconcile
  <1> QED
    BY <1>1, <1>2, OutsideSteps, EditSiteStep, CrashStep DEF Next

LEMMA InvHolds == Spec => []IInv
  BY InvInit, InvStep, ListedHolds, PTL DEF Spec

-----------------------------------------------------------------------------
(* What the steps do to the site, and to the time of the last Backup. *)

LEMMA SiteSteps ==
    ASSUME IInv, [Next]_vars
    PROVE  \/ site'.deleting = site.deleting /\ site'.status = site.status
           \/ DeleteSite
           \/ SaveStatus
  <1>1. site \in Site /\ clock \in Times /\ site.spec \in Spec0
    BY SiteFields DEF IInv, Shape
  <1>2. CASE AppendFinalizer \/ Annotate
    BY <1>1, <1>2, Updates DEF AppendFinalizer, Annotate
  <1>3. CASE EditSite
    <2>1. PICK sp \in Edits : site' = [Default(site) EXCEPT !.spec = sp]
      BY <1>3 DEF EditSite
    <2> QED  BY <1>1, <2>1, Updates, LifecycleAssumption
  <1>4. CASE \/ Leave \/ UpdateStatus \/ StatusFails \/ StagesStop \/ StagesEnd
             \/ SyncSite \/ WakeUp \/ Tick \/ BackupByHand \/ ChildrenChange
             \/ (\E i \in DOMAIN backups : FinishBackup(i))
             \/ Crash \/ UNCHANGED vars
    BY <1>4 DEF Leave, UpdateStatus, StatusFails, StagesStop, StagesEnd, SyncSite,
                WakeUp, Tick, BackupByHand, ChildrenChange, FinishBackup, Crash, vars
  <1> QED  BY <1>2, <1>3, <1>4 DEF Next, Reconcile

LEMMA BackupSteps ==
    ASSUME [Next]_vars
    PROVE  made' = made \/ StagesEnd
  BY DEF Next, Reconcile, Leave, AppendFinalizer, Annotate, UpdateStatus,
         StatusFails, ReadsStatus, DeleteSite, StagesStop, SaveStatus, SyncSite,
         WakeUp, Tick, EditSite, BackupByHand, ChildrenChange, FinishBackup,
         Crash, history, vars

-----------------------------------------------------------------------------
(* The list at rest. *)

LEMMA OrderOfTimes ==
    ASSUME NEW a \in Maybe(Times), NEW b \in Maybe(Times), NEW c \in Maybe(Times)
    PROVE  /\ NotAfter(a, a)
           /\ NotAfter(a, b) /\ NotAfter(b, c) => NotAfter(a, c)
           /\ NotAfter(a, b) /\ NotAfter(b, a) => a = b
  BY LifecycleAssumption DEF NotAfter, Maybe, Times

LEMMA NotedTypes ==
    ASSUME IInv, Recording
    PROVE  /\ site.status.lastBackup \in Maybe(Times)
           /\ cache.status.lastBackup \in Maybe(Times)
           /\ pc # "idle" => copy.status.lastBackup \in Maybe(Times)
           /\ completed \in Maybe(Times)
  BY SiteFields, StatusFields DEF IInv, Shape, Recording

\* Neither the site nor the reconcile nor the ends of the Backups change, and
\* the list only if the reconciler will look again.
LEMMA TidyElsewhere ==
    ASSUME IInv, TInv, clock' = clock \/ clock' = clock + 1,
           UNCHANGED <<site, work, completed, lost>>, Ends' = Ends,
           UNCHANGED backups \/ queued', Enqueue \/ UNCHANGED queue,
           \/ UNCHANGED <<cache, fresh>>
           \/ cache' = site /\ Enqueue
    PROVE  TInv'
  <1>1. /\ UNCHANGED <<site, pc, copy, changed, current, result, touched,
                       completed, lost>>
        /\ clock \in Nat /\ clock' \in Nat /\ clock' >= clock
        /\ Horizon \in Nat
    BY LifecycleAssumption DEF work, IInv, Shape, Times
  <1>2. queued' \/ UNCHANGED <<queued, backups, fresh>>
    BY DEF Enqueue, queue
  <1>3. Recording'
    <2>1. NotAfter(completed, clock)'
      <3>1. completed \in Maybe(Nat) /\ (completed = None \/ completed <= clock)
        BY DEF TInv, Recording, NotAfter, Maybe, Times
      <3>2. clock' # None
        BY <1>1, LifecycleAssumption
      <3> QED  BY <1>1, <3>1, <3>2 DEF NotAfter, Maybe
    <2>2. NotAfter(cache.status.lastBackup, site.status.lastBackup)'
      <3>1. NotAfter(site.status.lastBackup, site.status.lastBackup)
        BY NotedTypes, OrderOfTimes DEF TInv
      <3> QED  BY <1>1, <3>1 DEF TInv, Recording, NotAfter
    <2> QED  BY <1>1, <2>1, <2>2 DEF TInv, Recording, NotAfter
  <1>4. Noted'
    BY <1>1 DEF TInv, Noted
  <1>5. Tidying'
    <2>1. CASE queued'
      BY <2>1 DEF Tidying
    <2>2. CASE UNCHANGED <<queued, backups, fresh>>
      <3>1. Unowned' = Unowned /\ Final' = Final
        BY <2>2 DEF Unowned, Final
      <3>2. Tidy => Tidy'
        BY <1>1, <3>1 DEF Tidy
      <3> QED  BY <1>1, <2>2, <3>2 DEF TInv, Tidying
    <2> QED  BY <1>2, <2>1, <2>2
  <1> QED  BY <1>3, <1>4, <1>5 DEF TInv

\* A Backup that the site does not own is only there while it will look again.
LEMMA TidyFinish ==
    ASSUME IInv, Listed, TInv, NEW i \in DOMAIN backups, FinishBackup(i)
    PROVE  TInv'
  <1>1. /\ pc = "idle" /\ UNCHANGED <<clock, site, cache, fresh, work, lost>>
        /\ backups[i].owned => queued'
        /\ ~backups[i].owned => UNCHANGED queue
    BY DEF FinishBackup, Enqueue
  <1>2. \/ Ends' = Ends \cup {clock} /\ completed' = clock
        \/ Ends' = Ends /\ completed' = completed
    BY FinishedList
  <1>3. UNCHANGED <<pc, copy, changed, current, result, touched>>
    BY <1>1 DEF work
  <1>4. Recording'
    <2>1. /\ clock \in Maybe(Times) /\ NotAfter(clock, clock)
          /\ NotAfter(completed, clock)
      BY OrderOfTimes DEF IInv, Shape, Maybe, TInv, Recording
    <2>2. /\ \A e \in Ends : e \in Maybe(Times) /\ NotAfter(e, completed)
          /\ NotAfter(site.status.lastBackup, completed)
          /\ NotAfter(cache.status.lastBackup, site.status.lastBackup)
      BY ListFacts DEF TInv, Recording, Maybe
    <2>3. /\ \A e \in Ends : NotAfter(e, clock)
          /\ NotAfter(site.status.lastBackup, clock)
      BY <2>1, <2>2, NotedTypes, OrderOfTimes DEF TInv
    <2>4. completed \in Maybe(Times)
      BY NotedTypes DEF TInv
    <2>5. CASE Ends' = Ends \cup {clock} /\ completed' = clock
      BY <1>1, <1>3, <2>1, <2>2, <2>3, <2>5 DEF Recording, NotAfter
    <2>6. CASE Ends' = Ends /\ completed' = completed
      BY <1>1, <1>3, <2>1, <2>2, <2>4, <2>6 DEF Recording, NotAfter
    <2> QED  BY <1>2, <2>5, <2>6
  <1>5. Noted'
    BY <1>1, <1>2, <1>3 DEF TInv, Noted
  <1>6. Tidying'
    <2>1. CASE backups[i].owned
      BY <1>1, <2>1 DEF Tidying
    <2>2. CASE ~backups[i].owned
      <3>1. Unowned # {}
        BY <2>2 DEF Unowned
      <3>2. UNCHANGED queued
        BY <1>1, <2>2 DEF queue
      <3> QED  BY <1>1, <1>3, <3>1, <3>2 DEF TInv, Tidying, Tidy
    <2> QED  BY <2>1, <2>2
  <1> QED  BY <1>4, <1>5, <1>6 DEF TInv

\* The site is written but for its status, and the cache is behind.
LEMMA TidyWritten ==
    ASSUME IInv, TInv, site'.status = site.status, fresh' = FALSE,
           UNCHANGED <<clock, cache, backups, completed, lost>>,
           \/ pc' = "idle" /\ pc # "save"
           \/ UNCHANGED <<pc, copy, touched, changed>> /\ (current' => current)
    PROVE  TInv'
  <1>1. Ends' = Ends
    BY DEF Ends
  <1>2. Recording'
    BY <1>1 DEF TInv, Recording, NotAfter
  <1>3. Noted'
    BY <1>1 DEF TInv, Noted
  <1>4. Tidying'
    BY DEF Tidying
  <1> QED  BY <1>2, <1>3, <1>4 DEF TInv

LEMMA TidyOthers ==
    ASSUME IInv, Listed, TInv,
           \/ SyncSite \/ WakeUp \/ Tick \/ BackupByHand \/ ChildrenChange
           \/ UNCHANGED vars \/ Leave \/ AppendFinalizer \/ DeleteSite \/ EditSite
           \/ Crash
    PROVE  TInv'
  <1>1. CASE SyncSite \/ WakeUp \/ Tick \/ ChildrenChange \/ UNCHANGED vars
    <2>1. UNCHANGED backups /\ Ends' = Ends
      BY <1>1 DEF SyncSite, WakeUp, Tick, ChildrenChange, vars, Ends
    <2>2. /\ clock' = clock \/ clock' = clock + 1
          /\ UNCHANGED <<site, work, completed, lost>>
          /\ Enqueue \/ UNCHANGED queue
          /\ \/ UNCHANGED <<cache, fresh>>
             \/ cache' = site /\ Enqueue
      BY <1>1 DEF SyncSite, WakeUp, Tick, ChildrenChange, vars, history
    <2> QED  BY <2>1, <2>2, TidyElsewhere
  <1>2. CASE BackupByHand
    <2>1. /\ backups' = OneMore /\ Enqueue
          /\ UNCHANGED <<clock, site, cache, fresh, work, completed, lost>>
      BY <1>2 DEF BackupByHand, history
    <2>2. Ends' = Ends
      BY <2>1, CreatedList
    <2>3. queued'
      BY <2>1 DEF Enqueue
    <2> QED  BY <2>1, <2>2, <2>3, TidyElsewhere
  <1>3. CASE Leave
    <2>1. /\ queued' = FALSE /\ pc = "idle" /\ cache.deleting
          /\ UNCHANGED <<clock, site, cache, fresh, backups, pc, completed, lost>>
      BY <1>3 DEF Leave, Begins, work, history
    <2>2. Ends' = Ends
      BY <2>1 DEF Ends
    <2>3. Recording' /\ Noted'
      BY <2>1, <2>2 DEF TInv, Recording, Noted, NotAfter
    <2>4. Tidying'
      BY <2>1 DEF IInv, Queueing, Tidying
    <2> QED  BY <2>3, <2>4 DEF TInv
  <1>4. CASE AppendFinalizer \/ DeleteSite \/ EditSite
    <2>1. site \in Site /\ clock \in Times /\ site.spec \in Spec0
      BY SiteFields DEF IInv, Shape
    <2>2. CASE AppendFinalizer
      <3>1. site'.status = site.status
        BY <2>1, <2>2, Updates DEF AppendFinalizer
      <3> QED
        BY <2>2, <3>1, TidyWritten DEF AppendFinalizer, Begins, work, history
    <2>3. CASE DeleteSite
      <3>1. site'.status = site.status
        BY <2>1, <2>3, Updates DEF DeleteSite
      <3> QED  BY <2>3, <3>1, TidyWritten DEF DeleteSite, Done, history
    <2>4. CASE EditSite
      <3>1. PICK sp \in Edits : site' = [Default(site) EXCEPT !.spec = sp]
        BY <2>4 DEF EditSite
      <3>2. site'.status = site.status
        BY <2>1, <3>1, Updates, LifecycleAssumption
      <3> QED  BY <2>4, <3>2, TidyWritten DEF EditSite, history
    <2> QED  BY <1>4, <2>2, <2>3, <2>4
  <1>5. CASE Crash
    <2>1. /\ UNCHANGED <<clock, site, backups, completed>> /\ cache' = site
          /\ pc' = "idle" /\ queued'
          /\ lost' = (lost \/ (pc # "idle" /\ touched))
      BY <1>5 DEF Crash, Done, Enqueue
    <2>2. Ends' = Ends
      BY <2>1 DEF Ends
    <2>3. Recording'
      <3>1. NotAfter(site.status.lastBackup, site.status.lastBackup)
        BY NotedTypes, OrderOfTimes DEF TInv
      <3> QED  BY <2>1, <2>2, <3>1 DEF TInv, Recording, NotAfter
    <2>4. Noted' /\ Tidying'
      BY <2>1, <2>2 DEF TInv, Noted, Tidying
    <2> QED  BY <2>3, <2>4 DEF TInv
  <1> QED  BY <1>1, <1>2, <1>3, <1>4, <1>5

\* A reconcile has read the site and the list: what it deletes, it is about to
\* save, or the site says already.
LEMMA TidyRead ==
    ASSUME IInv, Listed, TInv, ReadsStatus, site'.status = site.status,
           pc' # "idle", UNCHANGED lost,
           Ends' \subseteq Ends, copy'.status.lastBackup \in Maybe(Times),
           NotAfter(copy'.status.lastBackup, completed),
           fresh => NotAfter(site.status.lastBackup, copy'.status.lastBackup),
           ~lost /\ completed \in Ends =>
             \/ completed \in Ends'
             \/ site.status.lastBackup = completed
             \/ /\ pc' = "save" /\ touched' /\ changed'
                /\ copy'.status.lastBackup = completed
    PROVE  Recording' /\ Noted'
  <1>1. /\ UNCHANGED <<clock, cache, completed>> /\ current' = fresh
        /\ pc = "idle"
    BY DEF ReadsStatus, Begins, history
  <1>2. Recording'
    <2>1. \A e \in Ends' : NotAfter(e, completed)
      BY DEF TInv, Recording
    <2> QED  BY <1>1, <2>1 DEF TInv, Recording, NotAfter
  <1>3. Noted'
    BY <1>1 DEF TInv, Noted
  <1> QED  BY <1>2, <1>3

LEMMA TidyAnnotate == ASSUME IInv, Listed, TInv, Annotate PROVE TInv'
  <1>1. /\ ReadsStatus /\ UNCHANGED <<clock, lost, backups>>
        /\ pc' = "save" /\ result' = Again
    BY DEF Annotate, ReadsStatus, SaveError, Save, history
  <1>2. /\ site \in Site /\ cache \in Site /\ site.status \in Status
        /\ cache.status \in Status /\ clock \in Times
    BY SiteFields DEF IInv, Shape
  <1>3. /\ site'.status = site.status /\ site' \in Site
        /\ \/ copy' = [site' EXCEPT !.status = site.status]
           \/ ~fresh /\ copy' = [cache EXCEPT !.status = cache.status]
    BY <1>2, Updates, SiteFields DEF Annotate, SaveError, Save
  <1>4. \/ copy'.status = site.status
        \/ ~fresh /\ copy'.status = cache.status
    BY <1>2, <1>3, SetStatus
  <1>5. /\ NotAfter(site.status.lastBackup, completed)
        /\ NotAfter(cache.status.lastBackup, site.status.lastBackup)
    BY DEF TInv, Recording
  <1>6. /\ copy'.status.lastBackup \in Maybe(Times)
        /\ NotAfter(copy'.status.lastBackup, completed)
        /\ fresh => NotAfter(site.status.lastBackup, copy'.status.lastBackup)
    BY <1>4, <1>5, NotedTypes, OrderOfTimes DEF TInv
  <1>7. Ends' = Ends
    BY <1>1 DEF Ends
  <1>8. Recording' /\ Noted'
    BY <1>1, <1>3, <1>6, <1>7, TidyRead
  <1>9. Tidying'
    BY <1>1, PlainResults DEF Tidying
  <1> QED  BY <1>8, <1>9 DEF TInv

\* The status that ensureStatusIsUpToDate leaves: LastBackupTime as it was, or
\* the last end in the list.
LEMMA TidyStatus ==
    ASSUME IInv, Listed, TInv, ReadsStatus, cache.changedAt # None,
           NEW t, t = WithTimes(cache),
           NEW u, u = WithNextBackup(cache, t), NEW v, v = WithLastBackup(u)
    PROVE  /\ \A w \in {t, u, v} :
                 /\ w \in Status /\ w.lastBackup \in Maybe(Times)
                 /\ NotAfter(w.lastBackup, completed)
                 /\ fresh => NotAfter(site.status.lastBackup, w.lastBackup)
           /\ completed \in Ends => v.lastBackup = completed
  <1>1. /\ t \in Status /\ u \in Status /\ v \in Status
        /\ t.lastBackup = cache.status.lastBackup
        /\ u.lastBackup = cache.status.lastBackup
        /\ \A e \in Ends : NotAfter(e, v.lastBackup)
        /\ NotAfter(cache.status.lastBackup, v.lastBackup)
        /\ v.lastBackup \in Ends \cup {cache.status.lastBackup}
    BY Refreshed
  <1>2. /\ \A e \in Ends : NotAfter(e, completed)
        /\ NotAfter(cache.status.lastBackup, site.status.lastBackup)
        /\ NotAfter(site.status.lastBackup, completed)
    BY DEF TInv, Recording
  <1>3. /\ site.status.lastBackup \in Maybe(Times)
        /\ cache.status.lastBackup \in Maybe(Times)
        /\ completed \in Maybe(Times)
        /\ v.lastBackup \in Maybe(Times)
    BY <1>1, NotedTypes, StatusFields DEF TInv
  <1>4. NotAfter(cache.status.lastBackup, completed)
    BY <1>2, <1>3, OrderOfTimes
  <1>5. NotAfter(v.lastBackup, completed)
    BY <1>1, <1>2, <1>4
  <1>6. fresh => site.status.lastBackup = cache.status.lastBackup
    BY DEF IInv, Queueing
  <1>7. NotAfter(cache.status.lastBackup, cache.status.lastBackup)
    BY <1>3, OrderOfTimes
  <1>8. completed \in Ends => v.lastBackup = completed
    BY <1>1, <1>3, <1>5, OrderOfTimes
  <1> QED
    BY <1>1, <1>3, <1>4, <1>5, <1>6, <1>7, <1>8

LEMMA TidyUpdateStatus == ASSUME IInv, Listed, TInv, UpdateStatus PROVE TInv'
  <1> DEFINE t == WithTimes(cache)
             u == WithNextBackup(cache, t)
             v == WithLastBackup(u)
  <1>1. /\ ReadsStatus /\ cache.changedAt # None
        /\ copy' = [cache EXCEPT !.status = v]
        /\ UNCHANGED <<site, fresh, clock, completed, lost>>
        /\ pc' # "idle"
    BY DEF UpdateStatus, ReadsStatus, Save, Continue, history
  <1>2. /\ \A w \in {t, u, v} :
              /\ w \in Status /\ w.lastBackup \in Maybe(Times)
              /\ NotAfter(w.lastBackup, completed)
              /\ fresh => NotAfter(site.status.lastBackup, w.lastBackup)
        /\ completed \in Ends => v.lastBackup = completed
    BY <1>1, TidyStatus
  <1>3. \/ /\ backups' = Claimed(Unowned)
           /\ result' = Again /\ pc' = "save"
        \/ /\ Unowned = {} /\ backups' = Without(Oldest(Surplus))
           /\ touched' = (Surplus > 0)
           /\ \/ pc' = "save" /\ changed' = TRUE /\ result' = Again
              \/ pc' = "stages" /\ v.lastBackup = cache.status.lastBackup
    BY DEF UpdateStatus, Save, Continue
  <1> HIDE DEF t, u, v
  <1>4. /\ copy'.status.lastBackup = v.lastBackup
        /\ v.lastBackup \in Maybe(Times)
        /\ NotAfter(v.lastBackup, completed)
        /\ fresh => NotAfter(site.status.lastBackup, v.lastBackup)
        /\ completed \in Ends => v.lastBackup = completed
    <2>1. copy'.status = v
      BY <1>2, <1>1, StatusIsRead, SetStatus
    <2> QED  BY <1>2, <2>1
  <1>5. CASE backups' = Claimed(Unowned) /\ result' = Again /\ pc' = "save"
    <2>1. Ends' = Ends
      BY <1>1, <1>5, ClaimedList
    <2>2. Recording' /\ Noted'
      BY <1>1, <1>4, <2>1, TidyRead
    <2>3. Tidying'
      BY <1>5, PlainResults DEF Tidying
    <2> QED  BY <2>2, <2>3 DEF TInv
  <1>6. CASE /\ Unowned = {} /\ backups' = Without(Oldest(Surplus))
             /\ touched' = (Surplus > 0)
             /\ pc' = "save" /\ changed' = TRUE /\ result' = Again
    <2>1. /\ Ends' \subseteq Ends
          /\ Oldest(Surplus) = {} => Ends' = Ends
      BY <1>1, <1>6, DeletedList
    <2>2. Surplus > 0 \/ Oldest(Surplus) = {}
      BY CleanUp
    <2>3. Recording' /\ Noted'
      BY <1>1, <1>4, <1>6, <2>1, <2>2, TidyRead
    <2>4. Tidying'
      BY <1>6, PlainResults DEF Tidying
    <2> QED  BY <2>3, <2>4 DEF TInv
  <1>7. CASE /\ Unowned = {} /\ backups' = Without(Oldest(Surplus))
             /\ pc' = "stages" /\ v.lastBackup = cache.status.lastBackup
    <2>1. /\ Ends' \subseteq Ends /\ Unowned' \subseteq Unowned
          /\ Final' = Final \ Oldest(Surplus)
      BY <1>1, <1>7, DeletedList
    <2>2. /\ NotAfter(v.lastBackup, site.status.lastBackup)
          /\ NotAfter(site.status.lastBackup, completed)
          /\ site.status.lastBackup \in Maybe(Times)
          /\ completed \in Maybe(Times)
      BY <1>7, NotedTypes DEF TInv, Recording
    <2>3. completed \in Ends => site.status.lastBackup = completed
      BY <1>4, <2>2, OrderOfTimes
    <2>4. Recording' /\ Noted'
      BY <1>1, <1>4, <2>1, <2>3, TidyRead
    <2>5. ~lost => site.status.lastBackup = completed
      <3>1. pc = "idle"
        BY <1>1 DEF ReadsStatus, Begins
      <3>2. completed = None => site.status.lastBackup = None
        BY DEF TInv, Recording, NotAfter
      <3> QED  BY <2>3, <3>1, <3>2 DEF TInv, Noted
    <2>6. Unowned' = {} /\ Cardinality(Final') <= Keep
      BY <1>7, <2>1, CleanUp
    <2>7. Tidying'
      BY <1>1, <2>5, <2>6 DEF Tidying, Tidy
    <2> QED  BY <2>4, <2>7 DEF TInv
  <1> QED  BY <1>3, <1>5, <1>6, <1>7

LEMMA TidyStatusFails == ASSUME IInv, Listed, TInv, StatusFails PROVE TInv'
  <1> DEFINE t == WithTimes(cache)
             u == WithNextBackup(cache, t)
             v == WithLastBackup(u)
  <1>1. /\ ReadsStatus /\ cache.changedAt # None
        /\ UNCHANGED <<site, fresh, clock, completed, lost>>
        /\ pc' = "save" /\ result' = Again
    BY DEF StatusFails, ReadsStatus, SaveError, Save, history
  <1>2. /\ \A w \in {t, u, v} :
              /\ w \in Status /\ w.lastBackup \in Maybe(Times)
              /\ NotAfter(w.lastBackup, completed)
              /\ fresh => NotAfter(site.status.lastBackup, w.lastBackup)
        /\ completed \in Ends => v.lastBackup = completed
    BY <1>1, TidyStatus
  <1>3. \/ /\ UNCHANGED backups
           /\ \E w \in {t, u} : copy' = [cache EXCEPT !.status = w]
        \/ /\ \E P : backups' = Claimed(P)
           /\ copy' = [cache EXCEPT !.status = u]
        \/ /\ \E D : backups' = Without(D)
           /\ touched' = TRUE /\ copy' = [cache EXCEPT !.status = v]
           /\ v.lastBackup # cache.status.lastBackup => changed'
    BY DEF StatusFails, SaveError, Save
  <1> HIDE DEF t, u, v
  <1>4. Tidying'
    BY <1>1, PlainResults DEF Tidying
  <1>5. ASSUME NEW w \in {t, u, v}, copy' = [cache EXCEPT !.status = w]
        PROVE  /\ copy'.status = w /\ w.lastBackup \in Maybe(Times)
               /\ NotAfter(w.lastBackup, completed)
               /\ fresh => NotAfter(site.status.lastBackup, w.lastBackup)
               /\ completed \in Ends => v.lastBackup = completed
    <2>1. copy'.status = w
      BY <1>2, <1>1, <1>5, StatusIsRead, SetStatus
    <2> QED  BY <1>2, <2>1
  <1>6. ASSUME NEW w \in {t, u, v}, copy' = [cache EXCEPT !.status = w],
               Ends' = Ends
        PROVE  Recording' /\ Noted'
    BY <1>1, <1>5, <1>6, TidyRead
  <1>7. CASE /\ UNCHANGED backups
             /\ \E w \in {t, u} : copy' = [cache EXCEPT !.status = w]
    <2>1. Ends' = Ends
      BY <1>7 DEF Ends
    <2> QED  BY <1>4, <1>6, <1>7, <2>1 DEF TInv
  <1>8. CASE /\ \E P : backups' = Claimed(P)
             /\ copy' = [cache EXCEPT !.status = u]
    <2>1. Ends' = Ends
      BY <1>1, <1>8, ClaimedList
    <2> QED  BY <1>4, <1>6, <1>8, <2>1 DEF TInv
  <1>9. CASE /\ \E D : backups' = Without(D)
             /\ touched' = TRUE /\ copy' = [cache EXCEPT !.status = v]
             /\ v.lastBackup # cache.status.lastBackup => changed'
    <2>1. Ends' \subseteq Ends
      BY <1>1, <1>9, DeletedList
    <2>2. /\ NotAfter(cache.status.lastBackup, site.status.lastBackup)
          /\ NotAfter(site.status.lastBackup, completed)
          /\ site.status.lastBackup \in Maybe(Times)
          /\ completed \in Maybe(Times)
      BY NotedTypes DEF TInv, Recording
    <2>3. /\ copy'.status = v /\ v.lastBackup \in Maybe(Times)
          /\ NotAfter(v.lastBackup, completed)
          /\ fresh => NotAfter(site.status.lastBackup, v.lastBackup)
          /\ completed \in Ends => v.lastBackup = completed
      BY <1>5, <1>9
    <2>4. completed \in Ends =>
            site.status.lastBackup = completed \/ changed'
      BY <1>9, <2>2, <2>3, OrderOfTimes
    <2>5. Recording' /\ Noted'
      BY <1>1, <1>9, <2>1, <2>3, <2>4, TidyRead
    <2> QED  BY <1>4, <2>5 DEF TInv
  <1> QED  BY <1>3, <1>7, <1>8, <1>9

\* The stages end, and note nothing.
LEMMA TidyStagesLeft ==
    ASSUME IInv, TInv, pc = "stages", pc' = "save",
           UNCHANGED <<clock, site, cache, fresh, current, completed>>,
           copy'.status.lastBackup = copy.status.lastBackup,
           Ends' = Ends, lost => lost',
           queued' \/ result'.again \/ UNCHANGED <<backups, queued, lost>>
    PROVE  TInv'
  <1>1. Recording'
    BY DEF TInv, Recording, NotAfter
  <1>2. Noted'
    BY DEF TInv, Noted
  <1>3. Tidying'
    <2>1. CASE queued' \/ result'.again
      BY <2>1 DEF Tidying
    <2>2. CASE UNCHANGED <<backups, queued, lost>>
      <3>1. Unowned' = Unowned /\ Final' = Final
        BY <2>2 DEF Unowned, Final
      <3>2. Tidy => Tidy'
        BY <2>2, <3>1 DEF Tidy
      <3> QED  BY <2>2, <3>2 DEF TInv, Tidying
    <2> QED  BY <2>1, <2>2
  <1> QED  BY <1>1, <1>2, <1>3 DEF TInv

LEMMA TidyStagesStop == ASSUME IInv, TInv, StagesStop PROVE TInv'
  <1> DEFINE st == ResetErrors(copy.status)
  <1>1. /\ pc = "stages" /\ pc' = "save"
        /\ UNCHANGED <<clock, site, cache, fresh, backups, queue, current,
                       completed, lost>>
    BY DEF StagesStop, Save, SaveError, history
  <1>2. copy \in Site /\ copy.status \in Status
    BY <1>1, SiteFields DEF IInv, Shape
  <1>3. st \in Status /\ st.lastBackup = copy.status.lastBackup
    BY <1>2, ResetStatus
  <1>4. PICK w : /\ copy' = [copy EXCEPT !.status = w]
                 /\ \/ \E r \in BOOLEAN : w = [st EXCEPT !.ready = r]
                    \/ w = [st EXCEPT !.state = "Failed"]
    BY DEF StagesStop, Save, SaveError
  <1> HIDE DEF st
  <1>5. w \in Status /\ w.lastBackup = st.lastBackup
    <2>1. CASE \E r \in BOOLEAN : w = [st EXCEPT !.ready = r]
      BY <1>3, <2>1, SetReady
    <2>2. CASE w = [st EXCEPT !.state = "Failed"]
      <3>1. "Failed" \in States
        BY DEF States
      <3> QED  BY <1>3, <2>2, <3>1, SetState
    <2> QED  BY <1>4, <2>1, <2>2
  <1>6. copy'.status = w
    BY <1>2, <1>4, <1>5, SetStatus
  <1>7. Ends' = Ends
    BY <1>1 DEF Ends
  <1> QED  BY <1>1, <1>3, <1>5, <1>6, <1>7, TidyStagesLeft DEF queue

\* A Backup is created, and an event follows; or nothing is.
LEMMA TidyStagesEnd == ASSUME IInv, Listed, TInv, StagesEnd PROVE TInv'
  <1> DEFINE st == ResetErrors(copy.status)
             ready == [st EXCEPT !.ready = TRUE]
             done == [st EXCEPT !.ready = TRUE, !.state = "Complete"]
             time == NextBackupTime(copy.spec, clock)
             next == [done EXCEPT !.nextBackup = time]
  <1>1. /\ pc = "stages" /\ pc' = "save"
        /\ UNCHANGED <<clock, site, cache, fresh, current, completed>>
    BY DEF StagesEnd, Save, SaveError
  <1>2. /\ copy \in Site /\ copy.status \in Status /\ clock \in Times
        /\ copy.spec \in Spec0
    BY <1>1, SiteFields DEF IInv, Shape
  <1>3. st \in Status /\ st.lastBackup = copy.status.lastBackup
    BY <1>2, ResetStatus
  <1>4. done \in Status /\ done.lastBackup = copy.status.lastBackup
    <2> HIDE DEF st
    <2>1. ready \in Status /\ ready.lastBackup = st.lastBackup
      BY <1>3, SetReady
    <2>2. done = [ready EXCEPT !.state = "Complete"] /\ "Complete" \in States
      BY DEF States
    <2> HIDE DEF ready, done
    <2> QED  BY <1>3, <2>1, <2>2, SetState
  <1>5. time \in Maybe(Nat)
    BY <1>2, NextIsLater
  <1>6. next \in Status /\ next.lastBackup = copy.status.lastBackup
    <2> HIDE DEF done, time
    <2> QED  BY <1>4, <1>5, SetNextBackup
  <1>7. /\ \/ copy' = [copy EXCEPT !.status = done]
           \/ copy' = [copy EXCEPT !.status = next]
        /\ \/ UNCHANGED <<backups, queue, lost>>
           \/ backups' = OneMore /\ Enqueue /\ lost' = (lost \/ ~current)
    BY DEF StagesEnd, Save, SaveError
  <1> HIDE DEF st, ready, done, time, next
  <1>8. copy'.status.lastBackup = copy.status.lastBackup
    BY <1>2, <1>4, <1>6, <1>7, SetStatus
  <1>9. CASE UNCHANGED <<backups, queue, lost>>
    <2>1. Ends' = Ends
      BY <1>9 DEF Ends
    <2> QED  BY <1>1, <1>8, <1>9, <2>1, TidyStagesLeft DEF queue
  <1>10. CASE backups' = OneMore /\ Enqueue /\ lost' = (lost \/ ~current)
    <2>1. Ends' = Ends
      BY <1>1, <1>10, CreatedList
    <2> QED  BY <1>1, <1>8, <1>10, <2>1, TidyStagesLeft DEF Enqueue
  <1> QED  BY <1>7, <1>9, <1>10

LEMMA TidySaveStatus == ASSUME IInv, TInv, SaveStatus PROVE TInv'
  <1> DEFINE st == SetSiteState(copy.status)
  <1>1. /\ pc = "save" /\ pc' = "idle"
        /\ UNCHANGED <<clock, cache, backups, completed>>
    BY DEF SaveStatus, Done
  <1>2. /\ copy \in Site /\ copy.status \in Status /\ site \in Site
        /\ timer = None /\ queued \in BOOLEAN /\ result \in Results
        /\ fresh \in BOOLEAN
    BY <1>1, SiteFields DEF IInv, Shape, Queueing
  <1>3. st \in Status /\ st.lastBackup = copy.status.lastBackup
    BY <1>2, SavedStatus
  <1>4. \/ /\ ~changed /\ Requeue(result)
           /\ UNCHANGED <<site, fresh, lost>>
        \/ /\ changed /\ current /\ site' = [site EXCEPT !.status = st]
           /\ fresh' = (fresh /\ site' = site)
           /\ Requeue(result) /\ UNCHANGED lost
        \/ /\ changed /\ lost' = (lost \/ touched) /\ Requeue(Again)
           /\ UNCHANGED <<site, fresh>>
    BY DEF SaveStatus
  <1> HIDE DEF st
  <1>5. Ends' = Ends /\ Unowned' = Unowned /\ Final' = Final
    BY <1>1 DEF Ends, Unowned, Final
  <1>6. CASE ~changed /\ Requeue(result) /\ UNCHANGED <<site, fresh, lost>>
    <2>1. Recording' /\ Noted'
      BY <1>1, <1>5, <1>6 DEF TInv, Recording, Noted, NotAfter
    <2>2. ~queued' => ~queued /\ ~result.again
      BY <1>2, <1>6, RequeueSets
    <2>3. Tidy => Tidy'
      BY <1>1, <1>5, <1>6 DEF Tidy
    <2>4. Tidying'
      BY <1>1, <1>6, <2>2, <2>3 DEF TInv, Tidying
    <2> QED  BY <2>1, <2>4 DEF TInv
  <1>7. CASE /\ changed /\ current /\ site' = [site EXCEPT !.status = st]
             /\ fresh' = (fresh /\ site' = site)
             /\ Requeue(result) /\ UNCHANGED lost
    <2>1. /\ site'.status.lastBackup = copy.status.lastBackup
          /\ site'.deleting = site.deleting
      BY <1>2, <1>3, <1>7, SetStatus
    <2>2. /\ NotAfter(cache.status.lastBackup, site.status.lastBackup)
          /\ NotAfter(site.status.lastBackup, copy.status.lastBackup)
          /\ NotAfter(copy.status.lastBackup, completed)
          /\ site.status.lastBackup = completed
               => copy.status.lastBackup = completed
      BY <1>1, <1>7, NotedTypes, OrderOfTimes DEF TInv, Recording
    <2>3. NotAfter(cache.status.lastBackup, copy.status.lastBackup)
      BY <1>1, <2>2, NotedTypes, OrderOfTimes DEF TInv
    <2>4. Recording'
      BY <1>1, <1>5, <2>1, <2>2, <2>3 DEF TInv, Recording, NotAfter
    <2>5. Noted'
      BY <1>1, <1>5, <1>7, <2>1, <2>2 DEF TInv, Noted
    <2>6. ~queued' => ~queued /\ ~result.again
      BY <1>2, <1>7, RequeueSets
    <2>7. Tidy => Tidy'
      BY <1>1, <1>5, <1>7, <2>1, <2>2 DEF Tidy
    <2>8. Tidying'
      BY <1>1, <1>7, <2>1, <2>6, <2>7 DEF TInv, Tidying
    <2> QED  BY <2>4, <2>5, <2>8 DEF TInv
  <1>8. CASE /\ changed /\ lost' = (lost \/ touched) /\ Requeue(Again)
             /\ UNCHANGED <<site, fresh>>
    <2>1. Recording' /\ Noted'
      BY <1>1, <1>5, <1>8 DEF TInv, Recording, Noted, NotAfter
    <2>2. queued'
      BY <1>2, <1>8, RequeueSets, PlainResults
    <2>3. Tidying'
      BY <2>2 DEF Tidying
    <2> QED  BY <2>1, <2>3 DEF TInv
  <1> QED  BY <1>4, <1>6, <1>7, <1>8

LEMMA TInvInit == Init => TInv
  <1> SUFFICES ASSUME Init PROVE TInv
    OBVIOUS
  <1>1. /\ pc = "idle" /\ queued /\ cache = site /\ completed = None
    BY DEF Init
  <1>2. site.status.lastBackup = None
    BY DEF Init, NewStatus
  <1>3. Ends = {}
    BY DEF Init, Ends, NewBackup
  <1> QED
    BY <1>1, <1>2, <1>3 DEF TInv, Recording, Noted, Tidying, NotAfter, Maybe

LEMMA TInvStep == IInv /\ Listed /\ TInv /\ [Next]_vars => TInv'
  <1> SUFFICES ASSUME IInv, Listed, TInv, [Next]_vars PROVE TInv'
    OBVIOUS
  <1> QED
    BY TidyOthers, TidyFinish, TidyAnnotate, TidyUpdateStatus, TidyStatusFails,
       TidyStagesStop, TidyStagesEnd, TidySaveStatus
    DEF Next, Reconcile

LEMMA TInvHolds == Spec => []TInv
  BY TInvInit, TInvStep, InvHolds, ListedHolds, PTL DEF Spec

-----------------------------------------------------------------------------
(* The other types. *)

LEMMA PlainInit == Init => Plain
  <1> SUFFICES ASSUME Init PROVE Plain
    OBVIOUS
  <1>1. eventsLeft \in 0..MaxEvents
    BY LifecycleAssumption DEF Init
  <1> QED  BY <1>1 DEF Init, Plain, Maybe

\* A reconcile goes on, or is about to save.
LEMMA PlainReads ==
    ASSUME IInv, Plain, ReadsStatus,
           changed' \in BOOLEAN, touched' \in BOOLEAN, pc' # "idle",
           Event \/ UNCHANGED eventsLeft
    PROVE  Plain'
  <1>1. UNCHANGED <<children, timer, exact, lost>>
    BY DEF ReadsStatus, history
  <1>2. eventsLeft' \in 0..MaxEvents
    BY LifecycleAssumption DEF Plain, Event
  <1> QED  BY <1>1, <1>2 DEF Plain

LEMMA PlainStep == IInv /\ Plain /\ [Next]_vars => Plain'
  <1> SUFFICES ASSUME IInv, Plain, [Next]_vars PROVE Plain'
    OBVIOUS
  <1>1. Event \/ UNCHANGED eventsLeft => eventsLeft' \in 0..MaxEvents
    BY LifecycleAssumption DEF Plain, Event
  <1>2. /\ None \in Maybe(Deadlines)
        /\ Enqueue \/ UNCHANGED queue => timer' \in Maybe(Deadlines)
    BY DEF Maybe, Plain, Enqueue, queue
  <1>3. CASE UNCHANGED vars \/ SyncSite \/ WakeUp \/ Tick \/ BackupByHand
             \/ ChildrenChange \/ EditSite
             \/ \E i \in DOMAIN backups : FinishBackup(i)
    <2>1. /\ children' \in {"ready", "busy", "broken"}
          /\ Event \/ UNCHANGED eventsLeft
          /\ Enqueue \/ UNCHANGED queue
          /\ UNCHANGED <<pc, copy, changed, touched, exact, lost>>
      BY <1>3 DEF SyncSite, WakeUp, Tick, BackupByHand, ChildrenChange, EditSite,
                  FinishBackup, vars, work, history, Plain
    <2> QED  BY <1>1, <1>2, <2>1 DEF Plain
  <1>4. CASE Leave \/ AppendFinalizer
    <2>1. /\ Event \/ UNCHANGED eventsLeft
          /\ UNCHANGED <<children, timer, pc, copy, changed, touched, exact, lost>>
      BY <1>4 DEF Leave, AppendFinalizer, work, queue, history
    <2> QED  BY <1>1, <2>1 DEF Plain
  <1>5. CASE DeleteSite
    <2>1. /\ UNCHANGED <<children, timer, exact, lost, eventsLeft>> /\ Done
      BY <1>5 DEF DeleteSite, queue, history
    <2> QED  BY <1>1, <2>1 DEF Plain, Done
  <1>6. CASE Crash
    <2>1. /\ UNCHANGED <<children, exact>> /\ Done /\ Enqueue
          /\ Event /\ lost' \in BOOLEAN
      BY <1>6 DEF Crash
    <2> QED  BY <1>1, <1>2, <2>1 DEF Plain, Done
  <1>7. CASE Annotate
    <2>1. changed' \in BOOLEAN /\ pc' # "idle"
      BY <1>7 DEF Annotate, SaveError, Save
    <2> QED  BY <1>7, <2>1, PlainReads DEF Annotate, Plain
  <1>8. CASE UpdateStatus
    <2>1. pc' # "idle"
      BY <1>8 DEF UpdateStatus, Save, Continue
    <2>2. changed' \in BOOLEAN
      BY <1>8 DEF UpdateStatus, Save, Continue, Plain
    <2>3. touched' \in BOOLEAN
      <3>1. touched' = touched \/ touched' = (Surplus > 0)
        BY <1>8 DEF UpdateStatus
      <3>2. CASE touched' = touched
        BY <3>2 DEF Plain
      <3>3. CASE touched' = (Surplus > 0)
        BY <3>3
      <3> QED  BY <3>1, <3>2, <3>3
    <2> QED  BY <1>8, <2>1, <2>2, <2>3, PlainReads DEF UpdateStatus
  <1>9. CASE StatusFails
    <2>1. changed' \in BOOLEAN /\ touched' \in BOOLEAN /\ pc' # "idle"
      BY <1>9 DEF StatusFails, SaveError, Save, Plain
    <2> QED  BY <1>9, <2>1, PlainReads DEF StatusFails
  <1>10. CASE StagesStop
    <2>1. /\ UNCHANGED <<children, timer, touched, exact, lost>>
          /\ pc = "stages" /\ pc' = "save"
          /\ Event \/ UNCHANGED eventsLeft
      BY <1>10 DEF StagesStop, Save, SaveError, queue, history
    <2>2. ResetErrors(copy.status).ready \in BOOLEAN
      BY <2>1, SiteFields, StatusFields, ResetStatus DEF IInv, Shape
    <2>3. changed' \in BOOLEAN
      BY <1>10, <2>2 DEF StagesStop, Save, SaveError
    <2> QED  BY <1>1, <2>1, <2>3 DEF Plain
  <1>11. CASE StagesEnd
    <2>1. /\ UNCHANGED children
          /\ Enqueue \/ UNCHANGED queue
          /\ pc = "stages" /\ pc' = "save"
          /\ Event \/ UNCHANGED eventsLeft
      BY <1>11 DEF StagesEnd, Save, SaveError
    <2>2. changed' \in BOOLEAN /\ touched' \in BOOLEAN
      BY <1>11 DEF StagesEnd, Save, SaveError, Plain
    <2>3. exact' \in BOOLEAN
      <3>1. exact' = exact \/ \E S : exact' = (clock \in S)
        BY <1>11 DEF StagesEnd
      <3>2. CASE exact' = exact
        BY <3>2 DEF Plain
      <3>3. ASSUME NEW S, exact' = (clock \in S) PROVE exact' \in BOOLEAN
        BY <3>3
      <3> QED  BY <3>1, <3>2, <3>3
    <2>4. lost' \in BOOLEAN
      BY <1>11 DEF StagesEnd, Plain
    <2> QED  BY <1>1, <1>2, <2>1, <2>2, <2>3, <2>4 DEF Plain
  <1>12. CASE SaveStatus
    <2>1. /\ UNCHANGED <<children, exact>> /\ Done /\ lost' \in BOOLEAN
          /\ Event \/ UNCHANGED eventsLeft
          /\ Requeue(result) \/ Requeue(Again)
      BY <1>12 DEF SaveStatus, Plain
    <2>2. timer = None /\ queued \in BOOLEAN /\ result \in Results
      BY <1>12 DEF SaveStatus, IInv, Shape, Queueing
    <2>3. result.at \in Maybe(Nat) /\ Again.at = None
      BY <2>2, PlainResults DEF Results, Deadlines, Again
    <2>4. timer' \in Maybe(Deadlines)
      BY <1>2, <2>1, <2>2, <2>3, RequeueSets, PlainResults DEF Deadlines
    <2> QED  BY <1>1, <2>1, <2>4 DEF Plain, Done
  <1> QED
    BY <1>3, <1>4, <1>5, <1>6, <1>7, <1>8, <1>9, <1>10, <1>11, <1>12
    DEF Next, Reconcile

LEMMA PlainHolds == Spec => []Plain
  BY PlainInit, PlainStep, InvHolds, PTL DEF Spec

-----------------------------------------------------------------------------
(* Theorems. *)

\* WakeupSet is an invariant: whatever edit, event, refused save, error or
\* restart came in between, a Complete site at rest has a wake-up for the first
\* of its times, unless it was looked at in the very instant of one.
THEOREM WakeupSetHolds == Spec => []WakeupSet
  <1>1. IInv => WakeupSet
    BY DEF IInv
  <1> QED  BY <1>1, InvHolds, PTL

\* NeverEarly holds of every step: no site is deleted or disabled before the
\* time that its spec and its last write give it, though the times are computed
\* from a cache and saved much later, and the deletion carries no version.
THEOREM NeverEarlyHolds == Spec => NeverEarly
  <1> DEFINE past(after) == after # Never /\ clock >= site.changedAt + after
             A == /\ site'.deleting /\ ~site.deleting /\ current
                       => past(site.spec.deleteAfter)
                  /\ site.status.enabled /\ ~site'.status.enabled
                        /\ site.spec.enabled
                       => past(site.spec.disableAfter)
  <1>1. IInv /\ [Next]_vars => A
    <2> SUFFICES ASSUME IInv, [Next]_vars PROVE A
      OBVIOUS
    <2>1. site \in Site /\ clock \in Times
      BY DEF IInv, Shape
    <2>2. CASE DeleteSite
      <3>1. site'.deleting /\ site'.status = site.status
        BY <2>1, <2>2, Updates, SiteFields DEF DeleteSite
      <3>2. ASSUME current PROVE past(site.spec.deleteAfter)
        <4>1. /\ copy.changedAt = site.changedAt /\ copy.spec = site.spec
              /\ copy.status.deleteAt
                    = Deadline(site.changedAt, site.spec.deleteAfter)
              /\ site.changedAt # None
              /\ copy.status.deleteAt # None /\ copy.status.deleteAt < clock
          BY <2>2, <3>2 DEF DeleteSite, DeleteDue, IInv, Copying
        <4>2. site.changedAt \in Nat /\ clock \in Nat
              /\ site.spec.deleteAfter \in Nat \cup {Never}
          BY <2>1, <4>1, SiteFields DEF Maybe, Times, Spec0
        <4> QED  BY <4>1, <4>2 DEF Deadline
      <3> QED  BY <3>1, <3>2
    <2>3. CASE SaveStatus
      <3>1. \/ UNCHANGED site
            \/ current /\ site' = [site EXCEPT !.status = SetSiteState(copy.status)]
        BY <2>3 DEF SaveStatus
      <3>2. pc = "save" /\ copy.status \in Status
        BY <2>3, SiteFields DEF SaveStatus, IInv, Shape
      <3>3. CASE current /\ site' = [site EXCEPT !.status = SetSiteState(copy.status)]
        <4>1. site'.deleting = site.deleting
              /\ site'.status.enabled = copy.status.enabled
          BY <2>1, <3>2, <3>3, SavedStatus, SetStatus DEF Agrees
        <4>2. /\ copy.changedAt = site.changedAt /\ copy.spec = site.spec
              /\ copy.status.enabled = site.status.enabled \/ Justified(copy)
          BY <3>2, <3>3 DEF IInv, Copying
        <4> QED  BY <4>1, <4>2 DEF Justified
      <3> QED  BY <3>1, <3>3
    <2> QED  BY <2>2, <2>3, SiteSteps
  <1>2. NeverEarly <=> [][A]_vars
    BY DEF NeverEarly
  <1> QED  BY <1>1, <1>2, InvHolds, PTL DEF Spec

\* OneBackupPerTime holds of every step: a scheduled Backup is never made twice
\* for a time, and no time in the window is passed over without one, unless the
\* save after a Create was lost or the copy was outdated.
THEOREM OneBackupPerTimeHolds == Spec => OneBackupPerTime
  <1> DEFINE t == site.status.nextBackup
             u == site'.status.nextBackup
             A == /\ made' # made /\ made # None /\ ~lost'
                       => copy.status.nextBackup >= made
                  /\ None \notin {t, u} /\ u # t /\ t < clock
                        /\ ~OutsideWindow(site.spec, t)
                       => made # None /\ made > t
  <1>1. IInv /\ [Next]_vars => A
    <2> SUFFICES ASSUME IInv, [Next]_vars PROVE A
      OBVIOUS
    <2>1. ASSUME made' # made, made # None, ~lost'
          PROVE  copy.status.nextBackup >= made
      <3>1. StagesEnd
        BY <2>1, BackupSteps
      <3>2. pc = "stages" /\ current /\ ~lost
        BY <2>1, <3>1 DEF StagesEnd
      <3>3. copy.status.nextBackup # None
        <4> DEFINE st == ResetErrors(copy.status)
                   ready == [st EXCEPT !.ready = TRUE]
                   done == [st EXCEPT !.ready = TRUE, !.state = "Complete"]
        <4>1. BackupDue(done)
          BY <2>1, <3>1 DEF StagesEnd
        <4>2. copy.status \in Status
          BY <3>2, SiteFields DEF IInv, Shape
        <4>3. st \in Status /\ st.nextBackup = copy.status.nextBackup
          BY <4>2, ResetStatus DEF Agrees
        <4> HIDE DEF st
        <4>4. ready \in Status /\ ready.nextBackup = st.nextBackup
          BY <4>3, SetReady
        <4>5. done = [ready EXCEPT !.state = "Complete"] /\ "Complete" \in States
          BY DEF States
        <4> HIDE DEF ready, done
        <4>6. done.nextBackup = copy.status.nextBackup
          BY <4>3, <4>4, <4>5, SetState DEF Agrees
        <4> QED  BY <4>1, <4>6 DEF BackupDue
      <3> QED
        BY <2>1, <3>2, <3>3 DEF IInv, Answering, Later, Copying, Agrees
    <2>2. ASSUME None \notin {t, u}, u # t, t < clock, ~OutsideWindow(site.spec, t)
          PROVE  made # None /\ made > t
      <3>1. site \in Site /\ clock \in Times /\ site.spec \in Spec0
        BY SiteFields DEF IInv, Shape
      <3>2. CASE DeleteSite
        <4>1. site'.status = site.status
          BY <3>1, <3>2, Updates DEF DeleteSite
        <4> QED  BY <2>2, <4>1
      <3>3. CASE SaveStatus
        <4>1. /\ pc = "save" /\ current
              /\ site' = [site EXCEPT !.status = SetSiteState(copy.status)]
          BY <2>2, <3>3 DEF SaveStatus
        <4>2. copy.status \in Status
          BY <4>1, SiteFields DEF IInv, Shape
        <4>3. u = copy.status.nextBackup
          BY <3>1, <4>1, <4>2, SavedStatus, SetStatus DEF Agrees
        <4> QED  BY <2>2, <4>1, <4>3 DEF IInv, Replacing
      <3> QED  BY <2>2, <3>2, <3>3, SiteSteps
    <2> QED  BY <2>1, <2>2
  <1>2. OneBackupPerTime <=> [][A]_vars
    BY DEF OneBackupPerTime
  <1> QED  BY <1>1, <1>2, InvHolds, PTL DEF Spec

\* RestIsTidy is an invariant, for every list of Backups and every number to
\* keep: the clean-up deletes in the order of start, not of end, and a save can
\* be refused between the deletion and the note, yet a reconciler at rest owns
\* every Backup, has no surplus, and has noted the last one that completed.
THEOREM RestIsTidyHolds == Spec => []RestIsTidy
  <1>1. IInv /\ Listed /\ TInv => RestIsTidy
    <2> SUFFICES ASSUME IInv, Listed, TInv, AtRest
                 PROVE  /\ Unowned = {} /\ Surplus = 0
                        /\ ~lost => site.status.lastBackup = completed
      BY DEF RestIsTidy
    <2>1. Tidy
      BY DEF AtRest, TInv, Tidying
    <2> QED  BY <2>1, CleanUp DEF Tidy
  <1> QED  BY <1>1, InvHolds, ListedHolds, TInvHolds, PTL

\* TypeOK is an invariant: the times stay times whatever the spec says, and the
\* list, which has no bound, stays finite.
THEOREM LifecycleTypeCorrect == Spec => []TypeOK
  <1>1. IInv /\ Listed /\ TInv /\ Plain => TypeOK
    <2> SUFFICES ASSUME IInv, Listed, TInv, Plain PROVE TypeOK
      OBVIOUS
    <2>1. /\ DOMAIN backups \subseteq Nat /\ IsFiniteSet(DOMAIN backups)
          /\ backups \in [DOMAIN backups -> Backup]
      BY ListFacts DEF Listed
    <2>2. copy \in Maybe(Site)
      BY DEF IInv, Shape, Plain, Maybe
    <2>3. completed \in Maybe(Times)
      BY DEF TInv, Recording
    <2> QED  BY <2>1, <2>2, <2>3 DEF TypeOK, IInv, Shape, Plain
  <1> QED  BY <1>1, InvHolds, ListedHolds, TInvHolds, PlainHolds, PTL

=============================================================================
