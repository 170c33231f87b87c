----------------------- MODULE ConfigAdmissionProofs -----------------------
(***************************************************************************)
(* Proofs about ConfigAdmission, for every set of sites, services and      *)
(* environments and any number of requests.                                *)
(***************************************************************************)
EXTENDS ConfigAdmission, TLAPS

-----------------------------------------------------------------------------
(* The inductive invariant. *)

\* Types, but for the bounds and the database objects.
Shape ==
    /\ svc \in [Services -> Maybe(Service)] /\ svcCache \in [Services -> Maybe(Service)]
    /\ envs \subseteq Envs /\ envCache \subseteq Envs
    /\ site \in [Sites -> Maybe(Site)] /\ siteCache \in [Sites -> Maybe(Site)]
    /\ flight \subseteq Requests

\* The labels the delete webhooks look for are those of the services and the
\* environments that the site names.
Labelled(s) ==
    /\ s.services = DOMAIN s.want
    /\ s.envs = {s.want[n] : n \in DOMAIN s.want} \ {Nothing}

Labels ==
    /\ \A p \in Sites : site[p] # Nothing => Labelled(site[p])
    /\ \A r \in flight : r.op = "site" => Labelled(r.new)

\* What a site names exists; a config's default exists, its name is unique.
SiteFits(s) ==
    \A n \in DOMAIN s.want : svc[n] # Nothing /\ s.want[n] \in Maybe(envs)

ServiceFits(n, c) ==
    /\ c.env \in Maybe(envs)
    /\ \A m \in Services \ {n} : svc[m] # Nothing => svc[m].short # c.short

\* Nothing names what is to be deleted.
ServiceUnused(n) ==
    \A p \in Sites : site[p] # Nothing => n \notin DOMAIN site[p].want

EnvUnused(e) ==
    /\ \A p \in Sites : site[p] # Nothing =>
          \A n \in DOMAIN site[p].want : site[p].want[n] # e
    /\ \A n \in Services : svc[n] # Nothing => svc[n].env # e

\* A request that was decided on how things still are may be stored.
Decided(r) ==
    /\ r.op = "site" => SiteFits(r.new)
    /\ r.op = "service" /\ r.new # Nothing => ServiceFits(r.key, r.new)
    /\ r.op = "service" /\ r.new = Nothing => ServiceUnused(r.key)
    /\ r.op = "env" => EnvUnused(r.key)

Decisions == \A r \in flight : r.sound => Decided(r)

IInv == Shape /\ Labels /\ Decisions /\ NamedExist

-----------------------------------------------------------------------------
(* Requests, and what they carry. *)

LEMMA RequestFields ==
    ASSUME NEW r \in Requests
    PROVE  /\ r.op \in {"site", "service", "env"} /\ r.sound \in BOOLEAN
           /\ r.op = "site" => r.key \in Sites /\ r.new \in Site
           /\ r.op = "service" => r.key \in Services /\ r.new \in Maybe(Service)
           /\ r.op = "env" => r.key \in Envs
  BY DEF Requests

LEMMA OutdatedRequest ==
    ASSUME NEW r \in Requests
    PROVE  LET q == [r EXCEPT !.sound = FALSE]
           IN  /\ q \in Requests /\ ~q.sound
               /\ q.op = r.op /\ q.key = r.key /\ q.new = r.new
  BY DEF Requests

LEMMA Wanting ==
    ASSUME NEW w \in Wants
    PROVE  /\ DOMAIN w \subseteq Services
           /\ \A n \in DOMAIN w : w[n] \in Maybe(Envs)
  BY DEF Wants

\* The site that the webhook makes of what it lets pass.
LEMMA FilledSite ==
    ASSUME Shape, NEW s \in Site, Admissible(s, svcCache, envCache)
    PROVE  /\ Filled(s) \in Site /\ Labelled(Filled(s))
           /\ \A n \in DOMAIN Filled(s).want :
                 svcCache[n] # Nothing /\ Filled(s).want[n] \in Maybe(envCache)
  <1> DEFINE L == Listed(s, svcCache)
             want == [n \in L |-> EnvOf(s, n, svcCache)]
             E == {want[n] : n \in DOMAIN want} \ {Nothing}
  <1>1. L \subseteq Services
    <2>1. s.want \in Wants
      BY DEF Site
    <2> QED  BY <2>1, Wanting DEF Listed
  <1>2. \A n \in L : svcCache[n] # Nothing /\ EnvOf(s, n, svcCache) \in Maybe(envCache)
    BY DEF Admissible
  <1>3. envCache \subseteq Envs
    BY DEF Shape
  <1>4. DOMAIN want = L /\ \A n \in L : want[n] = EnvOf(s, n, svcCache)
    OBVIOUS
  <1>5. want \in [L -> Maybe(Envs)]
    BY <1>2, <1>3 DEF Maybe
  <1>6. want \in Wants
    BY <1>1, <1>5 DEF Wants
  <1>7. E \subseteq Envs
    BY <1>2, <1>3, <1>4 DEF Maybe
  <1>8. Filled(s) = [s EXCEPT !.want = want, !.services = DOMAIN want, !.envs = E]
    BY DEF Filled
  <1> HIDE DEF want, L
  <1>9. /\ Filled(s) \in Site /\ Filled(s).want = want
        /\ Filled(s).services = DOMAIN want /\ Filled(s).envs = E
    <2>1. DOMAIN want \in SUBSET Services
      BY <1>1, <1>4
    <2> HIDE DEF E
    <2>2. PICK w : w = want
      OBVIOUS
    <2>3. PICK X : X = E
      OBVIOUS
    <2>4. PICK t : t = Filled(s)
      OBVIOUS
    <2>5. t = [s EXCEPT !.want = w, !.services = DOMAIN w, !.envs = X]
      BY <1>8, <2>2, <2>3, <2>4
    <2>6. w \in Wants /\ DOMAIN w \in SUBSET Services /\ X \in SUBSET Envs
      BY <1>6, <1>7, <2>1, <2>2, <2>3
    <2>7. t \in Site /\ t.want = w /\ t.services = DOMAIN w /\ t.envs = X
      BY <2>5, <2>6 DEF Site
    <2> QED  BY <2>2, <2>3, <2>4, <2>7
  <1> QED  BY <1>2, <1>4, <1>9 DEF Labelled

\* A webhook adds a request to those in flight.
LEMMA Passes ==
    ASSUME IInv, NEW q \in Requests, flight' = flight \cup {q},
           UNCHANGED <<stored, caches, raced>>,
           q.op = "site" => Labelled(q.new), q.sound => Decided(q)
    PROVE  IInv'
  <1>1. UNCHANGED <<svc, envs, site, svcCache, envCache, siteCache, raced>>
    BY DEF stored, caches
  <1>2. Shape'
    BY <1>1 DEF IInv, Shape
  <1>3. Labels'
    BY <1>1 DEF IInv, Labels
  <1>4. Decisions'
    <2>1. \A r \in flight' : r.sound => Decided(r)
      BY DEF IInv, Decisions
    <2> QED
      BY <1>1, <2>1
      DEF Decisions, Decided, SiteFits, ServiceFits, ServiceUnused, EnvUnused
  <1>5. NamedExist'
    BY <1>1 DEF IInv, NamedExist
  <1> QED  BY <1>2, <1>3, <1>4, <1>5 DEF IInv

\* What only the database objects and the users' requests count does not matter.
LEMMA Unaffected ==
    ASSUME IInv, UNCHANGED <<stored, caches, flight, raced>>
    PROVE  IInv'
  <1>1. UNCHANGED <<svc, envs, site, svcCache, envCache, siteCache, flight, raced>>
    BY DEF stored, caches
  <1> QED
    BY <1>1 DEF IInv, Shape, Labels, Decisions, Decided, SiteFits, ServiceFits,
                ServiceUnused, EnvUnused, NamedExist

LEMMA InvInit == Init => IInv
  <1> SUFFICES ASSUME Init PROVE IInv
    OBVIOUS
  <1>1. Shape
    BY DEF Init, Shape, Maybe
  <1>2. Labels /\ Decisions /\ NamedExist
    BY DEF Init, Labels, Decisions, NamedExist
  <1> QED  BY <1>1, <1>2 DEF IInv

-----------------------------------------------------------------------------
(* The webhooks. *)

LEMMA SitePasses ==
    ASSUME IInv, NEW p \in Sites, NEW base \in Maybe(Site), NEW s \in Site,
           Admissible(s, svcCache, envCache), Pass("site", p, base, Filled(s))
    PROVE  IInv'
  <1> DEFINE new == Filled(s)
             q == [op |-> "site", key |-> p, base |-> base, new |-> new,
                   sound |-> InSync]
  <1>1. /\ new \in Site /\ Labelled(new)
        /\ \A n \in DOMAIN new.want :
              svcCache[n] # Nothing /\ new.want[n] \in Maybe(envCache)
    BY FilledSite DEF IInv
  <1>2. flight' = flight \cup {q} /\ UNCHANGED <<stored, caches, raced>>
    BY DEF Pass
  <1>3. InSync \in BOOLEAN
    BY DEF InSync
  <1> HIDE DEF new
  <1>4. /\ q.op = "site" /\ q.new = new /\ (q.sound <=> InSync)
    BY <1>3
  <1>5. q \in Requests
    BY <1>1, <1>3 DEF Requests
  <1>6. InSync => SiteFits(new)
    BY <1>1 DEF InSync, stored, SiteFits
  <1> HIDE DEF q
  <1>7. q.sound => Decided(q)
    BY <1>4, <1>6 DEF Decided
  <1> QED  BY <1>1, <1>2, <1>4, <1>5, <1>7, Passes

LEMMA WriteSiteStep ==
    ASSUME IInv, NEW p \in Sites, NEW spec \in SiteSpecs, WriteSite(p, spec)
    PROVE  IInv'
  <1> DEFINE old == site[p]
             s == [all |-> spec.all, want |-> spec.want, services |-> {},
                   envs |-> {}, finalizer |-> old # Nothing /\ old.finalizer,
                   deleting |-> old # Nothing /\ old.deleting]
  <1>1. old \in Maybe(Site)
    BY DEF IInv, Shape
  <1>2. spec.all \in BOOLEAN /\ spec.want \in Wants
    BY SpecsAssumption DEF SiteSpec
  <1>3. /\ (old # Nothing /\ old.finalizer) \in BOOLEAN
        /\ (old # Nothing /\ old.deleting) \in BOOLEAN
    OBVIOUS
  <1>4. s \in Site
    BY <1>2, <1>3 DEF Site
  <1>5. Admissible(s, svcCache, envCache) /\ Pass("site", p, old, Filled(s))
    BY DEF WriteSite
  <1> HIDE DEF old, s
  <1> QED  BY <1>1, <1>4, <1>5, SitePasses

LEMMA UpdateFinalizerStep ==
    ASSUME IInv, NEW p \in Sites, UpdateFinalizer(p)
    PROVE  IInv'
  <1> DEFINE s == siteCache[p]
             t == [s EXCEPT !.finalizer = ~@]
  <1>1. s \in Site
    BY DEF UpdateFinalizer, IInv, Shape, Maybe
  <1>2. Admissible(s, svcCache, envCache) /\ Pass("site", p, s, Filled(t))
    BY DEF UpdateFinalizer
  <1> HIDE DEF s
  <1>3. t \in Site /\ t.want = s.want /\ t.all = s.all
    BY <1>1 DEF Site
  <1>4. s \in Maybe(Site)
    BY <1>1 DEF Maybe
  <1> HIDE DEF t
  <1>5. Admissible(t, svcCache, envCache)
    BY <1>2, <1>3 DEF Admissible, Listed, EnvOf
  <1> QED  BY <1>2, <1>3, <1>4, <1>5, SitePasses DEF t

LEMMA ServicePasses ==
    ASSUME IInv, NEW n \in Services, NEW new \in Maybe(Service),
           Pass("service", n, svc[n], new),
           InSync /\ new # Nothing => ServiceFits(n, new),
           InSync /\ new = Nothing => ServiceUnused(n)
    PROVE  IInv'
  <1> DEFINE q == [op |-> "service", key |-> n, base |-> svc[n], new |-> new,
                   sound |-> InSync]
  <1>1. flight' = flight \cup {q} /\ UNCHANGED <<stored, caches, raced>>
    BY DEF Pass
  <1>2. InSync \in BOOLEAN /\ svc[n] \in Maybe(Service)
    BY DEF InSync, IInv, Shape
  <1>3. /\ q.op = "service" /\ q.new = new /\ q.key = n /\ (q.sound <=> InSync)
    BY <1>2
  <1>4. q \in Requests
    BY <1>2 DEF Requests
  <1> HIDE DEF q
  <1>5. q.sound => Decided(q)
    BY <1>3 DEF Decided
  <1> QED  BY <1>1, <1>3, <1>4, <1>5, Passes

LEMMA ServiceStep ==
    ASSUME IInv, NEW n \in Services,
           DropService(n) \/ \E spec \in ServiceSpecs : WriteService(n, spec)
    PROVE  IInv'
  <1>1. CASE DropService(n)
    <2>1. InSync => ServiceUnused(n)
      <3> SUFFICES ASSUME InSync, NEW p \in Sites, site[p] # Nothing
                   PROVE  n \notin DOMAIN site[p].want
        BY DEF ServiceUnused
      <3>1. siteCache = site
        BY DEF InSync, stored
      <3>2. Labelled(site[p])
        BY DEF IInv, Labels
      <3> QED  BY <1>1, <3>1, <3>2 DEF DropService, Labelled
    <2>2. Nothing \in Maybe(Service)
      BY DEF Maybe
    <2>3. Pass("service", n, svc[n], Nothing)
      BY <1>1 DEF DropService
    <2> QED  BY <2>1, <2>2, <2>3, ServicePasses
  <1>2. ASSUME NEW spec \in ServiceSpecs, WriteService(n, spec) PROVE IInv'
    <2>1. spec \in Service
      BY SpecsAssumption
    <2>2. InSync => ServiceFits(n, spec)
      BY <1>2 DEF WriteService, InSync, stored, ServiceFits, Named
    <2>3. spec \in Maybe(Service) /\ spec # Nothing
      BY <2>1, NothingAssumption DEF Maybe
    <2>4. Pass("service", n, svc[n], spec)
      BY <1>2 DEF WriteService
    <2> QED  BY <2>2, <2>3, <2>4, ServicePasses
  <1> QED  BY <1>1, <1>2

LEMMA DropEnvStep ==
    ASSUME IInv, NEW e \in Envs, DropEnv(e)
    PROVE  IInv'
  <1> DEFINE q == [op |-> "env", key |-> e, base |-> TRUE, new |-> FALSE,
                   sound |-> InSync]
  <1>1. flight' = flight \cup {q} /\ UNCHANGED <<stored, caches, raced>>
    BY DEF DropEnv, Pass
  <1>2. InSync \in BOOLEAN
    BY DEF InSync
  <1>3. q.op = "env" /\ q.key = e /\ (q.sound <=> InSync)
    BY <1>2
  <1>4. q \in Requests
    BY <1>2 DEF Requests
  <1>5. InSync => EnvUnused(e)
    <2> SUFFICES ASSUME InSync PROVE EnvUnused(e)
      OBVIOUS
    <2>1. siteCache = site /\ svcCache = svc
      BY DEF InSync, stored
    <2>2. ASSUME NEW p \in Sites, site[p] # Nothing, NEW n \in DOMAIN site[p].want
          PROVE  site[p].want[n] # e
      <3>1. Labelled(site[p]) /\ e \notin site[p].envs
        BY <2>1, <2>2 DEF DropEnv, IInv, Labels
      <3>2. e # Nothing
        BY NothingAssumption
      <3> QED  BY <3>1, <3>2 DEF Labelled
    <2> QED  BY <2>1, <2>2 DEF EnvUnused, DropEnv
  <1> HIDE DEF q
  <1>6. q.sound => Decided(q)
    BY <1>3, <1>5 DEF Decided
  <1> QED  BY <1>1, <1>3, <1>4, <1>6, Passes

-----------------------------------------------------------------------------
(* The API server. *)

\* A write outdates the decisions on all requests that are in flight.
LEMMA Outdates ==
    ASSUME IInv, NEW R \in SUBSET flight, flight' = Outdated(R)
    PROVE  /\ flight' \subseteq Requests
           /\ \A r \in flight' : ~r.sound /\ (r.op = "site" => Labelled(r.new))
  <1> SUFFICES ASSUME NEW r \in flight'
               PROVE  /\ r \in Requests /\ ~r.sound
                      /\ r.op = "site" => Labelled(r.new)
    OBVIOUS
  <1>1. PICK q \in R : r = [q EXCEPT !.sound = FALSE]
    BY DEF Outdated
  <1>2. q \in Requests /\ (q.op = "site" => Labelled(q.new))
    BY DEF IInv, Shape, Labels
  <1> QED  BY <1>1, <1>2, OutdatedRequest

\* A site that has got its deletion timestamp, or is gone, names what it named.
LEMMA KeptSite ==
    ASSUME NEW s \in Site
    PROVE  /\ Kept(s) \in Maybe(Site)
           /\ Kept(s) # Nothing => Kept(s) = s
  BY DEF Kept, Maybe

LEMMA StoreSite ==
    ASSUME IInv, NEW r \in flight, r.op = "site",
           site' = [site EXCEPT ![r.key] = Kept(r.new)], UNCHANGED <<svc, envs>>,
           raced' = (raced \/ ~r.sound)
    PROVE  /\ site' \in [Sites -> Maybe(Site)]
           /\ \A p \in Sites : site'[p] # Nothing => Labelled(site'[p])
           /\ NamedExist'
  <1>1. r \in Requests /\ r.key \in Sites /\ r.new \in Site /\ Labelled(r.new)
    BY RequestFields DEF IInv, Shape, Labels
  <1>2. Kept(r.new) \in Maybe(Site) /\ (Kept(r.new) # Nothing => Kept(r.new) = r.new)
    BY <1>1, KeptSite
  <1>3. site' \in [Sites -> Maybe(Site)]
    BY <1>2 DEF IInv, Shape
  <1>4. \A p \in Sites : site'[p] # Nothing =>
            \/ site'[p] = site[p]
            \/ p = r.key /\ site'[p] = r.new
    BY <1>1, <1>2 DEF IInv, Shape
  <1>5. \A p \in Sites : site'[p] # Nothing => Labelled(site'[p])
    BY <1>1, <1>4 DEF IInv, Labels
  <1>6. NamedExist'
    <2> SUFFICES ASSUME ~raced' PROVE NamedExist'
      BY DEF NamedExist
    <2>1. ~raced /\ SiteFits(r.new)
      BY DEF IInv, Decisions, Decided
    <2>2. ASSUME NEW p \in Sites, site'[p] # Nothing, NEW n \in DOMAIN site'[p].want
          PROVE  svc'[n] # Nothing /\ site'[p].want[n] \in Maybe(envs')
      BY <1>4, <2>1, <2>2 DEF IInv, NamedExist, SiteFits
    <2>3. ASSUME NEW n \in Services, svc'[n] # Nothing
          PROVE  /\ svc'[n].env \in Maybe(envs')
                 /\ \A m \in Services \ {n} :
                       svc'[m] # Nothing => svc'[m].short # svc'[n].short
      BY <2>1, <2>3 DEF IInv, NamedExist
    <2> QED  BY <2>2, <2>3 DEF NamedExist
  <1> QED  BY <1>3, <1>5, <1>6

LEMMA StoreService ==
    ASSUME IInv, NEW r \in flight, r.op = "service",
           svc' = [svc EXCEPT ![r.key] = r.new], UNCHANGED <<site, envs>>,
           raced' = (raced \/ ~r.sound)
    PROVE  svc' \in [Services -> Maybe(Service)] /\ NamedExist'
  <1>1. r.key \in Services /\ r.new \in Maybe(Service)
    BY RequestFields DEF IInv, Shape
  <1>2. svc' \in [Services -> Maybe(Service)]
    BY <1>1 DEF IInv, Shape
  <1>3. /\ svc'[r.key] = r.new
        /\ \A n \in Services \ {r.key} : svc'[n] = svc[n]
    BY <1>1 DEF IInv, Shape
  <1>4. NamedExist'
    <2> SUFFICES ASSUME ~raced' PROVE NamedExist'
      BY DEF NamedExist
    <2>1. /\ ~raced
          /\ r.new # Nothing => ServiceFits(r.key, r.new)
          /\ r.new = Nothing => ServiceUnused(r.key)
      BY DEF IInv, Decisions, Decided
    <2>2. ASSUME NEW p \in Sites, site'[p] # Nothing, NEW n \in DOMAIN site'[p].want
          PROVE  svc'[n] # Nothing /\ site'[p].want[n] \in Maybe(envs')
      <3>1. svc[n] # Nothing /\ site[p].want[n] \in Maybe(envs)
        BY <2>1, <2>2 DEF IInv, NamedExist
      <3>2. n \in Services
        <4>1. site[p] \in Site /\ site[p].want \in Wants
          BY <2>2 DEF IInv, Shape, Maybe, Site
        <4> QED  BY <2>2, <4>1, Wanting
      <3> QED  BY <1>3, <2>1, <2>2, <3>1, <3>2 DEF ServiceUnused
    <2>3. ASSUME NEW n \in Services, svc'[n] # Nothing
          PROVE  /\ svc'[n].env \in Maybe(envs')
                 /\ \A m \in Services \ {n} :
                       svc'[m] # Nothing => svc'[m].short # svc'[n].short
      <3>1. CASE n = r.key
        BY <1>3, <2>1, <2>3, <3>1 DEF ServiceFits
      <3>2. CASE n # r.key
        BY <1>3, <2>1, <2>3, <3>2 DEF ServiceFits, IInv, NamedExist
      <3> QED  BY <3>1, <3>2
    <2> QED  BY <2>2, <2>3 DEF NamedExist
  <1> QED  BY <1>2, <1>4

LEMMA StoreEnv ==
    ASSUME IInv, NEW r \in flight, r.op = "env", envs' = envs \ {r.key},
           UNCHANGED <<site, svc>>, raced' = (raced \/ ~r.sound)
    PROVE  NamedExist'
  <1> SUFFICES ASSUME ~raced' PROVE NamedExist'
    BY DEF NamedExist
  <1>1. ~raced /\ EnvUnused(r.key)
    BY DEF IInv, Decisions, Decided
  <1> QED  BY <1>1 DEF IInv, NamedExist, EnvUnused, Maybe

LEMMA StoreStep ==
    ASSUME IInv, NEW r \in flight, Store(r)
    PROVE  IInv'
  <1>1. /\ site' = IF r.op = "site" THEN [site EXCEPT ![r.key] = Kept(r.new)]
                   ELSE site
        /\ svc' = IF r.op = "service" THEN [svc EXCEPT ![r.key] = r.new] ELSE svc
        /\ envs' = IF r.op = "env" THEN envs \ {r.key} ELSE envs
        /\ flight' = IF stored' = stored THEN flight \ {r}
                     ELSE Outdated(flight \ {r})
        /\ raced' = (raced \/ ~r.sound)
        /\ UNCHANGED <<svcCache, envCache, siteCache>>
    BY DEF Store, caches
  <1>2. r.op \in {"site", "service", "env"}
    BY RequestFields DEF IInv, Shape
  <1>3. /\ site' \in [Sites -> Maybe(Site)] /\ svc' \in [Services -> Maybe(Service)]
        /\ envs' \subseteq Envs
        /\ \A p \in Sites : site'[p] # Nothing => Labelled(site'[p])
        /\ NamedExist'
    <2>1. CASE r.op = "site"
      BY <1>1, <2>1, StoreSite DEF IInv, Shape
    <2>2. CASE r.op = "service"
      BY <1>1, <2>2, StoreService DEF IInv, Shape, Labels
    <2>3. CASE r.op = "env"
      BY <1>1, <2>3, StoreEnv DEF IInv, Shape, Labels
    <2> QED  BY <1>2, <2>1, <2>2, <2>3
  <1>4. flight' \subseteq Requests
        /\ (\A q \in flight' : q.op = "site" => Labelled(q.new)) /\ Decisions'
    <2>1. CASE stored' = stored
      <3>1. flight' = flight \ {r} /\ UNCHANGED <<site, svc, envs>>
        BY <1>1, <2>1 DEF stored
      <3> QED
        BY <3>1 DEF IInv, Shape, Labels, Decisions, Decided, SiteFits,
                    ServiceFits, ServiceUnused, EnvUnused
    <2>2. CASE stored' # stored
      <3>1. flight' = Outdated(flight \ {r})
        BY <1>1, <2>2
      <3> QED  BY <3>1, Outdates DEF Decisions
    <2> QED  BY <2>1, <2>2
  <1> QED  BY <1>1, <1>3, <1>4 DEF IInv, Shape, Labels

LEMMA RefuseStep ==
    ASSUME IInv, NEW r \in flight, Refuse(r)
    PROVE  IInv'
  <1>1. flight' = flight \ {r}
        /\ UNCHANGED <<svc, envs, site, svcCache, envCache, siteCache, raced>>
    BY DEF Refuse, stored, caches
  <1> QED
    BY <1>1 DEF IInv, Shape, Labels, Decisions, Decided, SiteFits, ServiceFits,
                ServiceUnused, EnvUnused, NamedExist

LEMMA CreateEnvStep ==
    ASSUME IInv, NEW e \in Envs, CreateEnv(e)
    PROVE  IInv'
  <1>1. /\ envs' = envs \cup {e} /\ flight' = Outdated(flight)
        /\ UNCHANGED <<svc, site, svcCache, envCache, siteCache, raced>>
    BY DEF CreateEnv, caches
  <1>2. Shape' /\ Labels' /\ Decisions'
    BY <1>1, Outdates DEF IInv, Shape, Labels, Decisions
  <1>3. NamedExist'
    BY <1>1 DEF IInv, NamedExist, Maybe
  <1> QED  BY <1>2, <1>3 DEF IInv

LEMMA DeleteSiteStep ==
    ASSUME IInv, NEW p \in Sites, DeleteSite(p)
    PROVE  IInv'
  <1> DEFINE s == [site[p] EXCEPT !.deleting = TRUE]
  <1>1. /\ site[p] # Nothing /\ site' = [site EXCEPT ![p] = Kept(s)]
        /\ flight' = Outdated(flight)
        /\ UNCHANGED <<svc, envs, svcCache, envCache, siteCache, raced>>
    BY DEF DeleteSite, caches, IInv, Shape
  <1>2. site[p] \in Site
    BY <1>1 DEF IInv, Shape, Maybe
  <1>3. /\ s \in Site /\ s.want = site[p].want /\ s.services = site[p].services
        /\ s.envs = site[p].envs
    BY <1>2 DEF Site
  <1> HIDE DEF s
  <1>4. Kept(s) \in Maybe(Site) /\ (Kept(s) # Nothing => Kept(s) = s)
    BY <1>3, KeptSite
  <1>5. site' \in [Sites -> Maybe(Site)]
    BY <1>1, <1>4 DEF IInv, Shape
  <1>6. \A q \in Sites : site'[q] # Nothing =>
            /\ site[q] # Nothing /\ site'[q].want = site[q].want
            /\ site'[q].services = site[q].services /\ site'[q].envs = site[q].envs
    BY <1>1, <1>3, <1>4 DEF IInv, Shape
  <1>7. Shape' /\ Decisions'
    BY <1>1, <1>5, Outdates DEF IInv, Shape, Decisions
  <1>8. Labels'
    <2>1. \A q \in Sites : site'[q] # Nothing => Labelled(site'[q])
      BY <1>6 DEF IInv, Labels, Labelled
    <2> QED  BY <1>1, <2>1, Outdates DEF Labels
  <1>9. NamedExist'
    BY <1>1, <1>6 DEF IInv, NamedExist
  <1> QED  BY <1>7, <1>8, <1>9 DEF IInv

LEMMA SyncStep == IInv /\ (SyncServices \/ SyncEnvs \/ SyncSites) => IInv'
  <1> SUFFICES ASSUME IInv, SyncServices \/ SyncEnvs \/ SyncSites PROVE IInv'
    OBVIOUS
  <1>1. /\ UNCHANGED <<svc, envs, site, flight, raced>>
        /\ svcCache' \in {svc, svcCache} /\ envCache' \in {envs, envCache}
        /\ siteCache' \in {site, siteCache}
    BY DEF SyncServices, SyncEnvs, SyncSites, stored
  <1>2. Shape'
    BY <1>1 DEF IInv, Shape
  <1>3. Labels' /\ Decisions' /\ NamedExist'
    BY <1>1 DEF IInv, Labels, Decisions, Decided, SiteFits, ServiceFits,
                ServiceUnused, EnvUnused, NamedExist
  <1> QED  BY <1>2, <1>3 DEF IInv

LEMMA InvStep == IInv /\ [Next]_vars => IInv'
  <1> SUFFICES ASSUME IInv, [Next]_vars PROVE IInv'
    OBVIOUS
  <1>1. CASE UNCHANGED vars
    BY <1>1, Unaffected DEF vars
  <1>2. ASSUME NEW p \in Sites, NEW n \in Services,
               EnsureDatabase(p, n) \/ Collect(p, n) \/ ReconcileDatabase(p, n)
        PROVE  IInv'
    BY <1>2, Unaffected DEF EnsureDatabase, Collect, ReconcileDatabase
  <1>3. ASSUME NEW p \in Sites,
               (\E s \in SiteSpecs : WriteSite(p, s)) \/ DeleteSite(p) \/ Operator(p)
        PROVE  IInv'
    BY <1>2, <1>3, WriteSiteStep, DeleteSiteStep, UpdateFinalizerStep DEF Operator
  <1>4. CASE ApiServer
    BY <1>4, StoreStep, RefuseStep DEF ApiServer
  <1> QED
    BY <1>1, <1>3, <1>4, ServiceStep, DropEnvStep, CreateEnvStep, SyncStep
    DEF Next

\* NamedExist is an invariant: as long as no request is stored that was decided
\* on an outdated view, the webhooks together let nothing be named that does not
\* exist and no two configs share a short name, though each looks at its own
\* kind of object only and the deletes at labels instead of specs.
THEOREM NamedExistHolds == Spec => []NamedExist
  <1>1. IInv => NamedExist
    BY DEF IInv
  <1> QED  BY <1>1, InvInit, InvStep, PTL DEF Spec
=============================================================================
