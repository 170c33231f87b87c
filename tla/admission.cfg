SPECIFICATION FairSpec
CONSTANTS
  p = p
  a = a
  b = b
  e1 = e1
  e2 = e2
  k = k
  l = l
  Nothing = Nothing
  Sites = {p}
  Services = {a, b}
  Envs = {e1, e2}
  ShortNames = {k, l}
  SiteSpecs <- UserSites
  ServiceSpecs <- UserServices
  MaxRequests = 5
  MaxInFlight = 2
INVARIANTS NamedExist
PROPERTIES DeletedSitesGo DatabasesGo
CHECK_DEADLOCK FALSE
