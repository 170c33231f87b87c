SPECIFICATION FairSpec
CONSTANTS
  a = a
  b = b
  u = u
  v = v
  d = d
  e = e
  x = x
  y = y
  Nothing = Nothing
  Objs = {a, b}
  Users = {u, v}
  Dbs = {d, e}
  Passwords = {x, y}
  Specs <- SiteSpecs
  MaxEdits = 3
  MaxFaults = 2
INVARIANTS RestMeansUsable GoneMeansClean
PROPERTIES KeepsInUse Settles
CHECK_DEADLOCK FALSE
