SPECIFICATION RemoteSpec
CONSTANTS
  c1 = c1
  c2 = c2
  x1 = x1
  x2 = x2
  p1 = p1
  t1 = t1
  l1 = l1
  l2 = l2
  Cards = {c1, c2}
  MaxClock = 4
  MaxFails = 1
  Mxs = {x1, x2}
  Providers = {p1}
  Types = {t1}
  Trusted <- MCTrusted
  Ttl = 2
  MaxTouches = 3
  Absent = Absent
  Letters = {1, 2}
  Places = {l1, l2}
  Start = l1
  Bin = l2
  PerPage = 1
  MaxOpen = 2
  MaxSteps = 5
  Nothing = Nothing
INVARIANTS
  
  ViewsInv
PROPERTIES
  
  
  ViewsCatchUp
CHECK_DEADLOCK FALSE
