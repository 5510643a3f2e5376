SPECIFICATION MLSpec
CONSTANTS
  c1 = c1
  w1 = w1
  w2 = w2
  d1 = d1
  d2 = d2
  u1 = u1
  u2 = u2
  p1 = p1
  p2 = p2
  p3 = p3
  p4 = p4
  None = None
  NoRow = NoRow
  Conns = {}
  Workers = {w1}
  Domains = {d1, d2}
  Accounts = {u1, u2}
  Managed = {d1, d2, u1, u2}
  Pks = {p1, p2, p3, p4}
  DomainOf <- MCDomainOf
  LocalOf <- MCLocalOf
  Limits = {1}
  WebOps = {"rename"}
  MaxCount = 1
  MaxTasks = 1
  Faults = {"redis", "restart"}
INVARIANTS
  CountersInStep
