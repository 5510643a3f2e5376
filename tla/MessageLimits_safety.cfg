SPECIFICATION MLSpec
CONSTANTS
  c1 = c1
  w1 = w1
  w2 = w2
  d1 = d1
  d2 = d2
  u1 = u1
  u2 = u2
  p1 = p1
  p2 = p2
  p3 = p3
  p4 = p4
  None = None
  NoRow = NoRow
  Conns = {c1}
  Workers = {w1, w2}
  Domains = {d1}
  Accounts = {u1}
  Managed = {d1}
  Pks = {p1, p2}
  DomainOf <- MCDomainOf
  LocalOf <- MCLocalOf
  Limits = {1, 2}
  WebOps = {"delete", "resave", "rollback"}
  MaxCount = 2
  MaxTasks = 1
  Faults = {}
SYMMETRY Symmetry
INVARIANTS
  LimitsInv
