SPECIFICATION MLFairSpec
CONSTANTS
  c1 = c1
  w1 = w1
  w2 = w2
  d1 = d1
  d2 = d2
  u1 = u1
  u2 = u2
  p1 = p1
  p2 = p2
  p3 = p3
  p4 = p4
  Conns = {c1}
  Workers = {w1}
  Domains = {d1}
  Accounts = {u1}
  Managed = {d1}
  Pks = {p1, p2}
  DomainOf <- MCDomainOf
  LocalOf <- MCLocalOf
  Limits = {1, 2}
  WebOps = {"create", "resave"}
  MaxCount = 4
  MaxTasks = 1
  Faults = {}
  None = None
  NoRow = NoRow
INVARIANT
  SentMessagesIsACount
