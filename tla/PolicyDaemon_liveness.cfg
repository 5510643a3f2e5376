SPECIFICATION FairSpec
CONSTANTS
  c1 = c1
  c2 = c2
  dom = dom
  user = user
  Conns = {c1, c2}
  Domains = {dom}
  Accounts = {user}
  DomainOf <- MCDomainOf
  Limits = {1, 2}
  None = None
  NoRow = NoRow
  MaxTasks = 1
  Faults = {}
PROPERTIES
  RequestsEnd
  ExhaustionReported
  ImplementsFairBudget
