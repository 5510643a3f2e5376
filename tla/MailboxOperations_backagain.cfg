SPECIFICATION FairSpec
CONSTANTS
  m1 = m1
  m2 = m2
  m3 = m3
  l1 = l1
  l2 = l2
  l3 = l3
  d1 = d1
  d2 = d2
  Mailboxes = {m1}
  Locals = {l1, l2}
  Domains = {d1}
  Requests = {"create", "rename"}
  Reuse = TRUE
  Bypass = FALSE
  MaxOrders = 3
  Faults = {}
  None = None
  NoDir = NoDir
PROPERTY
  AvailableAgain
