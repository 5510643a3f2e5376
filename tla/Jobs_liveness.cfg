SPECIFICATION JobsSpec
CONSTANTS
  m1 = m1
  m2 = m2
  l1 = l1
  l2 = l2
  l3 = l3
  d1 = d1
  Mailboxes = {m1, m2}
  Locals = {l1, l2, l3}
  Domains = {d1}
  Requests = {"create", "rename", "delete"}
  Reuse = FALSE
  Bypass = FALSE
  MaxOrders = 3
  Faults = {}
  None = None
  NoDir = NoDir
  s1 = s1
  s2 = s2
  w1 = w1
  q1 = q1
  Messages = {s1, s2}
  Workers = {w1}
  Clients = {q1}
  MaxTime = 3
  MaxUid = 1
  Null = Null
  MessageRequests = {"cancel"}
  Overlap = TRUE
  MessageFaults = {"refused", "doveadm", "imap", "request"}
PROPERTIES
  ImplementsOutbox
  AvailableAgain
  DueHandled
CHECK_DEADLOCK FALSE
