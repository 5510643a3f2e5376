SPECIFICATION MessagesSpec
CONSTANTS
  m1 = m1
  m2 = m2
  w1 = w1
  q1 = q1
  f1 = f1
  f2 = f2
  f3 = f3
  b1 = b1
  b2 = b2
  d1 = d1
  i1 = i1
  i2 = i2
  r1 = r1
  t1 = t1
  t2 = t2
  u1 = u1
  u2 = u2
  s1 = s1
  s2 = s2
  g1 = g1
  a1 = a1
  a2 = a2
  Messages = {m1, m2}
  Workers = {w1}
  Clients = {q1}
  MaxTime = 2
  MaxUid = 2
  Null = Null
  MessageRequests = {"reschedule", "cancel"}
  Overlap = FALSE
  MessageFaults = {"refused", "connection", "doveadm", "crash"}
  Files = {f1, f2, f3}
  Browsers = {b1, b2}
  MaxSends = 2
  QueueIds = {i1, i2}
  LocalNames = {d1}
  Elsewhere = Elsewhere
  MinuteLength = 1
  MaxSeconds = 2
  MaxLines = 4
  MaxRuns = 3
  MaxFiles = 2
  Mails = {r1}
  Recipients = {b1, b2}
  Admin = Admin
  Tabs = {t1, t2}
  MaxAsks = 2
  Owners = {u1, u2}
  Manager = u2
  ScriptNames = {s1, s2}
  DefaultScript = s1
  Filters = {f1}
  Reply = Reply
  Editors = {b1, b2}
  Missing = Missing
  MaxEdits = 3
  Letters = {g1}
  Inbox = f1
  Drafts = f2
  Trash = f3
  Folders = {f1, f2, f3}
  Hands = {b1, b2}
  MaxCopy = 3
  MaxSaves = 2
  Reports = {a1, a2}
  Senders = {t1, t2}
  Importers = {b1, b2}
  ReportMails <- MCReports
  Period <- MCPeriod
  MaxInbox = 1
  MaxImports = 2
  Garbled = Garbled
  Hollow = Hollow
  Unstored = Unstored
SYMMETRY Symmetry
INVARIANTS
  OneMessage
  SessionExact
  RecordsExact
  QuarantineInv
  SieveInv
  FoldersInv
PROPERTIES
  NothingVanishes
  
CHECK_DEADLOCK FALSE
