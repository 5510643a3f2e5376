SPECIFICATION AdministrationSpec
CONSTANTS
  m1 = m1
  m2 = m2
  l1 = l1
  l2 = l2
  d1 = d1
  d2 = d2
  p1 = p1
  p2 = p2
  p3 = p3
  e1 = e1
  x1 = x1
  x2 = x2
  re = re
  q1 = q1
  q2 = q2
  k1 = k1
  k2 = k2
  n1 = n1
  n2 = n2
  t1 = t1
  t2 = t2
  Mailboxes = {m1, m2}
  Locals = {l1, l2}
  Domains = {d1, d2}
  Requests = {"create", "rename", "rename_domain", "delete", "delete_many"}
  Reuse = FALSE
  Bypass = FALSE
  MaxOrders = 3
  Faults = {"fs", "crash"}
  None = None
  NoDir = NoDir
  People = {p1, p2, p3}
  Places = {e1}
  Root = p1
  Given = {"SimpleUsers", "DomainAdmins", "Resellers", "SuperAdmins"}
  MaxChanges = 3
  Nobody = Nobody
  Admins = {x1, x2}
  Reseller = re
  Slots = {q1, q2}
  MaxLimit = 1
  MaxPool = 2
  Absent = Absent
  DomainRows = {k1, k2}
  DomainNames = {n1, n2}
  NoName = NoName
  MaxKeys = 3
  MaxRequests = 4
  FidoKeys = {p2, p3}
  Logins = {x1, x2}
  Sheets = {t1, t2}
  MaxSaves = 2
  LdapUsers = {p2, p3}
  Uids = {t1, t2}
  Secrets = {n1, n2}
  Hands = {x1, x2}
  MaxHands = 3
  NoUser = NoUser
  Erased = Erased
  NoLdapEntry = NoLdapEntry
  Locked = Locked
SYMMETRY Symmetry
INVARIANTS
  MailInPlace
  AccessInv
  AdminsSeeMailboxes
  PoolInv
  SettingsInv
  
PROPERTIES
  NoMailRemoved
  OwnershipPassedOn
CHECK_DEADLOCK FALSE
