SPECIFICATION DirectorySpec
CONSTANTS
  n1 = n1
  n2 = n2
  n3 = n3
  x1 = x1
  x2 = x2
  l1 = l1
  l2 = l2
  d1 = d1
  d2 = d2
  m1 = m1
  m2 = m2
  a1 = a1
  a2 = a2
  a3 = a3
  t1 = t1
  t2 = t2
  t3 = t3
  Names = {n1, n2}
  AliasNames = {x1, x2}
  Locals = {l1, l2}
  Domains = {d1, d2}
  Mailboxes = {m1, m2}
  Pks = {a1, a2, a3}
  Longer = {}
  AutoRemoval = FALSE
  Requests = {"rename_domain", "retarget", "chain"}
  MaxRecipients = 2
  None = None
  RelayRows = {d1, d2}
  TransportIds = {t1, t2, t3}
  RelayNames = {n1, n2, n3}
  Unset = Unset
  Rows = {d1, d2}
  AliasRows = {a1}
  SpamNames = {n1, n2, n3}
  PolicyIds = {t1, t2, t3}
  Short <- MCShort
  Void = Void
  UserCalendars = {a1, a2}
  Guests = {m1, m2}
  Titles = {t1, t2}
  Gone = Gone
  MaxClock = 2
  MaxRights = 4
  CalendarPks = {a1, a2}
  Uids = {a3}
  Windows = {d1, d2}
  MaxActs = 4
  Accounts = {m1, m2}
  Outside = Outside
  MaxBegun = 3
  NoAlias = NoAlias
  Upset = Upset
SYMMETRY Symmetry
INVARIANTS
  AddressesFollow
  TransportsFollow
  
  
PROPERTIES
  LeavesNoEmptyAlias
CHECK_DEADLOCK FALSE
