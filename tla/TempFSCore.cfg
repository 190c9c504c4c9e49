SPECIFICATION FairSpec
CONSTANTS
  f1 = f1  f2 = f2  f3 = f3  u1 = u1  u2 = u2
  Files = {f1, f2}
  Users = {u1, u2}
  Anonymous = anonymous
  OwnerOf <- MCOwnerOf
  Admins = {u2}
  Permission <- MCPermission
  NoFile = NoFile
  Requests = {d1}
  Readers = {r1}
  Scheduler = Scheduler
  TotalQuota = 3
  UserQuota = 2
  MaxFile = 2
  MaxUploads = 1
  FaultKinds = {"unlink", "db", "log", "crash"}
  MaxFaults = 1
INVARIANTS RowDescribesBytes ReaderDecodesWhatItOpens NoBytesLeaked ArchivedIsGone
  RowLosesFileByFault QuotasHeld
PROPERTIES LedgerExact DueIsRetired
CHECK_DEADLOCK FALSE
