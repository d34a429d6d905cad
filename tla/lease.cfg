SPECIFICATION TSpec
CONSTANTS
  d1 = d1
  d2 = d2
  i1 = i1
  i2 = i2
  i3 = i3
  s1 = s1
  s2 = s2
  s3 = s3
  Device = {d1, d2}
  Controllers = {d1, d2}
  LeaseId = {i1, i2}
  NoLease = NoLease
  NoSession = NoSession
  Session = {s1, s2}
  Duration = 2
  MaxTime = 2
  MaxRevision = 2
  MaxCommands = 1
CHECK_DEADLOCK FALSE
INVARIANTS TTypeOK LockingDiscipline RevisionsUnique CommandsFenced
PROPERTIES EveryTransactionEnds CommandsUnderCurrentLease RevokedDeviceGainsNothing ImplementsControlLease
