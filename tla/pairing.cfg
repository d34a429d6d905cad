SPECIFICATION Spec
CONSTANTS
  p1 = p1
  o1 = o1
  o2 = o2
  Pairing = {p1}
  Owner = {o1, o2}
  PairingLife = 2
  ConfirmLife = 1
  CacheLife = 1
  AccessLife = 1
  FamilyLife = 2
  RateWindow = 2
  MaxBegins = 1
  MaxTime = 2
  MaxCalls = 3
  Caller = {p1}
CHECK_DEADLOCK FALSE
SYMMETRY Interchangeable
INVARIANTS PairingTypeOK RowsAgree ReplayOnlyAfterLoss
PROPERTIES AnswersCurrent RotatedInExchange ImplementsDeviceAccess
