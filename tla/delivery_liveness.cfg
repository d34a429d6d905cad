SPECIFICATION FairDelivery
CONSTANTS
  d1 = d1
  r1 = r1
  r2 = r2
  k1 = k1
  k2 = k2
  k3 = k3
  a1 = a1
  NoRow = NoRow
  NoSession = NoSession
  Nobody = Nobody
  NoItem = NoItem
  NoEventId = NoEventId
  NoRun = NoRun
  Scopes <- AllScopes
  NodeEvent <- ConnectorEvent
  Device = {d1}
  Request = {r1}
  Key = {k1}
  Session = {}
  Approval = {}
  Clarification = {}
  MaxConnections = 3
  MaxEvents = 8
  MaxNative = 1
  MaxJournal = 1
  MaxRestarts = 1
  Resumes = TRUE
  MaxResumes = 1
CHECK_DEADLOCK FALSE
INVARIANTS ReceiptsMatchJournal EventsRetained
PROPERTIES JournalDrains DispatchesAnswered
