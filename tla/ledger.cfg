SPECIFICATION Spec
CONSTANTS
  d1 = d1
  r1 = r1
  r2 = r2
  k1 = k1
  k2 = k2
  a1 = a1
  q1 = q1
  n1 = n1
  Device = {d1}
  Request = {r1, r2}
  Key = {k1, k2}
  Session = {n1}
  Approval = {a1}
  Clarification = {q1}
  Scopes <- DeviceScopes
  NodeEvent <- MixedEvents
  NoRow = NoRow
  NoSession = NoSession
  Nobody = Nobody
  NoItem = NoItem
  NoEventId = NoEventId
  MaxConnections = 2
  MaxEvents = 4
  MaxSource = 2
CHECK_DEADLOCK FALSE
SYMMETRY Interchangeable
INVARIANTS TypeOK OneTerminalEvent OpenRequestsRoutable DecisionsDispatched AcknowledgementsAgree
PROPERTIES TerminalIsFinal OutcomesFinal
