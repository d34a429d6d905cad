CONSTANTS
  r1 = r1
  r2 = r2
  s1 = s1
  Request = {r1, r2}
  Own = {r1}
  Session = {s1}
  NoSession = NoSession
  InitialSession = s1
  NoRow = NoRow
  None = None
  Page = 1
  MaxHub = 1
  MaxFrames = 2
  MaxLog = 3
  MaxHeld = 2
  MaxCommands = 1
SPECIFICATION Spec
INVARIANTS
  SyncTypeOK
  DurableBeforeAck
  CompletionsExpected
  LookupsUnderWay
  CaughtUpAtRest
CHECK_DEADLOCK FALSE
