SPECIFICATION Spec
CONSTANTS
  a1 = a1
  a2 = a2
  Nobody = Nobody
  Attempt = {a1, a2}
  PairingTtl = 1
  ConfirmationTtl = 1
  CredentialTtl = 1
  MaxTime = 1
  MaxQueue = 2
CHECK_DEADLOCK FALSE
SYMMETRY Interchangeable
INVARIANTS AnswersDurable
PROPERTIES ImplementsBridgeAdmission
