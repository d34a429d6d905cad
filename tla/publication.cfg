SPECIFICATION FairSpec
CONSTANTS
  w1 = w1
  w2 = w2
  Worker = {w1, w2}
  BatchSize = 3
  MaxRows = 3
  MaxFailures = 2
CHECK_DEADLOCK FALSE
INVARIANTS PublicationTypeOK DeliveredWasPublished
PROPERTIES DeliveredStays EventuallyPublished
