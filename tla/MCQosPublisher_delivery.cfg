SPECIFICATION FairSpec
CONSTANTS
  m0 = m0
  m1 = m1
  m2 = m2
  n2 = n2
  Msg = {m0, m1, m2}
  Qos <- MCQos
  NumSlots = 1
  MaxRetries = 1
  MaxId = 6
  FirstId = {5}
  MayRefuse = TRUE
  NetCap = 2
  None = None
CHECK_DEADLOCK FALSE
INVARIANT TypeOK
PROPERTIES ImplementsDelivery SlotsAreFreed SurvivesLosses
