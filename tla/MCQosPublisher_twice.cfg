SPECIFICATION Spec
CONSTANTS
  m0 = m0
  m1 = m1
  m2 = m2
  n2 = n2
  Msg = {m2}
  Qos <- MCQos
  NumSlots = 5
  MaxRetries = 3
  MaxId = 65535
  FirstId = {1}
  MayRefuse = FALSE
  NetCap = 2
  None = None
CHECK_DEADLOCK FALSE
INVARIANT ExactlyOnce
