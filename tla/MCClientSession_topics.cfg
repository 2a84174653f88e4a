SPECIFICATION Spec
CONSTANTS
  Data1 = Data1
  Data2 = Data2
  Cmd1 = Cmd1
  Cmd2 = Cmd2
  None = None
  Scenarios <- MCLossyPico
  MaxInflight = 10
  Reps = 1
  MaxRetries = 1
  MaxMid = 65534
INVARIANT TopicIdIsTheTopics
CHECK_DEADLOCK FALSE
