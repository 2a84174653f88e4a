SPECIFICATION Spec
CONSTANTS
  n22 = n22
  n24 = n24
  n26 = n26
  Src = {n22, n24, n26}
  Traffic <- MCTraffic
  MaxClients = 2
  SeqMod = 256
  GwRingSize = 2
  Limits <- MCTable
  Garbage = garbage
  None = None
CHECK_DEADLOCK FALSE
INVARIANTS LocksHeld SocketsMatchTable OldSessionsAreCut BlocksForAnswerOnly PublishesAsItself
SYMMETRY SrcSymmetry
