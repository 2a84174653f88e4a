SPECIFICATION AnsweredSpec
CONSTANTS
  n22 = n22
  n24 = n24
  n26 = n26
  Src = {n22, n24}
  Traffic <- MCTraffic
  MaxClients = 2
  SeqMod = 2
  GwRingSize = 2
  Limits <- MCService
  Garbage = garbage
  None = None
CHECK_DEADLOCK FALSE
INVARIANT TypeOK
PROPERTY  StagedIsSent ShutsDown
