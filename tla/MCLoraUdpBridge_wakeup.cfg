SPECIFICATION AnsweredSpec
CONSTANTS
  n22 = n22
  n24 = n24
  n26 = n26
  Src = {n22}
  Traffic <- MCTraffic
  MaxClients = 1
  SeqMod = 256
  GwRingSize = 16
  Limits <- MCWakeup
  Garbage = garbage
  None = None
CHECK_DEADLOCK FALSE
PROPERTY UplinkRead
