SPECIFICATION Spec
CONSTANTS
  n22 = n22
  n23 = n23
  n24 = n24
  n25 = n25
  Endpoint = {n22, n24}
  Relay = {n23}
  Gateway = gw
  Broadcast = all
  Routing = TRUE
  NodeNextHop <- MCNodeNextHop
  GwNextHop <- MCGwNextHop
  OutOfRange = {n22, n24}
  TTLDefault = 3
  SeqMod = 256
  NodeRingSize = 8
  GwRingSize = 16
  DownKind = {"connack"}
  MaxUp = 1
  MaxDown = 2
  MaxBoot = 0
  None = None
CHECK_DEADLOCK FALSE
INVARIANT RelayDropsOnlyCopies
