SPECIFICATION FairSpec
CONSTANTS
  n22 = n22
  n23 = n23
  n24 = n24
  n25 = n25
  Endpoint = {n22}
  Relay = {n23, n25}
  Gateway = gw
  Broadcast = all
  Routing = FALSE
  NodeNextHop <- MCNodeNextHop
  GwNextHop <- MCGwNextHop
  OutOfRange = {n22}
  TTLDefault = 3
  SeqMod = 8
  NodeRingSize = 2
  GwRingSize = 2
  DownKind = {"connack", "data"}
  MaxUp = 2
  MaxDown = 1
  MaxBoot = 0
  None = None
CHECK_DEADLOCK FALSE
INVARIANTS TypeOK GatewayWindow RelayWindow
PROPERTY FloodDies
