SPECIFICATION Spec
CONSTANTS
  n22 = n22
  n23 = n23
  n24 = n24
  n25 = n25
  Endpoint = {n22}
  Relay = {n23}
  Gateway = gw
  Broadcast = all
  Routing = TRUE
  NodeNextHop <- MCNodeNextHop
  GwNextHop <- MCGwNextHop
  OutOfRange = {}
  TTLDefault = 2
  SeqMod = 8
  NodeRingSize = 2
  GwRingSize = 2
  DownKind = {"connack", "long"}
  MaxUp = 3
  MaxDown = 2
  MaxBoot = 1
  None = None
CHECK_DEADLOCK FALSE
INVARIANTS GatewayDropsOnlyCopies EndpointWindow
PROPERTY ImplementsUplink
