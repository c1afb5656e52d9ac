CONSTANTS
  a = a
  b = b
  c = c
  d = d
  Source = {c}
  Ordered = {}
  Full = {c}
  Button = {"L2", "Select"}
  Coin = "Select"
  Axis = {"lx", "l2"}
  Trigger <- MCTrigger
  Pads <- MCPads
  Neutral <- MCNeutral
  port = 0
  MAX_PORTS = 8
  Unit = 4
  AxisMax = 7
  Stale = 3
  Pulse = 1
  Keepalive = 1
  MaxDelay = 1
  Losses = 1
SPECIFICATION Spec
INVARIANT DeflectionsReachTheCore
CHECK_DEADLOCK FALSE
