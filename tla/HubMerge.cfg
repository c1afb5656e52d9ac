CONSTANTS
  a = a
  b = b
  c = c
  d = d
  Source = {a, b, c}
  Ordered = {a, b, c}
  Full = {a}
  Button = {"L2", "Select"}
  Coin = "Select"
  Axis = {"lx", "l2"}
  Trigger <- MCTrigger
  Pads <- MCPads
  Neutral <- MCNeutral
  port = 0
  MAX_PORTS = 8
  Unit = 4
  AxisMax = 7
  Stale = 1
  Pulse = 1
  Keepalive = 1
  MaxDelay = 0
  Losses = 0
SPECIFICATION Spec
INVARIANT StrongestStickWins
CHECK_DEADLOCK FALSE
