CONSTANTS
  a = a
  b = b
  c = c
  d = d
  Source = {a}
  Ordered = {}
  Full = {a}
  Button = {"L2", "Select"}
  Coin = "Select"
  Axis = {"lx", "l2"}
  Trigger <- MCTrigger
  Pads <- MCPads
  Neutral <- MCNeutral
  port = 0
  MAX_PORTS = 8
  Unit = 4
  AxisMax = 7
  Stale = 6
  Pulse = 2
  Keepalive = 5
  MaxDelay = 1
  Losses = 0
SPECIFICATION Spec
INVARIANT HoldIsNotInterrupted
CHECK_DEADLOCK FALSE
