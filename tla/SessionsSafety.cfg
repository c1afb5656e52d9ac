\* Two tabs of one player and one of another, two ports, a window of two ticks;
\* a tick is longer than STALE_TIMEOUT.
SPECIFICATION FairSpec
CONSTANTS
  a = a
  b = b
  ws = ws
  rtc = rtc
  rtc2 = rtc2
  w = w
  anon = anon
  Player = {a, b}
  Port = {0, 1}
  Source = {ws, rtc, rtc2}
  Rtc = {rtc, rtc2}
  Announced = {rtc}
  Watcher = {}
  Owner <- MCOwner
  Ports <- MCPorts
  NoOwner = NoOwner
  Window = 2
  StaleTimeout = 0
INVARIANTS
  WindowRunsAfterCleanup
PROPERTIES
  GhostInputFades
  PortLostToReservationOnly
  LeaseLastsItsWindow
