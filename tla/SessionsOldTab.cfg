\* public-service.md:119 against the code: one port, two players.
SPECIFICATION Spec
CONSTANTS
  a = a
  b = b
  ws = ws
  rtc = rtc
  rtc2 = rtc2
  w = w
  anon = anon
  Player = {a, b}
  Port = {0}
  Source = {ws, rtc2}
  Rtc = {rtc2}
  Announced = {}
  Watcher = {}
  Owner <- MCOwner
  Ports <- MCPorts
  NoOwner = NoOwner
  Window = 2
  StaleTimeout = 1
PROPERTIES
  OnlyTheOwnerPlays
