\* Two machines, three players (one with two spellings of the name), four
\* tickets, clock readings up to one tick old, one score, one day.
SPECIFICATION Spec
CONSTANTS
  m1 = m1
  m2 = m2
  mX = mX
  p1 = p1
  p2 = p2
  p3 = p3
  Machine = {m1, m2}
  MachineId = {m1, m2, mX}
  Player = {p1, p2, p3}
  Name <- MCName
  KeyOf <- MCKeyOf
  NoPlayer = NoPlayer
  NoCall = NoCall
  ClaimTimeout = 2
  NoShowCooldown = 2
  MaxLag = 1
  MaxTicket = 4
  Score = {0}
  MaxDay = 0
SYMMETRY MachineSymmetry
INVARIANTS
  DeskIsConsistent
  OnePlacePerPlayer
  CooldownKeepsPlayersOut
PROPERTIES
  SeatsGoInTicketOrder
  WinnerStays
  CooldownOnlyForNoShows
  CalledTicketIsAccountedFor
