\* Two machines, two players, four tickets, clock readings up to a tick old,
\* two scores, one midnight.
\* No symmetry: a liveness property is checked.
SPECIFICATION FairSpec
CONSTANTS
  m1 = m1
  m2 = m2
  p1 = p1
  p2 = p2
  Machine = {m1, m2}
  MachineId = {m1, m2}
  Player = {p1, p2}
  Name <- MCName
  KeyOf <- MCKeyOf
  NoPlayer = NoPlayer
  NoCall = NoCall
  ClaimTimeout = 2
  NoShowCooldown = 2
  MaxLag = 1
  MaxTicket = 4
  Score = {1, 2}
  MaxDay = 1
INVARIANT
  GlobalBestIsBestMachine
PROPERTIES
  ImplementsLifecycle
  CallsEnd
