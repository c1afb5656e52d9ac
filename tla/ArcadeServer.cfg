\* Three viewers at one of two machines, four tickets; one gateway connection.
CONSTANTS
  v1 = v1
  v2 = v2
  v3 = v3
  k1 = k1
  NoViewer = NoViewer
  Viewer <- MCViewer
  Queued <- MCQueued
  Socket <- MCSocket
  Machines = 2
  MaxTicket = 4
SPECIFICATION FairSpec
ACTION_CONSTRAINT DeskApart
INVARIANTS SeatsAreCalled ProcessesAreAccountedFor
PROPERTIES HalvesEndTogether ShutdownEnds
CHECK_DEADLOCK FALSE
