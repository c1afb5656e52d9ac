\* Two workers, one of which starts sessions; three sessions after each other.
SPECIFICATION Spec
CONSTANTS
  t1 = t1
  t2 = t2
  Thread <- TwoThreads
  Starter <- OneThread
  Main = main
  Command = {command}
  MaxRuntimes = 3
  MaxCommands = 0
CHECK_DEADLOCK FALSE
INVARIANTS
  CoreIsReady
  ExitIsReported
PROPERTIES
  OnlyAStopIsOverlapped
