\* Two workers, one of which starts sessions; two runtimes, one command at a time.
SPECIFICATION FairSpec
CONSTANTS
  t1 = t1
  t2 = t2
  Thread <- TwoThreads
  Starter <- OneThread
  Main = main
  Command = {command}
  MaxRuntimes = 2
  MaxCommands = 1
CHECK_DEADLOCK FALSE
INVARIANTS
  EveryRuntimeHasAnOwner
  ShutdownEndsEverything
  CoreIsReady
  ExitIsReported
PROPERTIES
  OnlyAStopIsOverlapped
  CallsReturn
  CommandsAreServed
