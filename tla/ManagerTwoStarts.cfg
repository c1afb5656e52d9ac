\* public-service.md:104 against the code: two workers that start sessions.
SPECIFICATION Spec
CONSTANTS
  t1 = t1
  t2 = t2
  Thread <- TwoThreads
  Starter <- TwoThreads
  Main = main
  Command = {command}
  MaxRuntimes = 3
  MaxCommands = 0
CHECK_DEADLOCK FALSE
PROPERTY
  RefusedWhileRunning
