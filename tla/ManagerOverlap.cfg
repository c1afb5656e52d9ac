\* libretro.rs:1086 against the code: a start while a stop waits for the session before.
SPECIFICATION Spec
CONSTANTS
  t1 = t1
  t2 = t2
  Thread <- TwoThreads
  Starter <- OneThread
  Main = main
  Command = {command}
  MaxRuntimes = 2
  MaxCommands = 0
CHECK_DEADLOCK FALSE
INVARIANT
  FramesOfALoadedGame
