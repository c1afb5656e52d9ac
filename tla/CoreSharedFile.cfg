CONSTANTS
  Game <- MCGame
  FileName <- MCFileName
  Preloads = {"three"}
  UsesHw = {"three"}
  OptionsApi <- MCOptionsApi
  Declares <- MCDeclares
  Overrides <- MCOverrides
  Serializes = {"two"}
  Slot = {0}
  Interval = 2
  MaxProgress = 3
SPECIFICATION Spec
PROPERTY SavesSurviveOtherGames
CHECK_DEADLOCK FALSE
