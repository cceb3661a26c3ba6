SPECIFICATION FairSpec
CONSTANTS
  scripted = scripted
  injected = injected
  NoCommand = NoCommand
  Commands = {scripted, injected}
  Static <- Timeline
  Behaviors = {"reject"}
  AckDelay = 1
  CompleteDelay = 1
  MaxActions = 4
  MoveTargets = {}
  MaxControls = 1
  MaxMishaps = 0
CHECK_DEADLOCK FALSE
PROPERTIES
  RunEnds
  CloseDrains
