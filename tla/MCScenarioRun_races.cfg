SPECIFICATION Spec
CONSTANTS
  scripted = scripted
  injected = injected
  NoCommand = NoCommand
  Commands = {scripted, injected}
  Static <- Timeline
  Behaviors = {"normal"}
  AckDelay = 1
  CompleteDelay = 1
  MaxActions = 5
  MaxControls = 1
  MoveTargets = {"ACKNOWLEDGED", "CANCELLED"}
  MaxMishaps = 1
CHECK_DEADLOCK FALSE
INVARIANTS
  EndIsTold
  PauseHolds
  RowsAgree
  WithinCapacity
  CommandsSettle
PROPERTIES
  EndIsFinal
  ScriptInOrder
