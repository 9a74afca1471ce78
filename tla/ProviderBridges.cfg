\* A slow Figma target with failing storage, and a first-party one.
SPECIFICATION BridgeSpec
CONSTANTS
  Settings <- Targets
  Screens = {"list", "item", "done"}
  StartScreen = "list"
  NumTasks = 2
  MaxFailures = 2
  MaxEvents = 8
  MaxMessages = 6
  MaxWaiting = 3
INVARIANTS
  NumbersGapless
  BridgeInStep
PROPERTIES
  EveryMessageHandled
CHECK_DEADLOCK FALSE
