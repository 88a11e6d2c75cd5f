SPECIFICATION LocksSpec
CONSTANTS
  Lock = "num"
  Keyboard = {"k1", "k2"}
  MAX_KEYBOARDS = 3
  NoKeyboard = "none"
  Workload <- BothSides
  Presses <- OneKeyboard
  Parts = {"leds"}
CHECK_DEADLOCK FALSE
PROPERTIES
  TogglesShown
