SPECIFICATION LocksSpec
CONSTANTS
  Lock = "num"
  Keyboard = {"k1", "k2"}
  MAX_KEYBOARDS = 3
  NoKeyboard = "none"
  Workload <- BothSides
  Presses <- LedWorkload
  Parts = {"leds", "caps"}
CHECK_DEADLOCK FALSE
INVARIANTS
  LedsKept
  CapsKept
PROPERTIES
  LedsSettle
  CapsSettle
