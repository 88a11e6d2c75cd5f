SPECIFICATION LocksSpec
CONSTANTS
  Lock = "caps"
  Keyboard = {"k1", "k2"}
  MAX_KEYBOARDS = 3
  NoKeyboard = "none"
  Workload <- BothSides
  Presses <- OneKeyboard
  Parts = {"leds"}
CHECK_DEADLOCK FALSE
INVARIANTS
  Reg2ShowsLed
