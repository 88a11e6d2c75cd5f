SPECIFICATION Spec
CONSTANTS
  kb = kb
  xbox = xbox
  NoDevice = NoDevice
  Kind <- KindOf
  Sends <- SendsOf
  Device = {xbox}
  Pausing <- ByName
  EarlyData = {}
  SlotCount <- OneEach
  Clock = 8
  Watchdog = 3
  Settle = 1
  MaxLinks = 3
  MaxWipes = 0
INVARIANTS
  PausedCoreStaysOut
