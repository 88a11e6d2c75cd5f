SPECIFICATION ScenesSpec
CONSTANTS
  kb = kb
  xbox = xbox
  board = board
  pad = pad
  lamp = lamp
  NoDevice = NoDevice
  NoName = NoName
  Device = {kb, xbox, board, pad, lamp}
  Kind <- KindOf
  Sends <- SendsOf
  Pausing = {xbox}
  EarlyData = {xbox, board, pad}
  Own = {pad}
  Bystander = {lamp}
  Version = {"long", "short"}
  TableSize = 2
  SlotCount <- OneEach
  Clock = 4
  Watchdog = 1
  Settle = 1
  MaxLinks = 3
  MaxWipes = 1
  MaxHeard = 4
INVARIANTS
  TablesKept
  SlotsKept
  LinksCounted
PROPERTIES
  ResetsGoOn
