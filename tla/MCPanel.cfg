SPECIFICATION PanelSpec
CONSTANTS
  MaxPresses = 3
  MaxLosses = 2
  MaxToggles = 1
  Keyboards = {"k1", "k2"}
  Mice = {"m1"}
  HoldSeconds = 2
  Limits <- OledLimits
INVARIANTS
  PanelAgrees
PROPERTIES
  BootRestoresChoice
  StackFollows
  PictureSettles
