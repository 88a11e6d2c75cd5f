SPECIFICATION PointingSpec
CONSTANTS
  Reach = 2
  Keyboards = 2
  GamepadKeys <- Pad
  Slots = 2
  Workload <- MouseWorkloads
  BridgeWorkload <- BridgeWorkloads
INVARIANTS
  InputsKept
PROPERTIES
  ButtonsFollowMovement
  DragHolds
  HeldSettles
