SPECIFICATION TypingSpec
CONSTANTS
  Key = {"a", "b", "v", "caps", "power", "pause", "fn"}
  NoKey = "none"
  Overflow = "overflow"
  CapsLock = "caps"
  Power = "power"
  Doubled = {"pause"}
  Unmapped = {"fn"}
  ModifierOrder <- OneModifier
  Slots = 2
  Capacity = 3
  GhostReport <- GhostCombination
  Message <- TwoLetters
  Workload <- Reports
  KeySet <- PairsAndMany
  Sentence <- Messages
INVARIANTS
  QueueKept
  
  CodesAgree
PROPERTIES
  GhostTypingEnds
  ImplementsLatch
