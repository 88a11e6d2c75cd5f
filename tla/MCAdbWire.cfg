SPECIFICATION MCSpec
CONSTANTS
  d1 = d1
  d2 = d2
  Device = {d1, d2}
  host = host
  monitor = monitor
  Address <- TwoAddresses
  AddressOf <- Apart
  AddressBits = 2
  WordBits = 3
  Kind = {"talk", "listen", "reset"}
  Word <- Registers
  Extra <- Limits
  Requesting = {d2}
  Unplugs = FALSE
  Jitter = {0, 5}
  Late = {3}
INVARIANTS
  CommandsHeard
  ListenHeard
  AnswersHeard
  MonitorFollows
PROPERTIES
  TransactionEnds
