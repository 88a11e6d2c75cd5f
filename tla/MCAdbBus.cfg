SPECIFICATION Spec
CONSTANTS
  HostAddress = {2, 3, 5}
  AssignAddress = {5}
  RandomAddress = {9}
  Commands = {"none", "globalReset", "sendReset", "other", "talk0", "talk3", "listen2", "listen3"}
  HubMode = TRUE
  SuppressMouseSrq = FALSE
  MaxReports <- TwoKeyReports
  MaxLinks = 1
INVARIANTS
  ReportsKept
  AddressesMeant
PROPERTIES
  ImplementsLatches
  LoserStays
  ResetNotLost
