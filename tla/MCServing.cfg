SPECIFICATION ServingSpec
CONSTANTS
  Client = {core0, core1}
  Item = {e1, e2}
  Null = Null
  Nobody = Nobody
  Capacity = 3
  HostAddress = {2, 3, 5}
  AssignAddress = {5}
  RandomAddress = {9}
  Commands = {"none", "sendReset", "other", "talk0", "listen3"}
  HubMode = TRUE
  SuppressMouseSrq = FALSE
  MaxLinks = 1
INVARIANTS
  TypeOK
PROPERTIES
  ImplementsFifo
  MutexReleased
  NothingWaits
