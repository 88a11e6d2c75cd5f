SPECIFICATION HostModeSpec
CONSTANTS
  Key = {"a", "b", "shift"}
  Modifier = {"shift"}
  MaxKeys = 1
  KBD_REPORT_Q = 3
  Button = {"left"}
  Workload <- Workloads
  Device <- Pointing
  Home <- HomeOf
  Answers3 = {"mouse", "tablet"}
  Relocates = {"trackball"}
  Noise = {FALSE, TRUE}
  kMaxDevices = 5
  kProbePollAttempts = 2
  MaxPlugs = 2
  MaxSwitches = 1
INVARIANTS
  Inv
  TableKept
PROPERTIES
  EveryReportArrives
  EverythingSent
  KeyboardPolled
