SPECIFICATION Spec
CONSTANTS
  HostKinds = {"LUFA"}
  Operations = {"INQUIRY", "TEST_UNIT_READY", "READ", "WRITE"}
  BlockPackets = 2
  TotalLUNs = 1
  TAG_MAX = 3
  DataINPipe = 1
  DataOUTPipe = 2
  DataINEndpoint = 3
  DataOUTEndpoint = 4
INVARIANT
  StallIsCleared
