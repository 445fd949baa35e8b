SPECIFICATION Spec
CONSTANTS
  Endpoints = {1}
  Addresses = {1}
  NumberOfConfigurations = 1
  DescriptorPackets <- MCDescriptorPackets
  Requests <- EnumRequests
  MANUAL_PLL = FALSE
  SOFEvents = FALSE
  HostPolicy = "paced"
PROPERTIES
  TransferEnds
  UnattachedReleasesTask
