SPECIFICATION Spec
CONSTANTS
  Endpoints = {1}
  Addresses = {1}
  NumberOfConfigurations = 1
  DescriptorPackets <- MCDescriptorPackets
  Requests <- AllRequests
  MANUAL_PLL = FALSE
  SOFEvents = TRUE
  HostPolicy = "paced"
INVARIANTS
  HostDeviceAgree
PROPERTIES
  AddressAfterStatus
