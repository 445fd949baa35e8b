SPECIFICATION Spec
CONSTANTS
  Endpoints = {1}
  Addresses = {1}
  NumberOfConfigurations = 1
  DescriptorPackets <- MCDescriptorPackets
  Requests <- RoughRequests
  MANUAL_PLL = FALSE
  SOFEvents = TRUE
  HostPolicy = "any"
INVARIANTS
  WakeSourceArmed
