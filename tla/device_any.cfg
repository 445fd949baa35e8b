SPECIFICATION Spec
CONSTANTS
  Endpoints = {1}
  Addresses = {1}
  NumberOfConfigurations = 1
  DescriptorPackets <- MCDescriptorPackets
  Requests <- RoughRequests
  MANUAL_PLL = FALSE
  SOFEvents = FALSE
  HostPolicy = "any"
VIEW LiveView
INVARIANTS
  TypeOK
  ControlSelected
  WakeSourceArmed
  ClockHasPLL
  NoUnansweredSetup
  AppEndpointKept
