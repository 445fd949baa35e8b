SPECIFICATION HostSpec
CONSTANTS
  SETTLE_MS = 1
  WAIT_MS = 1
  HostPolicy = "long"
PROPERTIES
  AttachmentSettles
