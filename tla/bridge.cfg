SPECIFICATION Spec
CONSTANTS
  BUFF_STATICSIZE = 1
  CDC_TXRX_EPSIZE = 2
  MaxOut = 2
  MaxIn = 2
  MaxDisruptions = 2
INVARIANTS
  TypeOK
  HostBytesInOrder
  SerialBytesInOrder
PROPERTIES
  HostBytesArrive
  SerialBytesArrive
  ReadsClose
