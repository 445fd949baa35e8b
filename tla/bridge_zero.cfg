SPECIFICATION Spec
CONSTANTS
  BUFF_STATICSIZE = 1
  CDC_TXRX_EPSIZE = 2
  MaxOut = 2
  MaxIn = 0
  MaxDisruptions = 1
INVARIANTS
  NothingFabricated
