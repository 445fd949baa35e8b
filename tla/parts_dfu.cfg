SPECIFICATION PartsSpec
CONSTANTS
  BUFF_LENGTH = 3
  ElementsRange = 8
  RingBuff_Data_t = {0, 1, 2}
  MAX_DELAYCTR_COUNT = 5
  TOTAL_TASKS = 2
  Delays = {0, 3, 4}
  Groups <- MCGroups
  SETTLE_MS = 1
  WAIT_MS = 2
  HostPolicy = "long"
  CHIPS = 2
  ROWS = 3
  PAGE_UNITS = 4
  BLOCK_UNITS = 2
  MaxWrites = 2
  Commands <- MCCommands
  RamCommands <- MCRamCommands
  EPSIZE = 4
  HEADER = 3
  FILLER = 1
  SUFFIX = 2
  SPM_PAGESIZE = 8
  BOOT_START_ADDR = 24
  EEPROM_SIZE = 6
  SECURE_MODE = TRUE
  Ranges <- MCUnaligned
  MaxDownloads = 2
  HID_STATETABLE_STACK_DEPTH = 2
  HID_USAGE_STACK_DEPTH = 2
  HID_MAX_COLLECTIONS = 3
  HID_MAX_REPORTITEMS = 2
  HID_MAX_REPORT_IDS = 2
  ItemTypes = {"In"}
  ReportIDs = {1, 2}
  Usages = {1, 2}
  BitSizes = {2}
  Counts = {1, 2}
  Descriptors = "plain"
  Repertoires <- MCRepertoires
  TOTAL_TRACKS = 2
  MAX_BITS = 4
  BANKS = 2
  IDLE_MS = 2
  IdlePeriods = {0, 1}
  Cards <- MCCards
  MaxCards = 2
  Use = "plain"
  TableSizes = {1, 2}
  LAST_BLOCK = 1
  Clients = {"a", "b"}
  MaxSessions = 2
  Traffic = "plain"
INVARIANT
  DownloadsLand
