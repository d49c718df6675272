CONSTANTS
  Word = 2
  Sector = 4
  SlotSectors = 2
  Lengths = {6, 13}
  SegLen = 3
  UPGRADE_RETRY_TIMES = 5
  MaxErrors = 1
  UptimeWrap = 8
  Second = 2
  Resync = 4
  Retry = 1
  MaxFetch = 2
  Offsets = {1, 12}
  Tries = 3
  ErasedSsid = "erased"
  MaxBoots = 2
  Base = 4
  BurstMax = 8
  Sizes = {0, 16, 64}
  ProbeFrom = 8
  SdiMode = 1
  Data <- MCData
  Addresses = {3}
  SSD1306_I2C_ADDR = 60
  Controls = {0, 64}
  Datas <- MCDatas
  MaxRefused = 1
  MaxResets = 1
  SSD1306_PAGES = 2
  SSD1306_WIDTH = 8
  SSD1306_HEIGHT = 7
  Pictures <- MCPictures
  Contrasts = {32, 159}
  Rotations = {0}
  SSD1306_RETRY_UPDATES = 2
  MaxFaults = 2
  MaxAway = 1
  Said <- MCSaid
  Headers <- MCHeaders
  Names <- MCNames
  Metas <- MCMetas
  TextSize = 10
  MetaSize = 14
  MaxChars = 7
  ScrollPause = 2
  TicksPerSec = 2
  IdlePlaying = 4
  IdleStopped = 2
  SplashWait = 2
  SplashTicks = 1
  MaxEvents = 3
  FontWidth = 2
  FontHeight = 3
  Font <- MCFont
  Strings <- MCStrings
  Scales = {1, 2}
  Corners <- MCCorners
  Circles <- MCCircles
SPECIFICATION FairSpec
INVARIANTS
  OnlyWholeImageBoots
  ClockClose
  DstIsOneInterval
  ApOnlyIfRefused
  MemoryWorks
  TransferArrives
  PanelAsKnown
  ScreenIsCurrent
  LooksAsMeant
PROPERTIES
  UserIsTold
  ScreenShown
  ScreenRests
CHECK_DEADLOCK FALSE
