SPECIFICATION Spec
CONSTANTS
  FirstYear = 2021
  Years = 7
  DayLen = 8
  Zones <- MCZones
  LineRules <- MCLineRules
  BlockPriority = 70
  XmlPriority = 80
  Registered <- MCRegistered
  SniffLines = 2
  LineSniffLines = 3
  XmlSample = 9
  NoTime = NoTime
  Files <- MCFiles
  Samples <- MCSamples
  BlockTsKeys <- MCBlockTsKeys
  Growth <- MCGrowth
  MaxGrowth = 4
  NoDict = NoDict
INVARIANTS
  LinesKept
  BlocksKept
  RowsKept
  TimesRecovered
  ChosenReads
  PreviewTallies
CHECK_DEADLOCK FALSE
