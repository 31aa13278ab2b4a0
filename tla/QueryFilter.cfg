CONSTANTS
  Fields <- MCFields
  Texts <- MCTexts
  EmptyText = ""
  Instants <- MCInstants
  Filters <- MCFilters
  Searches <- MCSearches
  Null = Null
  Garbage = Garbage
  NoBound = NoBound
  NoField = NoField
  NoValue = NoValue
  NoSearch = NoSearch
  MaxFilters = 3
  Names <- MCNames
  Lower <- MCLower
  Root <- MCRoot
  TimeField = "time"
  DatedNames <- MCDatedNames
  SortFields <- MCSortFields
  Catalogs <- MCCatalogs
  Intervals <- MCIntervals
  MaxBuckets = 2
  DayWidth = 10
  Tick = 2
  SampleCap = 1
  MaxValues = 2
  MaxFields = 2

SPECIFICATION Spec

INVARIANTS
  WellFormedAfterFirst
  ConjunctionMeansAll
  OppositesSplit
  RowsFound
  PanelsAgree
  

\* The clause is complete.
CHECK_DEADLOCK FALSE
