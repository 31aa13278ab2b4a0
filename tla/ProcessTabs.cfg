CONSTANTS
  t1 = t1  t2 = t2
  Tabs <- MCTabs
  Modules <- MCModules
  Configured <- MCConfigured
  Watchers <- MCWatchers
  Grace = 2
  Period = 3
  Poll = 3
  Timeout = 4
  MaxOpens = 2
  MaxRequests = 1
  MaxStarts = 1
  MaxWork = 1

SPECIFICATION Spec

SYMMETRY Symmetry

PROPERTIES
  OtherTabSurvives

CHECK_DEADLOCK FALSE
