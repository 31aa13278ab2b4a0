CONSTANTS
  t1 = t1  t2 = t2
  Tabs <- MCTabs
  Modules <- MCModules
  Configured <- MCConfigured
  Watchers <- MCWatchers
  Grace = 2
  Period = 3
  Poll = 3
  Timeout = 4
  MaxOpens = 3
  MaxRequests = 1
  MaxStarts = 1
  MaxWork = 1

SPECIFICATION Spec

SYMMETRY Symmetry

INVARIANTS
  UnusedServerEnds

PROPERTIES
  YoungRequestsSpared
  OpenPageKeepsServer

\* The user need not start the program again.
CHECK_DEADLOCK FALSE
