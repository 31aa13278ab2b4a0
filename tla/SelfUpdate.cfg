CONSTANTS
  t1 = t1  t2 = t2
  Mine = Mine
  Torn = Torn
  NoPlan = NoPlan
  Tabs <- TwoTabs
  Rules <- MCRules
  Newest = 3
  Ships <- MCShips
  MaxPlans = 2
  MaxEdits = 1
  MaxCrashes = 1

SPECIFICATION FairSpec

INVARIANTS
  PlanSparesEdits
  PlanHeldOnce
  NoDowngrade
  RulesNotAhead

PROPERTIES
  StopsServingOld

\* The server may sit idle for ever once the bounds are used up.
CHECK_DEADLOCK FALSE
