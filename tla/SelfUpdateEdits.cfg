CONSTANTS
  t1 = t1  t2 = t2
  Mine = Mine
  Torn = Torn
  NoPlan = NoPlan
  Tabs <- OneTab
  Rules <- MCRules
  Newest = 3
  Ships <- MCShips
  MaxPlans = 3
  MaxEdits = 2
  MaxCrashes = 1

SPECIFICATION Spec

PROPERTIES
  EditsSurvive

CHECK_DEADLOCK FALSE
