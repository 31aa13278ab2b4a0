CONSTANTS
  s1 = s1  s2 = s2
  n1 = n1  n2 = n2
  d1 = d1  d2 = d2
  Flawed = Flawed
  Absent = Absent
  Empty = Empty
  Savers <- TwoSavers
  Names <- MCNames
  Drafts <- TwoDrafts
  MaxSaves = 2
  MaxMeddles = 1

SPECIFICATION Spec

SYMMETRY Symmetric

INVARIANTS
  NoFlawedRuleLeft
  SavedIsActive

\* The rule builder may never be used again.
CHECK_DEADLOCK FALSE
