CONSTANTS
  Samples <- MCSamples
  One <- MCOne
  Two <- MCTwo
  Four <- MCFour
  Value <- MCValue
  Months = {"May"}
  Levels <- MCLevels
  Slug <- MCSlug
  MaxSampleLines = 3
  MaxTokens = 12
  MaxCaptures = 3

SPECIFICATION Spec

INVARIANTS
  RuleFits
  RestFits
  DatesRight

\* The suggestion is made.
CHECK_DEADLOCK FALSE
