SPECIFICATION Spec
CONSTANTS
  Instances = {p1, p2}
  p1 = p1
  p2 = p2
  Texts <- MCTexts
  Arguments <- MCArguments
  MaxStarts = 3
  MaxEdits = 1
  MaxCrashes = 1
  LinesAtOnce = 30
INVARIANT ChoicesKept NothingLost TakesOwnFile AsAsked
CHECK_DEADLOCK FALSE
SYMMETRY Symmetry
