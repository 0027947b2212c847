SPECIFICATION Spec
CONSTANTS
  Objects = {1, 2, 3, 4}
  NoObject = 0
  Width = 4
  Height = 3
  MaxHistoryRows = 1
  Words <- MCWords
  Urls <- MCUrls
  Halves <- MCHalves
  MaxInputs = 5
INVARIANTS
  ReferencesCounted
  LinkedAsShown
  OpensHighlighted
CHECK_DEADLOCK FALSE
