SPECIFICATION Spec
CONSTANTS
  Width = 2
  Height = 2
  MaxHistoryRows = 2
  Modes = {"Off", "ButtonEvent"}
  WordSeparators <- MCWordSeparators
  Beyond <- MCBeyond
  Lines <- MCLines
  MaxInputs = 3
  MaxLines = 1
  MaxModes = 1
INVARIANT OnThisScreen
PROPERTIES DraggedCopied AutoScrollEnds
CHECK_DEADLOCK FALSE
