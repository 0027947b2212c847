SPECIFICATION Spec
CONSTANTS
  InitialSize <- MCInitialSize
  Sizes <- MCSizes
  MaxHistoryRows = 2
  TabWidth = 2
  Escapes <- MCEscapes
  MaxText = 4
  MaxControls = 2
  MaxEscapes = 2
  MaxCommands = 3
  MaxInputs = 5
  MaxResizes = 2
INVARIANTS
  BuffersFit
PROPERTIES
  ScrollKeepsText
  ResizeKeepsText
  AlternateKeepsNormal
CHECK_DEADLOCK FALSE
