SPECIFICATION Spec
CONSTANTS
  Sources <- MCSources
  Size <- MCSize
  Name <- MCDistinct
  MaxOpens = 4
INVARIANTS
  DeliveredPrefix
  ShownWhole
