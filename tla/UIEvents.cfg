SPECIFICATION FairSpec
CONSTANTS
  Widgets = {terminal, dialog}
  Dummy = Dummy
  Workers = {reader, timer}
  Joined = {reader}
  Modulus = 4
  MaxEvents = 3
  MaxDetach = 2
INVARIANTS
  RunInOrder
  PendingCounted
PROPERTIES
  EventsRun
  YieldsReturn
CHECK_DEADLOCK FALSE
