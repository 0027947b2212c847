SPECIFICATION FairSpec
CONSTANTS
  Threads = {reader1, reader2, ui1, ui2}
  PriorityThreads = {ui1, ui2}
  Free = Free
INVARIANTS
  NoLostWakeup
  LockedByHolder
PROPERTIES
  ServesPriorityFirst
  PriorityServed
