CONSTANTS
  root = root
  pager = pager
  term = term
  pane = pane
  paste = paste
  about = about
  other = other
  yes = yes
  no = no
  aboutX = aboutX
  otherX = otherX
  NoWidget = NoWidget
  Root = root
  Pager = pager
  Term = term
  Pane = pane
  PasteDialog = paste
  AboutBox = about
  OtherDialog = other
  Widgets <- MCWidgets
  Parent <- MCParent
  Focusable <- MCFocusable
  Buttons <- MCButtons
  Dismisses <- MCDismisses
  MaxDialogs = 2
  MaxMouse = 2
  PointedAt = {term, pane, yes, about, otherX}
SPECIFICATION Spec
INVARIANTS
  NoDangling
  FocusKept
  OneIsTold
  ModalWhileDialogs
PROPERTIES
  FocusReturns
CHECK_DEADLOCK FALSE
