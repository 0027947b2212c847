SPECIFICATION Spec
CONSTANTS
  Widgets <- MCWidgets
  Root = "win"
  Kind <- MCKind
  Opaque <- MCOpaque
  Shaded = {"pane"}
  Bordered = {"d2"}
  Wraps = {"x1"}
  Fps = 60
  NoGlyph = {"x1", "b2"}
  LayoutOf <- MCLayoutOf
  Hints <- MCHints
  ButtonWidth = 1
  MaxHistory = 1
  Assembly <- MCAssembly
  Hidden = {"pane"}
  Pager = "pager"
  Pane = "pane"
  Pages = {"t1", "t2"}
  Dialogs = {"d1", "d2"}
  ButtonOf <- MCButtonOf
  Texts <- MCTexts
  Sizes <- MCSizes
  MaxChanges = 4
INVARIANTS
  ShownWhenIdle
  AreasFresh
  NoneForgotten
CHECK_DEADLOCK FALSE
